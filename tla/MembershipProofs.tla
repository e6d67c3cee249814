------------------------- MODULE MembershipProofs --------------------------
(***************************************************************************)
(* Proofs about Membership, for any first configuration, any ids of the    *)
(* nodes that join, any number of rounds and of failed requests to the MA. *)
(***************************************************************************)
EXTENDS MembershipInv, TLAPS, FiniteSetTheorems, WellFoundedInduction,
        SequenceTheorems

\* In every behaviour at most one node joins or leaves.
OneMoves == \A s \in Scenarios : \A a, b \in s : a = b

\* No writer of the first configuration has a higher id than a node that moves.
HighestMoves == \A s \in Scenarios : \A h \in s, n \in Genesis : n <= h

----------------------------------------------------------------------------
(* The coordinator.                                                         *)

\* A set of numbers has a least member.
LEMMA LeastOf ==
  ASSUME NEW T, \A x \in T : x \in Nat, T # {}
  PROVE  \E x \in T : \A y \in T : x <= y
<1>. DEFINE R == OpToRel(<, Nat)
<1>1. IsWellFoundedOn(R, Nat)
  BY NatLessThanWellFounded
<1>2. \A x, y \in Nat : <<y, x>> \in R <=> y < x
  BY DEF OpToRel
<1>. HIDE DEF R
<1>3. \E x \in T : \A y \in T : ~ (<<y, x>> \in R)
  <2>1. T \subseteq Nat
    OBVIOUS
  <2>. QED
    BY <1>1, <2>1, WFMin
<1>4. PICK x \in T : \A y \in T : ~ (<<y, x>> \in R)
  BY <1>3
<1>5. ASSUME NEW y \in T PROVE x <= y
  <2>1. ~(y < x)
    BY <1>2, <1>4
  <2>. QED
    BY <2>1
<1>. QED
  BY <1>5

\* Min of FiniteSetsExt is what it is called.
LEMMA MinOfNats ==
  ASSUME NEW T, \A x \in T : x \in Nat, T # {}
  PROVE  Min(T) \in T /\ \A y \in T : Min(T) <= y
BY LeastOf DEF Min

\* A finite set of numbers has a member of every rank.
LEMMA RankExists ==
  ASSUME NEW S, \A m \in S : m \in Nat, IsFiniteSet(S),
         NEW k \in Nat, k < Cardinality(S)
  PROVE  \E c \in S : Cardinality({m \in S : m < c}) = k
<1>. DEFINE Below(j) == {m \in S : m < j}
            size == Cardinality(S)
<1>1. size \in Nat
  BY FS_CardinalityType
<1>2. ASSUME NEW j \in Nat
      PROVE  /\ IsFiniteSet(Below(j))
             /\ Cardinality(Below(j)) \in Nat
             /\ Cardinality(Below(j)) <= size
             /\ Cardinality(Below(j)) = size => Below(j) = S
  <2>1. Below(j) \in SUBSET S
    OBVIOUS
  <2>2. IsFiniteSet(Below(j))
    BY <2>1, FS_Subset
  <2>. HIDE DEF Below
  <2>. QED
    BY <2>1, <2>2, FS_Subset, FS_CardinalityType
<1>3. ASSUME NEW j \in Nat
      PROVE  Cardinality(Below(j + 1)) =
               Cardinality(Below(j)) + (IF j \in S THEN 1 ELSE 0)
  <2>1. CASE j \in S
    <3>1. Below(j + 1) = Below(j) \cup {j}
      <4>1. \A m \in S : m < j + 1 <=> m < j \/ m = j
        OBVIOUS
      <4>. QED
        BY <2>1, <4>1
    <3>2. j \notin Below(j)
      OBVIOUS
    <3>. QED
      BY <1>2, <2>1, <3>1, <3>2, FS_AddElement
  <2>2. CASE j \notin S
    <3>1. Below(j + 1) = Below(j)
      BY <2>2
    <3>. HIDE DEF Below
    <3>. QED
      BY <1>2, <2>2, <3>1
  <2>. QED
    BY <2>1, <2>2
<1>4. PICK top \in Nat : Cardinality(Below(top)) > k
  <2>. DEFINE T == {size - Cardinality(Below(j)) : j \in Nat}
  <2>1. T # {} /\ \A x \in T : x \in Nat
    <3>. HIDE DEF Below
    <3>. QED
      BY <1>1, <1>2
  <2>2. PICK i \in Nat : \A j \in Nat :
               size - Cardinality(Below(i)) <= size - Cardinality(Below(j))
    <3>1. PICK x \in T : \A y \in T : x <= y
      BY <2>1, LeastOf
    <3>. QED
      BY <3>1
  <2>3. ASSUME NEW x \in Nat
        PROVE  Cardinality(Below(x)) <= Cardinality(Below(i))
    <3>1. size - Cardinality(Below(i)) <= size - Cardinality(Below(x))
      BY <2>2
    <3>2. Cardinality(Below(x)) \in Nat /\ Cardinality(Below(i)) \in Nat
      BY <1>2
    <3>. HIDE DEF Below, size
    <3>. QED
      BY <1>1, <3>1, <3>2
  <2>4. ASSUME NEW c \in S, c >= i
        PROVE  FALSE
    <3>1. Below(i) \in SUBSET Below(c)
      BY <2>4
    <3>2. IsFiniteSet(Below(c)) /\ Cardinality(Below(c)) \in Nat
      BY <1>2
    <3>3. Cardinality(Below(i)) <= Cardinality(Below(c))
      <4>. HIDE DEF Below
      <4>. QED
        BY <3>1, <3>2, FS_Subset
    <3>4. Cardinality(Below(c + 1)) = Cardinality(Below(c)) + 1
      BY <1>3
    <3>5. c + 1 \in Nat
      OBVIOUS
    <3>. HIDE DEF Below
    <3>. QED
      BY <1>2, <2>3, <3>2, <3>3, <3>4, <3>5
  <2>5. Below(i) = S
    BY <2>4
  <2>. QED
    BY <2>5
<1>5. PICK i \in Nat :
        /\ Cardinality(Below(i)) > k
        /\ \A j \in Nat : Cardinality(Below(j)) > k => i <= j
  <2>. DEFINE T == {i \in Nat : Cardinality(Below(i)) > k}
  <2>1. T # {} /\ \A x \in T : x \in Nat
    BY <1>4
  <2>2. PICK i \in T : \A y \in T : i <= y
    BY <2>1, LeastOf
  <2>. QED
    BY <2>2
<1>6. Below(0) = {}
  OBVIOUS
<1>7. Cardinality(Below(0)) = 0
  BY <1>6, FS_EmptySet
<1>. DEFINE c == i - 1
<1>8. c \in Nat /\ i = c + 1
  <2>. HIDE DEF Below
  <2>. QED
    BY <1>5, <1>7
<1>9. Cardinality(Below(c)) <= k
  <2>. HIDE DEF Below
  <2>. QED
    BY <1>2, <1>5, <1>8
<1>10. c \in S /\ Cardinality(Below(c)) = k
  <2>. HIDE DEF Below, c
  <2>. QED
    BY <1>2, <1>3, <1>5, <1>8, <1>9
<1>. QED
  BY <1>10

LEMMA Ids ==
  /\ IsFiniteSet(Nodes) /\ Nodes \subseteq Nat /\ 0 \notin Nodes
  /\ Genesis \subseteq Nodes /\ Joiners \subseteq Nodes
  /\ IsFiniteSet(Genesis) /\ Cardinality(Genesis) \in Nat
<1>1. Genesis \in SUBSET Nodes
  BY DEF Nodes
<1>. QED
  BY <1>1, FS_Subset, FS_CardinalityType, MembershipAssumption DEF Nodes

\* The coordinator of a node is on the list it has.
LEMMA CoordinatorListed ==
  ASSUME NEW n, ma_writer_list[n] \in SUBSET Nodes, ma_writer_list[n] # {},
         round[n] \in Nat
  PROVE  Coordinator(n) \in ma_writer_list[n]
<1>. DEFINE list == ma_writer_list[n]
            k == (round[n] - 1) % Cardinality(list)
<1>1. /\ \A m \in list : m \in Nat
      /\ IsFiniteSet(list)
      /\ Cardinality(list) \in Nat /\ Cardinality(list) # 0
  <2>1. (\A m \in list : m \in Nat) /\ IsFiniteSet(list)
    BY Ids, FS_Subset
  <2>. QED
    BY <2>1, FS_CardinalityType, FS_EmptySet
<1>2. k \in Nat /\ k < Cardinality(list)
  <2>. HIDE DEF list
  <2>. QED
    BY <1>1
<1>3. \E c \in list : Cardinality({m \in list : m < c}) = k
  <2>. HIDE DEF list, k
  <2>. QED
    BY <1>1, <1>2, RankExists
<1>. QED
  BY <1>3 DEF Coordinator

----------------------------------------------------------------------------
(* What the invariant says of lists and versions.                           *)

LEMMA MaxOfTwo ==
  ASSUME NEW a \in Nat, NEW b \in Nat
  PROVE  /\ Max({a, b}) \in {a, b}
         /\ Max({a, b}) >= a /\ Max({a, b}) >= b
<1>1. \E x \in {a, b} : \A y \in {a, b} : x >= y
  OBVIOUS
<1>. QED
  BY <1>1 DEF Max

LEMMA VersionNumbers ==
  ASSUME Types, ConfigInv, NEW n \in Nodes
  PROVE  /\ Latest \in {1, 2}
         /\ conf[n] \in Nat /\ conf[n] >= 1 /\ conf[n] <= Latest
         /\ current_version[n] \in Nat /\ current_version[n] <= Latest
         /\ proposed_version[n] \in Nat /\ proposed_version[n] <= Latest
         /\ GetVersion(n) \in {current_version[n], proposed_version[n]}
         /\ GetVersion(n) >= current_version[n]
         /\ GetVersion(n) >= proposed_version[n]
         /\ GetVersion(n) \in 0 .. Latest
<1>1. Latest \in {1, 2}
  BY DEF ConfigInv, Latest
<1>2. /\ conf[n] \in 1 .. Latest
      /\ current_version[n] \in 0 .. Latest /\ proposed_version[n] \in 0 .. Latest
  BY DEF Types
<1>3. /\ current_version[n] \in Nat /\ proposed_version[n] \in Nat
  BY <1>1, <1>2
<1>. QED
  BY <1>1, <1>2, <1>3, MaxOfTwo DEF GetVersion

LEMMA CoreNotEmpty ==
  ASSUME ConfigInv
  PROVE  /\ Core # {} /\ Core \subseteq Genesis /\ Core \subseteq Moved
         /\ Genesis \subseteq Nodes /\ Moved \subseteq Nodes
         /\ Genesis # {}
<1>1. Genesis # {} /\ ~(\E x : Genesis = {x})
  <2>1. IsFiniteSet(Genesis) /\ Cardinality(Genesis) # 0 /\ Cardinality(Genesis) # 1
    BY Ids, MembershipAssumption
  <2>. QED
    BY <2>1, FS_EmptySet, FS_Singleton
<1>2. PICK a \in Genesis : TRUE
  BY <1>1
<1>3. PICK b \in Genesis : b # a
  BY <1>1, <1>2
<1>4. Core # {}
  BY <1>2, <1>3 DEF ConfigInv, Core
<1>. QED
  BY <1>1, <1>4, Ids DEF Core, Moved

LEMMA Lists ==
  ASSUME Types, ConfigInv, VersionInv, NEW n \in Nodes
  PROVE  /\ ma_writer_list[n] \in {Genesis, Moved}
         /\ ma_writer_list[n] \in SUBSET Nodes
         /\ Core \subseteq ma_writer_list[n]
         /\ ma_writer_list[n] # {}
         /\ Coordinator(n) \in ma_writer_list[n]
         /\ Coordinator(n) \in Nodes
<1>1. ma_writer_list[n] \in {Genesis, Moved}
  BY DEF Nodes, VersionInv, VersionOf, ListOf
<1>2. /\ ma_writer_list[n] \in SUBSET Nodes
      /\ Core \subseteq ma_writer_list[n]
      /\ ma_writer_list[n] # {}
  BY <1>1, CoreNotEmpty
<1>3. round[n] \in Nat
  BY DEF Types
<1>. QED
  BY <1>1, <1>2, <1>3, CoordinatorListed

\* Who runs is of the first configuration or has joined.
LEMMA Running ==
  ASSUME ConfigInv, NEW n \in Nodes, pc[n] # "off"
  PROVE  n \in Genesis \/ n \in moving \cap Joiners
  BY DEF ConfigInv, Nodes

LEMMA OneMover ==
  ASSUME ConfigInv, NEW h \in moving
  PROVE  /\ h \in Nodes
         /\ \A x \in Genesis : x # h => x \in Core
         /\ h \in Genesis => Moved = Core /\ h \notin Core
         /\ h \in Joiners => Core = Genesis /\ Moved = Genesis \cup {h}
                             /\ h \notin Genesis
<1>1. Genesis \cap Joiners = {}
  BY MembershipAssumption
<1>2. moving = {h}
  BY DEF ConfigInv
<1>. QED
  BY <1>1, <1>2, Ids DEF ConfigInv, Core, Moved

LEMMA ChainType ==
  ASSUME Types, NEW n \in Nodes
  PROVE  /\ chain[n] \in Seq(Nodes \X Nat)
         /\ Len(chain[n]) \in Nat
         /\ chain[n] = <<>> <=> Len(chain[n]) = 0
  BY DEF Types

LEMMA MsgTypes ==
  ASSUME Types, NEW m \in msgs
  PROVE  /\ m.from \in Nodes /\ m.to \in Nodes /\ m.round \in Nat
         /\ m = [type |-> m.type, round |-> m.round, from |-> m.from,
                 to |-> m.to, content |-> m.content]
  BY DEF Types, IsMsg

LEMMA NewMsg ==
  ASSUME NEW n \in Nodes, NEW to \in Nodes, round[n] \in Nat, NEW content
  PROVE  /\ IsMsg(Msg("request", n, to, content))
         /\ IsMsg(Msg("reply", n, to, content))
         /\ IsMsg(Msg("announce", n, to, content))
         /\ IsMsg(Msg("block", n, to, content))
  BY DEF IsMsg, Msg

LEMMA ReceivableFacts ==
  ASSUME Types, NEW n \in Nodes, NEW type, NEW m \in Receivable(n, type)
  PROVE  /\ m \in msgs /\ IsMsg(m) /\ m.type = type /\ m.to = n
         /\ round[n] # 0 => m.round = round[n]
         /\ m \in MsgsOf(type)
  BY DEF Receivable, Types, MsgsOf

LEMMA AppendFacts ==
  ASSUME Types, NEW n \in Nodes, NEW b \in Nodes \X Nat
  PROVE  /\ Append(chain[n], b) \in Seq(Nodes \X Nat)
         /\ Len(Append(chain[n], b)) = Len(chain[n]) + 1
         /\ \A i \in 1 .. Len(chain[n]) : Append(chain[n], b)[i] = chain[n][i]
         /\ Append(chain[n], b)[Len(chain[n]) + 1] = b
  BY DEF Types

----------------------------------------------------------------------------
(* Types.                                                                   *)

LEMMA InitTypes == Init => Types
<1>. SUFFICES ASSUME Init PROVE Types
  OBVIOUS
<1>1. Latest = 1
  BY DEF Init, Latest
<1>2. Genesis \in SUBSET Nodes /\ \A n \in Nodes : Genesis \ {n} \in SUBSET Nodes
  BY Ids
<1>3. /\ conf \in [Nodes -> 1 .. Latest]
      /\ current_version \in [Nodes -> 0 .. Latest]
      /\ proposed_version \in [Nodes -> 0 .. Latest]
  BY <1>1 DEF Init
<1>4. /\ pc \in [Nodes -> Phases] /\ round \in [Nodes -> Nat]
      /\ winner \in [Nodes -> Nodes \cup {0}] /\ numbers \in [Nodes -> SUBSET Nodes]
  BY DEF Init, Phases
<1>5. chain \in [Nodes -> Seq(Nodes \X Nat)]
  BY DEF Init
<1>6. /\ ma_writer_list \in [Nodes -> SUBSET Nodes]
      /\ peers \in [Nodes -> SUBSET Nodes] /\ connected \in [Nodes -> SUBSET Nodes]
  BY <1>2 DEF Init
<1>. QED
  BY <1>3, <1>4, <1>5, <1>6 DEF Init, Types

LEMMA ConfigsGrow ==
  ASSUME ConfigInv, ConfigInv', Latest' >= Latest, moving' = moving
  PROVE  /\ Moved' = Moved /\ Core' = Core
         /\ Latest \in {1, 2} /\ Latest' \in {1, 2}
         /\ configs[1] = Genesis /\ configs'[1] = Genesis
         /\ Latest = 2 => configs[2] = Moved
         /\ Latest' = 2 => configs'[2] = Moved
  BY DEF ConfigInv, Latest, Moved, Core

\* Each block of c is one that somebody has at the same height.
Copied(c) ==
  \A i \in 1 .. Len(c) :
    \E x \in Nodes : i \in 1 .. Len(chain[x]) /\ c[i] = chain[x][i]

\* n has what it had, or more.
Fetches(n) ==
  \E c \in Seq(Nodes \X Nat) :
    /\ chain' = [chain EXCEPT ![n] = c]
    /\ Len(c) >= Len(chain[n]) /\ Copied(c)

LEMMA OwnIsCopied ==
  ASSUME Types, NEW n \in Nodes
  PROVE  Copied(chain[n])
BY DEF Copied

\* The first blocks of a chain.
LEMMA PartOfChain ==
  ASSUME Types, NEW x \in Nodes, NEW k \in 0 .. Len(chain[x])
  PROVE  /\ SubSeq(chain[x], 1, k) \in Seq(Nodes \X Nat)
         /\ Len(SubSeq(chain[x], 1, k)) = k
         /\ Copied(SubSeq(chain[x], 1, k))
<1>1. chain[x] \in Seq(Nodes \X Nat) /\ Len(chain[x]) \in Nat
  BY ChainType
<1>2. /\ SubSeq(chain[x], 1, k) \in Seq(Nodes \X Nat)
      /\ Len(SubSeq(chain[x], 1, k)) = k
      /\ \A i \in 1 .. k : SubSeq(chain[x], 1, k)[i] = chain[x][i]
  BY <1>1
<1>. QED
  BY <1>1, <1>2 DEF Copied

\* The part of a sequence t after the length of s, put behind s.
LEMMA Extended ==
  ASSUME NEW S, NEW s \in Seq(S), NEW t \in Seq(S), NEW j \in Nat, NEW k \in Nat,
         j = Len(s), j <= k, k <= Len(t)
  PROVE  /\ s \o SubSeq(t, j + 1, k) \in Seq(S)
         /\ Len(s \o SubSeq(t, j + 1, k)) = k
         /\ \A i \in 1 .. k :
              (s \o SubSeq(t, j + 1, k))[i] = IF i <= j THEN s[i] ELSE t[i]
<1>. DEFINE d == SubSeq(t, j + 1, k)
<1>1. j + 1 \in Int /\ k \in Int /\ \A i \in j + 1 .. k : i \in 1 .. Len(t)
  OBVIOUS
<1>2. \A i \in j + 1 .. k : t[i] \in S
  BY <1>1
<1>3. /\ d \in Seq(S)
      /\ Len(d) = IF j + 1 <= k THEN k - (j + 1) + 1 ELSE 0
      /\ \A i \in 1 .. k - (j + 1) + 1 : d[i] = t[j + 1 + i - 1]
  BY <1>1, <1>2, SubSeqProperties
<1>4. Len(d) = k - j
  BY <1>3
<1>. HIDE DEF d
<1>5. /\ s \o d \in Seq(S) /\ Len(s \o d) = Len(s) + Len(d)
      /\ \A i \in 1 .. Len(s) + Len(d) :
           (s \o d)[i] = IF i <= Len(s) THEN s[i] ELSE d[i - Len(s)]
  BY <1>3, ConcatProperties
<1>6. j + (k - j) = k
  OBVIOUS
<1>7. /\ s \o d \in Seq(S) /\ Len(s \o d) = k
      /\ \A i \in 1 .. k : (s \o d)[i] = IF i <= j THEN s[i] ELSE d[i - j]
  BY <1>4, <1>5, <1>6
<1>8. ASSUME NEW i \in 1 .. k, ~(i <= j) PROVE d[i - j] = t[i]
  <2>1. i - j \in 1 .. k - (j + 1) + 1 /\ j + 1 + (i - j) - 1 = i
    BY <1>8
  <2>. QED
    BY <1>3, <2>1
<1>9. \A i \in 1 .. k : (s \o d)[i] = IF i <= j THEN s[i] ELSE t[i]
  BY <1>7, <1>8
<1>. QED
  BY <1>7, <1>9 DEF d

\* A chain, with blocks of another one that follow it.
More(n, x, k) == chain[n] \o SubSeq(chain[x], Len(chain[n]) + 1, k)

LEMMA MoreOfChain ==
  ASSUME Types, NEW n \in Nodes, NEW x \in Nodes, NEW k \in Nat,
         Len(chain[n]) <= k, k <= Len(chain[x])
  PROVE  /\ More(n, x, k) \in Seq(Nodes \X Nat)
         /\ Len(More(n, x, k)) = k
         /\ Copied(More(n, x, k))
<1>1. PICK c : c = More(n, x, k)
  OBVIOUS
<1>2. PICK j \in Nat : j = Len(chain[n])
  BY ChainType
<1>3. PICK s \in Seq(Nodes \X Nat) : s = chain[n]
  BY ChainType
<1>4. PICK t \in Seq(Nodes \X Nat) : t = chain[x]
  BY ChainType
<1>5. j = Len(s) /\ j <= k /\ k <= Len(t) /\ Len(t) \in Nat
  BY <1>2, <1>3, <1>4
<1>6. c = s \o SubSeq(t, j + 1, k)
  BY <1>1, <1>2, <1>3, <1>4 DEF More
<1>7. /\ s \o SubSeq(t, j + 1, k) \in Seq(Nodes \X Nat)
      /\ Len(s \o SubSeq(t, j + 1, k)) = k
      /\ \A i \in 1 .. k :
           (s \o SubSeq(t, j + 1, k))[i] = IF i <= j THEN s[i] ELSE t[i]
  <2>. DEFINE S == Nodes \X Nat
  <2>1. s \in Seq(S) /\ t \in Seq(S)
    OBVIOUS
  <2>. HIDE DEF S
  <2>2. /\ s \o SubSeq(t, j + 1, k) \in Seq(S)
        /\ Len(s \o SubSeq(t, j + 1, k)) = k
        /\ \A i \in 1 .. k :
             (s \o SubSeq(t, j + 1, k))[i] = IF i <= j THEN s[i] ELSE t[i]
    BY <1>5, <2>1, Extended
  <2>. QED
    BY <2>2 DEF S
<1>8. /\ c \in Seq(Nodes \X Nat) /\ Len(c) = k
      /\ \A i \in 1 .. k : c[i] = IF i <= j THEN s[i] ELSE t[i]
  BY <1>6, <1>7
<1>9. ASSUME NEW i \in 1 .. k
      PROVE  \E y \in Nodes : i \in 1 .. Len(chain[y]) /\ c[i] = chain[y][i]
  <2>1. CASE i <= j
    <3>1. c[i] = chain[n][i] /\ i \in 1 .. Len(chain[n])
      BY <1>2, <1>3, <1>8, <2>1
    <3>. QED
      BY <3>1
  <2>2. CASE ~(i <= j)
    <3>1. c[i] = chain[x][i] /\ i \in 1 .. Len(chain[x])
      BY <1>4, <1>5, <1>8, <2>2
    <3>. QED
      BY <3>1
  <2>. QED
    BY <2>1, <2>2
<1>10. Copied(c)
  BY <1>8, <1>9 DEF Copied
<1>. QED
  BY <1>1, <1>8, <1>10

\* However a call of download_db ends, what it adds are the blocks of another
\* node.
LEMMA CallFetches ==
  ASSUME Types, NEW n \in Nodes, NEW list \in SUBSET Nodes,
         InSync(n, list) \/ Abandoned(n, list) \/ Unanswered
  PROVE  Fetches(n)
<1>1. CASE InSync(n, list)
  <2>1. PICK m \in list \ {n} :
          /\ Knows(m, n)
          /\ chain' = [chain EXCEPT ![n] = @ \o Missing(n, m)]
    BY <1>1 DEF InSync
  <2>2. m \in Nodes /\ Len(chain[m]) \in Nat /\ Len(chain[n]) <= Len(chain[m])
    BY <2>1, ChainType DEF Knows
  <2>3. PICK k \in Nat : k = Len(chain[m])
    BY <2>2
  <2>4. PICK c : c = More(n, m, k)
    OBVIOUS
  <2>5. Len(chain[n]) <= k /\ k <= Len(chain[m])
    BY <2>2, <2>3
  <2>6. c \in Seq(Nodes \X Nat) /\ Len(c) = k /\ Copied(c)
    BY <2>2, <2>4, <2>5, MoreOfChain
  <2>7. chain' = [chain EXCEPT ![n] = c]
    BY <2>1, <2>3, <2>4 DEF Missing, More
  <2>8. Len(c) >= Len(chain[n])
    BY <2>5, <2>6, ChainType
  <2>. QED
    BY <2>6, <2>7, <2>8 DEF Fetches
<1>2. CASE Abandoned(n, list)
  <2>1. PICK m \in list \ {n} :
          /\ Knows(m, n) /\ Unreadable(n, m) # {}
          /\ chain' = [chain EXCEPT ![n] =
               @ \o SubSeq(chain[m], Len(@) + 1, Min(Unreadable(n, m)) - 1)]
    BY <1>2 DEF Abandoned
  <2>2. m \in Nodes /\ Len(chain[m]) \in Nat /\ Len(chain[n]) \in Nat
    BY <2>1, ChainType
  <2>3. \A i \in Unreadable(n, m) : i \in Nat
    BY <2>2 DEF Unreadable
  <2>4. Min(Unreadable(n, m)) \in Unreadable(n, m)
    BY <2>1, <2>3, MinOfNats
  <2>5. PICK i \in Unreadable(n, m) : i = Min(Unreadable(n, m))
    BY <2>4
  <2>6. i - 1 \in Nat /\ Len(chain[n]) <= i - 1 /\ i - 1 <= Len(chain[m])
    BY <2>2 DEF Unreadable
  <2>7. PICK k \in Nat : k = i - 1
    BY <2>6
  <2>8. PICK c : c = More(n, m, k)
    OBVIOUS
  <2>9. Len(chain[n]) <= k /\ k <= Len(chain[m])
    BY <2>6, <2>7
  <2>10. c \in Seq(Nodes \X Nat) /\ Len(c) = k /\ Copied(c)
    BY <2>2, <2>8, <2>9, MoreOfChain
  <2>11. chain' = [chain EXCEPT ![n] =
            @ \o SubSeq(chain[m], Len(@) + 1, k)]
    BY <2>1, <2>5, <2>7
  <2>12. chain' = [chain EXCEPT ![n] = c]
    BY <2>8, <2>11 DEF More
  <2>13. Len(c) >= Len(chain[n])
    BY <2>2, <2>9, <2>10
  <2>. QED
    BY <2>10, <2>12, <2>13 DEF Fetches
<1>3. CASE Unanswered
  <2>1. chain[n] \in Seq(Nodes \X Nat) /\ Len(chain[n]) \in Nat
    BY ChainType
  <2>2. PICK c \in Seq(Nodes \X Nat) : c = chain[n]
    BY <2>1
  <2>3. chain' = [chain EXCEPT ![n] = c]
    BY <1>3, <2>2 DEF Unanswered, Types
  <2>4. Copied(c)
    BY <2>2, OwnIsCopied
  <2>5. Len(c) >= Len(chain[n])
    BY <2>1, <2>2
  <2>. QED
    BY <2>3, <2>4, <2>5 DEF Fetches
<1>. QED
  BY <1>1, <1>2, <1>3

\* What a node finds in its database when it is started.
LEMMA StartFetches ==
  ASSUME IInv, NEW n \in Nodes, StartNode(n)
  PROVE  Fetches(n)
<1>. Types
  BY DEF IInv
<1>0. PICK m \in Nodes : \E k \in 0 .. Len(chain[m]) :
        chain' = [chain EXCEPT ![n] = SubSeq(chain[m], 1, k)]
  BY DEF StartNode
<1>1. PICK k \in 0 .. Len(chain[m]) :
        chain' = [chain EXCEPT ![n] = SubSeq(chain[m], 1, k)]
  BY <1>0
<1>2. chain[n] = <<>>
  BY DEF StartNode, IInv, RoundInv, RoundOf
<1>3. k \in Nat /\ Len(chain[n]) = 0
  BY <1>2, ChainType
<1>4. PICK c : c = SubSeq(chain[m], 1, k)
  OBVIOUS
<1>5. c \in Seq(Nodes \X Nat) /\ Len(c) = k /\ Copied(c)
  BY <1>4, PartOfChain
<1>6. chain' = [chain EXCEPT ![n] = c] /\ Len(c) >= Len(chain[n])
  BY <1>1, <1>3, <1>4, <1>5
<1>. QED
  BY <1>5, <1>6 DEF Fetches

\* The steps in which a node gets blocks otherwise than in a round.
Fetching(n) ==
  StartNode(n) \/ Activate(n) \/ FetchAbandoned(n) \/ JoinPoll(n)

LEMMA FetchTypes ==
  ASSUME Types, NEW n \in Nodes, Fetches(n)
  PROVE  /\ chain' \in [Nodes -> Seq(Nodes \X Nat)]
         /\ Copied(chain'[n]) /\ Len(chain'[n]) >= Len(chain[n])
         /\ \A x \in Nodes : x # n => chain'[x] = chain[x]
BY DEF Fetches, Types

LEMMA FetchingFetches ==
  ASSUME IInv, Types', NEW n \in Nodes, Fetching(n)
  PROVE  /\ Copied(chain'[n]) /\ Len(chain'[n]) >= Len(chain[n])
         /\ \A x \in Nodes : x # n => chain'[x] = chain[x]
<1>. Types
  BY DEF IInv
<1>1. PICK S \in SUBSET Nodes :
        StartNode(n) \/ InSync(n, S) \/ Abandoned(n, S) \/ Unanswered
  <2>1. /\ ma_writer_list[n] \in SUBSET Nodes
        /\ ma_writer_list'[n] \in SUBSET Nodes
    BY DEF Types
  <2>. QED
    BY <2>1 DEF Fetching, Activate, FetchAbandoned, JoinPoll
<1>2. Fetches(n)
  BY <1>1, StartFetches, CallFetches
<1>. QED
  BY <1>2, FetchTypes

LEMMA BroadcastTypes ==
  ASSUME Types, NEW n \in Nodes, NEW content, NEW m \in msgs'
  PROVE  /\ m \in Broadcast("request", n, content) => IsMsg(m)
         /\ m \in Broadcast("announce", n, content) => IsMsg(m)
         /\ m \in Broadcast("block", n, content) => IsMsg(m)
  BY NewMsg DEF Broadcast, Types

LEMMA StoreBlockTypes ==
  ASSUME Types, NEW n \in Nodes, NEW b \in Nodes \X Nat, StoreBlock(n, b)
  PROVE  /\ pc' \in [Nodes -> Phases] /\ round' \in [Nodes -> Nat]
         /\ chain' \in [Nodes -> Seq(Nodes \X Nat)]
         /\ \A x \in Nodes \ {n} :
              pc'[x] = pc[x] /\ round'[x] = round[x] /\ chain'[x] = chain[x]
         /\ pc'[n] \in {"loop", "done"}
         /\ chain'[n] = Append(chain[n], b)
         /\ Len(chain'[n]) = Len(chain[n]) + 1
         /\ round'[n] = Len(chain[n]) + 2
<1>1. /\ Append(chain[n], b) \in Seq(Nodes \X Nat)
      /\ Len(Append(chain[n], b)) = Len(chain[n]) + 1
  BY AppendFacts
<1>2. Len(chain[n]) \in Nat
  BY ChainType
<1>3. chain'[n] = Append(chain[n], b) /\ \A x \in Nodes \ {n} : chain'[x] = chain[x]
  BY DEF StoreBlock, Types
<1>4. chain' \in [Nodes -> Seq(Nodes \X Nat)]
  BY <1>1 DEF StoreBlock, Types
<1>5. /\ round'[n] = Len(chain[n]) + 2 /\ round' \in [Nodes -> Nat]
      /\ \A x \in Nodes \ {n} : round'[x] = round[x]
  BY <1>1, <1>2, <1>3 DEF StoreBlock, Types
<1>6. /\ pc'[n] \in {"loop", "done"} /\ pc' \in [Nodes -> Phases]
      /\ \A x \in Nodes \ {n} : pc'[x] = pc[x]
  BY DEF StoreBlock, Types, Phases
<1>. QED
  BY <1>1, <1>3, <1>4, <1>5, <1>6

LEMMA JoinTypes ==
  ASSUME IInv, ConfigInv', NEW n \in Nodes,
         StartNode(n) \/ Activate(n) \/ FetchAbandoned(n) \/ Deactivate(n)
  PROVE  Types'
<1>. Types /\ ConfigInv
  BY DEF IInv
<1>1. CASE StartNode(n)
  <2>1. Latest \in {1, 2} /\ configs[Latest] \in SUBSET Nodes /\ Latest' = Latest
    <3>1. Latest \in {1, 2} /\ configs[Latest] \in {Genesis, Moved}
      BY DEF ConfigInv, Latest
    <3>2. configs' = configs
      BY <1>1 DEF StartNode, maVars
    <3>. QED
      BY <3>1, <3>2, CoreNotEmpty DEF Latest
  <2>2. Latest \in 1 .. Latest /\ Latest \in 0 .. Latest
    BY <2>1
  <2>. HIDE DEF Latest
  <2>3. /\ pc' \in [Nodes -> Phases] /\ conf' \in [Nodes -> 1 .. Latest]
        /\ current_version' \in [Nodes -> 0 .. Latest]
        /\ ma_writer_list' \in [Nodes -> SUBSET Nodes]
        /\ peers' \in [Nodes -> SUBSET Nodes]
    BY <1>1, <2>1, <2>2 DEF StartNode, Types, Phases
  <2>. QED
    BY <1>1, <2>1, <2>3, StartFetches, FetchTypes
    DEF StartNode, Types, maVars, roundVars, IsMsg
<1>2. CASE Activate(n)
  <2>1. Latest' = Latest + 1
    BY <1>2 DEF Activate, ConfigInv, Latest
  <2>2. Latest \in {1, 2} /\ configs[Latest] \cup {n} \in SUBSET Nodes
    BY CoreNotEmpty DEF ConfigInv, Latest
  <2>. HIDE DEF Latest
  <2>3. Latest + 1 \in 1 .. Latest' /\ Latest + 1 \in 0 .. Latest'
    BY <2>1, <2>2
  <2>4. 1 .. Latest \subseteq 1 .. Latest' /\ 0 .. Latest \subseteq 0 .. Latest'
    BY <2>1, <2>2
  <2>5. /\ pc' \in [Nodes -> Phases] /\ conf' \in [Nodes -> 1 .. Latest']
        /\ current_version' \in [Nodes -> 0 .. Latest']
        /\ proposed_version' \in [Nodes -> 0 .. Latest']
        /\ ma_writer_list' \in [Nodes -> SUBSET Nodes]
    <3>1. conf' = [conf EXCEPT ![n] = Latest + 1]
          /\ current_version' = [current_version EXCEPT ![n] = Latest + 1]
          /\ proposed_version' = proposed_version
          /\ ma_writer_list' = [ma_writer_list EXCEPT ![n] = configs[Latest] \cup {n}]
          /\ pc' = [pc EXCEPT ![n] = "join"]
      BY <1>2 DEF Activate
    <3>2. conf' \in [Nodes -> 1 .. Latest']
      BY <2>3, <2>4, <3>1 DEF Types
    <3>3. current_version' \in [Nodes -> 0 .. Latest']
      BY <2>3, <2>4, <3>1 DEF Types
    <3>4. proposed_version' \in [Nodes -> 0 .. Latest']
      BY <2>4, <3>1 DEF Types
    <3>. QED
      BY <2>2, <3>1, <3>2, <3>3, <3>4 DEF Types, Phases
  <2>6. chain' \in [Nodes -> Seq(Nodes \X Nat)]
    BY <1>2, CallFetches, FetchTypes DEF Activate, Types
  <2>. QED
    BY <1>2, <2>5, <2>6 DEF Activate, Types, roundVars, comVars, IsMsg
<1>3. CASE Deactivate(n)
  <2>1. Latest' = Latest + 1 /\ Latest \in {1, 2}
    BY <1>3 DEF Deactivate, ConfigInv, Latest
  <2>. HIDE DEF Latest
  <2>2. 1 .. Latest \subseteq 1 .. Latest' /\ 0 .. Latest \subseteq 0 .. Latest'
    BY <2>1
  <2>3. /\ conf' \in [Nodes -> 1 .. Latest']
        /\ current_version' \in [Nodes -> 0 .. Latest']
        /\ proposed_version' \in [Nodes -> 0 .. Latest']
    BY <1>3, <2>2 DEF Deactivate, memberVars, Types
  <2>. QED
    BY <1>3, <2>3 DEF Deactivate, Types, roundVars, comVars, memberVars, IsMsg
<1>4. CASE FetchAbandoned(n)
  <2>1. ma_writer_list[n] \in SUBSET Nodes /\ Latest' = Latest
    BY <1>4 DEF FetchAbandoned, Types, maVars, Latest
  <2>2. chain' \in [Nodes -> Seq(Nodes \X Nat)]
    BY <1>4, <2>1, CallFetches, FetchTypes DEF FetchAbandoned
  <2>. QED
    BY <1>4, <2>1, <2>2
    DEF FetchAbandoned, Types, maVars, roundVars, memberVars, comVars, IsMsg
<1>. QED
  BY <1>1, <1>2, <1>3, <1>4

LEMMA ListsTypes ==
  ASSUME IInv, NEW n \in Nodes,
         JoinPoll(n) \/ JoinDone(n) \/ UpdateVersion(n) \/ StartCoordinator(n)
         \/ StartWriter(n)
  PROVE  Types'
<1>. Types /\ ConfigInv /\ VersionInv
  BY DEF IInv
<1>1. /\ Latest \in {1, 2} /\ \A v \in 1 .. Latest : configs[v] \in SUBSET Nodes
      /\ Latest \in 1 .. Latest /\ Latest \in 0 .. Latest /\ 0 \in 0 .. Latest
  <2>1. Latest \in {1, 2}
    BY DEF ConfigInv, Latest
  <2>2. \A v \in 1 .. Latest : configs[v] \in {Genesis, Moved}
    BY <2>1 DEF ConfigInv, Latest
  <2>. HIDE DEF Latest
  <2>. QED
    BY <2>1, <2>2, CoreNotEmpty
<1>2. Latest' = Latest
  <2>1. configs' = configs
    BY DEF JoinPoll, JoinDone, UpdateVersion, StartCoordinator, StartWriter, maVars
  <2>. QED
    BY <2>1 DEF Latest
<1>. HIDE DEF Latest
<1>3. CASE JoinPoll(n)
  <2>1. /\ conf' \in [Nodes -> 1 .. Latest]
        /\ current_version' \in [Nodes -> 0 .. Latest]
        /\ ma_writer_list' \in [Nodes -> SUBSET Nodes]
    <3>1. \/ /\ conf' = [conf EXCEPT ![n] = Latest]
             /\ current_version' = [current_version EXCEPT ![n] = Latest]
             /\ ma_writer_list' = [ma_writer_list EXCEPT ![n] = configs[Latest]]
          \/ /\ current_version' = [current_version EXCEPT ![n] = 0]
             /\ UNCHANGED <<conf, ma_writer_list>>
      BY <1>3 DEF JoinPoll, WaitingNodeGetConf
    <3>2. current_version' \in [Nodes -> 0 .. Latest]
      BY <1>1, <3>1 DEF Types
    <3>3. conf' \in [Nodes -> 1 .. Latest]
      BY <1>1, <3>1 DEF Types
    <3>4. ma_writer_list' \in [Nodes -> SUBSET Nodes]
      BY <1>1, <3>1 DEF Types
    <3>. QED
      BY <3>2, <3>3, <3>4
  <2>2. ma_writer_list'[n] \in SUBSET Nodes
    BY <2>1
  <2>3. InSync(n, ma_writer_list'[n]) \/ Abandoned(n, ma_writer_list'[n])
        \/ Unanswered
    BY <1>3 DEF JoinPoll
  <2>4. chain' \in [Nodes -> Seq(Nodes \X Nat)]
    BY <2>2, <2>3, CallFetches, FetchTypes
  <2>. QED
    BY <1>2, <1>3, <2>1, <2>4 DEF JoinPoll, Types, roundVars, comVars, IsMsg
<1>4. CASE JoinDone(n)
  <2>1. Len(chain[n]) \in Nat
    BY ChainType
  <2>2. pc' \in [Nodes -> Phases] /\ round' \in [Nodes -> Nat]
    BY <1>4, <2>1 DEF JoinDone, Types, Phases
  <2>. QED
    BY <1>2, <1>4, <2>2 DEF JoinDone, Types, memberVars, comVars, IsMsg
<1>5. CASE UpdateVersion(n)
  <2>1. conf[n] \in 1 .. Latest /\ proposed_version[n] \in 0 .. Latest
    BY DEF Types
  <2>2. ListsOf(n) \in SUBSET Nodes
    BY <1>1, <2>1 DEF ListsOf
  <2>3. /\ pc' \in [Nodes -> Phases]
        /\ ma_writer_list' \in [Nodes -> SUBSET Nodes]
        /\ current_version' \in [Nodes -> 0 .. Latest]
    BY <1>5, <2>1, <2>2 DEF UpdateVersion, Types, Phases
  <2>4. Remaining(n) \cup PeersOf(n) \in SUBSET Nodes
    BY <2>2 DEF Remaining, PeersOf
  <2>5. peers' \in [Nodes -> SUBSET Nodes]
    BY <1>5, <2>4 DEF UpdateVersion, Types
  <2>6. connected' \in [Nodes -> SUBSET Nodes]
    BY <1>5 DEF UpdateVersion, Types
  <2>. QED
    BY <1>2, <1>5, <2>3, <2>5, <2>6 DEF UpdateVersion, Types, roundVars, IsMsg
<1>6. CASE StartCoordinator(n)
  <2>1. /\ conf' \in [Nodes -> 1 .. Latest]
        /\ current_version' \in [Nodes -> 0 .. Latest]
        /\ proposed_version' \in [Nodes -> 0 .. Latest]
    <3>1. /\ conf' = conf \/ conf' = [conf EXCEPT ![n] = Latest]
          /\ \/ current_version' = current_version
             \/ current_version' = [current_version EXCEPT ![n] = Latest]
             \/ current_version' = [current_version EXCEPT ![n] = 0]
          /\ \/ proposed_version' = proposed_version
             \/ proposed_version' = [proposed_version EXCEPT ![n] = Latest]
      BY <1>6 DEF StartCoordinator, GetRemoteConf
    <3>2. current_version' \in [Nodes -> 0 .. Latest]
      BY <1>1, <3>1 DEF Types
    <3>3. conf' \in [Nodes -> 1 .. Latest]
      BY <1>1, <3>1 DEF Types
    <3>4. proposed_version' \in [Nodes -> 0 .. Latest]
      BY <1>1, <3>1 DEF Types
    <3>. QED
      BY <3>2, <3>3, <3>4
  <2>2. pc' \in [Nodes -> Phases] /\ numbers' \in [Nodes -> SUBSET Nodes]
    BY <1>6 DEF StartCoordinator, Types, Phases
  <2>3. \A m \in msgs' : IsMsg(m)
    <3>1. ASSUME NEW m \in msgs' PROVE IsMsg(m)
      <4>1. m \in msgs \/ m \in Broadcast("request", n, GetVersion(n)')
        BY <1>6 DEF StartCoordinator
      <4>. QED
        BY <4>1, BroadcastTypes DEF Types
    <3>. QED
      BY <3>1
  <2>4. \A m \in msgs' : IsMsg(m)'
    BY <2>3 DEF IsMsg
  <2>. QED
    BY <1>2, <1>6, <2>1, <2>2, <2>4 DEF StartCoordinator, Types, comVars
<1>7. CASE StartWriter(n)
  <2>1. pc' \in [Nodes -> Phases]
    BY <1>7 DEF StartWriter, Types, Phases
  <2>. QED
    BY <1>2, <1>7, <2>1
       DEF StartWriter, Types, roundVars, memberVars, comVars, IsMsg
<1>. QED
  BY <1>3, <1>4, <1>5, <1>6, <1>7

LEMMA RoundTypes ==
  ASSUME IInv, NEW n \in Nodes,
         AnswerRequest(n) \/ CollectReply(n) \/ AnnounceWinner(n)
         \/ TakeAnnouncement(n) \/ ReceiveBlock(n)
  PROVE  Types'
<1>. Types /\ ConfigInv /\ VersionInv
  BY DEF IInv
<1>2. configs' = configs /\ Latest' = Latest
  <2>1. configs' = configs
    BY DEF AnswerRequest, CollectReply, AnnounceWinner, TakeAnnouncement,
           ReceiveBlock, maVars
  <2>. QED
    BY <2>1 DEF Latest
<1>. HIDE DEF Latest
<1>3. CASE AnswerRequest(n)
  <2>1. PICK m \in Requests(n) :
          /\ CheckVersion(n, m.content)
          /\ msgs' = (msgs \ {m}) \cup
                     {Msg("reply", n, c, 0) : c \in {m.from} \cap connected[n]}
    BY <1>3 DEF AnswerRequest
  <2>2. m \in MsgsOf("request") /\ m.from \in Nodes
    BY <2>1, ReceivableFacts DEF Requests, IsMsg
  <2>3. m.content \in 0 .. Latest
    <3>1. m.content = GetVersion(m.from)
      BY <2>2 DEF IInv, RequestInv
    <3>. QED
      BY <2>2, <3>1, VersionNumbers
  <2>4. m.content > current_version[n] => m.content \in 1 .. Latest
    BY <2>3, VersionNumbers
  <2>5. conf' \in [Nodes -> 1 .. Latest] /\ proposed_version' \in [Nodes -> 0 .. Latest]
    BY <2>1, <2>3, <2>4 DEF CheckVersion, GetMembershipVersion, Types
  <2>6. pc' \in [Nodes -> Phases]
    BY <1>3 DEF AnswerRequest, Types, Phases
  <2>7. \A o \in msgs' : IsMsg(o)'
    <3>1. \A o \in msgs' : IsMsg(o)
      BY <2>1, <2>2, NewMsg DEF Types
    <3>. QED
      BY <3>1 DEF IsMsg
  <2>. QED
    BY <1>2, <1>3, <2>5, <2>6, <2>7
       DEF AnswerRequest, Types, roundVars, comVars
<1>4. CASE CollectReply(n)
  <2>1. PICK m \in Receivable(n, "reply") :
          /\ numbers' = [numbers EXCEPT ![n] = @ \cup {m.from}]
          /\ msgs' = msgs \ {m}
    BY <1>4 DEF CollectReply
  <2>2. m.from \in Nodes
    BY <2>1, ReceivableFacts DEF IsMsg
  <2>3. numbers' \in [Nodes -> SUBSET Nodes]
    BY <2>1, <2>2 DEF Types
  <2>. QED
    BY <1>2, <1>4, <2>1, <2>3 DEF CollectReply, Types, memberVars, comVars, IsMsg
<1>5. CASE AnnounceWinner(n)
  <2>1. PICK w \in numbers[n] \cap ma_writer_list[n] :
          /\ winner' = [winner EXCEPT ![n] = w]
          /\ msgs' = msgs \cup Broadcast("announce", n, w)
    BY <1>5 DEF AnnounceWinner
  <2>2. w \in Nodes
    BY DEF Types
  <2>3. winner' \in [Nodes -> Nodes \cup {0}] /\ pc' \in [Nodes -> Phases]
    BY <1>5, <2>1, <2>2 DEF AnnounceWinner, Types, Phases
  <2>4. \A m \in msgs' : IsMsg(m)'
    <3>1. \A m \in msgs' : IsMsg(m)
      BY <2>1, BroadcastTypes DEF Types
    <3>. QED
      BY <3>1 DEF IsMsg
  <2>. QED
    BY <1>2, <1>5, <2>3, <2>4 DEF AnnounceWinner, Types, memberVars, comVars
<1>6. CASE TakeAnnouncement(n)
  <2>1. PICK m \in Receivable(n, "announce") :
       /\ winner' = [winner EXCEPT ![n] = m.content]
       /\ \/ /\ StoreBlock(n, <<n, Len(chain[n])>>)
             /\ msgs' = (msgs \ {m})
                        \cup Broadcast("block", n, <<n, Len(chain[n])>>)
          \/ /\ msgs' = msgs \ {m}
             /\ pc' = [pc EXCEPT ![n] = "await_block"]
             /\ UNCHANGED <<chain, round>>
    BY <1>6 DEF TakeAnnouncement
  <2>2. m.content \in Nodes
    BY <2>1, ReceivableFacts DEF IInv, AnnounceInv
  <2>3. winner' \in [Nodes -> Nodes \cup {0}]
    BY <2>1, <2>2 DEF Types
  <2>4. <<n, Len(chain[n])>> \in Nodes \X Nat
    BY ChainType
  <2>5. /\ pc' \in [Nodes -> Phases] /\ round' \in [Nodes -> Nat]
        /\ chain' \in [Nodes -> Seq(Nodes \X Nat)]
    <3>1. CASE StoreBlock(n, <<n, Len(chain[n])>>)
      BY <2>4, <3>1, StoreBlockTypes
    <3>2. CASE pc' = [pc EXCEPT ![n] = "await_block"] /\ UNCHANGED <<chain, round>>
      BY <3>2 DEF Types, Phases
    <3>. QED
      BY <2>1, <3>1, <3>2
  <2>6. \A o \in msgs' : IsMsg(o)'
    <3>1. \A o \in msgs' : IsMsg(o)
      BY <2>1, BroadcastTypes DEF Types
    <3>. QED
      BY <3>1 DEF IsMsg
  <2>. QED
    BY <1>2, <1>6, <2>3, <2>5, <2>6 DEF TakeAnnouncement, Types, memberVars, comVars
<1>7. CASE ReceiveBlock(n)
  <2>1. PICK m \in Receivable(n, "block") :
          StoreBlock(n, m.content) /\ msgs' = msgs \ {m}
    BY <1>7 DEF ReceiveBlock
  <2>2. m.content \in Nodes \X Nat
    <3>1. m.content = <<m.from, Len(chain[m.to])>> /\ m.from \in Nodes /\ m.to = n
      BY <2>1, ReceivableFacts DEF IInv, BlockInv, IsMsg
    <3>. QED
      BY <3>1, ChainType
  <2>3. /\ pc' \in [Nodes -> Phases] /\ round' \in [Nodes -> Nat]
        /\ chain' \in [Nodes -> Seq(Nodes \X Nat)]
    BY <2>1, <2>2, StoreBlockTypes
  <2>. QED
    BY <1>2, <1>7, <2>1, <2>3 DEF ReceiveBlock, Types, memberVars, comVars, IsMsg
<1>. QED
  BY <1>3, <1>4, <1>5, <1>6, <1>7

LEMMA ComTypes ==
  ASSUME Types, NEW a \in Nodes, NEW b \in Nodes,
         Dial(a, b) \/ Accept(a, b) \/ ReadClosed(a, b)
  PROVE  Types'
<1>1. Latest' = Latest
  BY DEF Dial, Accept, ReadClosed, Latest, maVars
<1>. HIDE DEF Latest
<1>2. /\ connected' \in [Nodes -> SUBSET Nodes]
      /\ accepting' \subseteq Nodes \X Nodes
  <2>1. \/ connected' = connected
        \/ connected' = [connected EXCEPT ![a] = @ \cup {b}]
        \/ connected' = [connected EXCEPT ![b] = @ \cup {a}]
        \/ connected' = [connected EXCEPT ![a] = @ \ {b}]
    BY DEF Dial, Accept, ReadClosed
  <2>2. connected' \in [Nodes -> SUBSET Nodes]
    <3>1. connected \in [Nodes -> SUBSET Nodes]
      BY DEF Types
    <3>2. CASE connected' = [connected EXCEPT ![a] = @ \cup {b}]
      BY <3>1, <3>2
    <3>3. CASE connected' = [connected EXCEPT ![b] = @ \cup {a}]
      BY <3>1, <3>3
    <3>4. CASE connected' = [connected EXCEPT ![a] = @ \ {b}]
      BY <3>1, <3>4
    <3>. QED
      BY <2>1, <3>1, <3>2, <3>3, <3>4
  <2>3. accepting' \subseteq accepting \cup {<<a, b>>}
    BY DEF Dial, Accept, ReadClosed
  <2>. QED
    BY <2>2, <2>3 DEF Types
<1>3. UNCHANGED <<pc, round, winner, numbers, chain, conf, current_version,
                  proposed_version, ma_writer_list, peers, msgs>>
  BY DEF Dial, Accept, ReadClosed, roundVars, memberVars
<1>. QED
  BY <1>1, <1>2, <1>3 DEF Types, IsMsg

----------------------------------------------------------------------------
(* Steps that change nothing but what a node between two rounds knows.      *)

Same(x) ==
  /\ pc'[x] = pc[x] /\ round'[x] = round[x] /\ chain'[x] = chain[x]
  /\ numbers'[x] = numbers[x] /\ winner'[x] = winner[x]
  /\ conf'[x] = conf[x] /\ current_version'[x] = current_version[x]
  /\ proposed_version'[x] = proposed_version[x]
  /\ ma_writer_list'[x] = ma_writer_list[x]
  /\ ListsOf(x)' = ListsOf(x)

\* No other node changes, and n, if it is one, does not leave the top of its
\* loop further than to its first wait.
Calm(n) ==
  /\ moving' = moving
  /\ \A x \in Nodes : x # n => Same(x)
  /\ MsgsOf("reply")' = MsgsOf("reply")
  /\ MsgsOf("announce")' = MsgsOf("announce")
  /\ MsgsOf("block")' = MsgsOf("block")
  /\ n \in Nodes =>
       /\ pc[n] \notin Awaiting /\ pc[n] # "collect" /\ pc'[n] \notin Awaiting
       /\ Copied(chain'[n])
       /\ Len(chain'[n]) >= Len(chain[n])
       /\ pc'[n] = "collect" => numbers'[n] = {} /\ Follows(n, n)'
  /\ n \in Genesis =>
       /\ chain'[n] = chain[n]
       /\ NowRound(n)' = NowRound(n) /\ NowList(n)' = NowList(n)
       /\ ma_writer_list[n] = Moved => ma_writer_list'[n] = Moved
  /\ n \in Joiners /\ pc'[n] \in Counting /\ round'[n] # Len(chain'[n]) =>
       pc[n] \in Counting /\ round'[n] = round[n] /\ chain'[n] = chain[n]

LEMMA SameFacts ==
  ASSUME NEW x, Same(x)
  PROVE  /\ Coordinator(x)' = Coordinator(x)
         /\ GetVersion(x)' = GetVersion(x)
         /\ Due(x)' <=> Due(x)
         /\ NowRound(x)' = NowRound(x) /\ NowList(x)' = NowList(x)
         /\ NextRound(x)' = NextRound(x) /\ NextList(x)' = NextList(x)
         /\ RoundOf(x)' <=> RoundOf(x)
<1>1. Coordinator(x)' = Coordinator(x)
  BY DEF Same, Coordinator
<1>2. GetVersion(x)' = GetVersion(x)
  BY DEF Same, GetVersion
<1>3. Due(x)' <=> Due(x)
  BY DEF Same, Due
<1>4. Changes(x)' <=> Changes(x)
  BY <1>3 DEF Same, Changes
<1>5. NowRound(x)' = NowRound(x) /\ NowList(x)' = NowList(x)
  BY <1>4 DEF Same, NowRound, NowList
<1>6. NextRound(x)' = NextRound(x) /\ NextList(x)' = NextList(x)
  BY <1>3 DEF Same, NextRound, NextList
<1>7. RoundOf(x)' <=> RoundOf(x)
  BY <1>1, <1>3 DEF Same, RoundOf
<1>. QED
  BY <1>1, <1>2, <1>3, <1>5, <1>6, <1>7

LEMMA CalmConstants ==
  ASSUME NEW n, Calm(n)
  PROVE  Core' = Core /\ Moved' = Moved
  BY DEF Calm, Core, Moved

\* Nothing is decided.
LEMMA CalmDecided ==
  ASSUME IInv, Types', NEW n, Calm(n), NEW l \in Nat, NEW w, Decided(l, w)'
  PROVE  Decided(l, w)
<1>. Types /\ AnnounceInv
  BY DEF IInv
<1>1. \A x \in Nodes : Copied(chain'[x])
  BY OwnIsCopied DEF Calm, Same
<1>2. \A x \in Nodes : pc'[x] = "await_block" =>
        pc[x] = "await_block" /\ chain'[x] = chain[x] /\ winner'[x] = winner[x]
  BY DEF Calm, Same, Awaiting
<1>3. \A m \in MsgsOf("announce") : chain'[m.to] = chain[m.to]
  <2>1. ASSUME NEW m \in MsgsOf("announce") PROVE chain'[m.to] = chain[m.to]
    <3>1. pc[m.to] = "await_announce" /\ m.to \in Nodes
      BY MsgTypes DEF AnnounceInv, MsgsOf
    <3>. QED
      BY <3>1 DEF Calm, Same, Awaiting
  <2>. QED
    BY <2>1
<1>4. MsgsOf("announce")' = MsgsOf("announce")
  BY DEF Calm
<1>5. CASE \E x \in Nodes : Len(chain'[x]) > l /\ chain'[x][l + 1][1] = w
  <2>1. PICK x \in Nodes : Len(chain'[x]) > l /\ chain'[x][l + 1][1] = w
    BY <1>5
  <2>2. Len(chain'[x]) \in Nat
    BY DEF Types
  <2>3. l + 1 \in 1 .. Len(chain'[x])
    BY <2>1, <2>2
  <2>4. PICK y \in Nodes : /\ l + 1 \in 1 .. Len(chain[y])
                           /\ chain'[x][l + 1] = chain[y][l + 1]
    BY <1>1, <2>3 DEF Copied
  <2>5. Len(chain[y]) > l /\ chain[y][l + 1][1] = w
    BY <2>1, <2>4, ChainType
  <2>. QED
    BY <2>5 DEF Decided
<1>6. CASE \E x \in Nodes :
             pc'[x] = "await_block" /\ Len(chain'[x]) = l /\ winner'[x] = w
  <2>1. PICK x \in Nodes :
          pc'[x] = "await_block" /\ Len(chain'[x]) = l /\ winner'[x] = w
    BY <1>6
  <2>2. pc[x] = "await_block" /\ Len(chain[x]) = l /\ winner[x] = w
    BY <1>2, <2>1
  <2>. QED
    BY <2>2 DEF Decided
<1>7. CASE \E m \in MsgsOf("announce") : Len(chain'[m.to]) = l /\ m.content = w
  BY <1>3, <1>7 DEF Decided
<1>. QED
  BY <1>4, <1>5, <1>6, <1>7 DEF Decided

LEMMA CalmEngaged ==
  ASSUME IInv, Types', NEW n, Calm(n), NEW x \in Nodes
  PROVE  Engaged(x)' <=> Engaged(x)
<1>. Types /\ ConfigInv /\ VersionInv /\ ReplyInv
  BY DEF IInv
<1>1. MsgsOf("reply")' = MsgsOf("reply")
  BY DEF Calm
<1>2. CASE x = n
  BY <1>2 DEF Calm, Engaged, Awaiting
<1>3. CASE x # n
  <2>1. Same(x) /\ Coordinator(x)' = Coordinator(x) /\ Coordinator(x) \in Nodes
    BY <1>3, SameFacts, Lists DEF Calm
  <2>2. PICK c \in Nodes : c = Coordinator(x) /\ c = Coordinator(x)'
    BY <2>1
  <2>3. Engaged(x) <=> /\ pc[x] = "await_announce" /\ pc[c] = "collect"
                       /\ \/ x \in numbers[c]
                          \/ \E m \in MsgsOf("reply") : m.from = x /\ m.to = c
    BY <2>2 DEF Engaged
  <2>4. Engaged(x)' <=> /\ pc'[x] = "await_announce" /\ pc'[c] = "collect"
                        /\ \/ x \in numbers'[c]
                           \/ \E m \in MsgsOf("reply") : m.from = x /\ m.to = c
    BY <1>1, <2>2 DEF Engaged
  <2>5. CASE c = n
    <3>1. pc[c] # "collect" /\ (pc'[c] = "collect" => numbers'[c] = {})
      BY <2>5 DEF Calm
    <3>2. \A m \in MsgsOf("reply") : m.to # c
      BY <3>1 DEF ReplyInv
    <3>. QED
      BY <2>3, <2>4, <3>1, <3>2
  <2>6. CASE c # n
    <3>1. Same(c)
      BY <2>6 DEF Calm
    <3>. QED
      BY <2>1, <2>3, <2>4, <3>1 DEF Same
  <2>. QED
    BY <2>5, <2>6
<1>. QED
  BY <1>2, <1>3

LEMMA CalmBound ==
  ASSUME IInv, Types', NEW n, Calm(n), NEW x \in Nodes
  PROVE  Bound(x)' <=> Bound(x)
<1>1. Engaged(x)' <=> Engaged(x)
  BY CalmEngaged
<1>2. CASE x = n
  BY <1>2 DEF Calm, Bound
<1>3. CASE x # n
  BY <1>1, <1>3 DEF Calm, Same, Bound
<1>. QED
  BY <1>2, <1>3

LEMMA CalmUpToDate ==
  ASSUME IInv, Types', NEW n, Calm(n), NEW x \in Nodes, UpToDate(x),
         chain'[x] = chain[x]
  PROVE  UpToDate(x)'
<1>1. Bound(x)' <=> Bound(x)
  BY CalmBound
<1>2. ASSUME NEW l \in Nat, Taken(l)' PROVE Taken(l)
  BY <1>2, CalmDecided DEF Taken
<1>. QED
  BY <1>1, <1>2 DEF UpToDate

\* c asks what it asked before.
LEMMA CalmFollows ==
  ASSUME NEW n, Calm(n), NEW x \in Nodes, NEW c \in Nodes, x # n, c # n,
         Follows(x, c)
  PROVE  Follows(x, c)'
<1>1. Same(x) /\ (Due(x)' <=> Due(x)) /\ GetVersion(c)' = GetVersion(c)
  BY SameFacts DEF Calm
<1>. QED
  BY <1>1, CalmConstants DEF Follows, Same

LEMMA CalmUnannounced ==
  ASSUME NEW n, Calm(n), NEW x
  PROVE  Unannounced(x)' <=> Unannounced(x)
  BY DEF Calm, Unannounced

----------------------------------------------------------------------------
(* The messages of a round, and decisions, in such a step.                  *)

LEMMA CalmReplies ==
  ASSUME IInv, Types', NEW n, Calm(n)
  PROVE  ReplyInv' /\ NumbersInv'
<1>. Types /\ ConfigInv /\ VersionInv /\ ReplyInv /\ NumbersInv
  BY DEF IInv
<1>1. ASSUME NEW m \in MsgsOf("reply") PROVE
        /\ pc'[m.to] = "collect"
        /\ pc'[m.from] = "await_announce" /\ Coordinator(m.from)' = m.to
        /\ m.round = round'[m.from] /\ m.content = 0
        /\ m.from \in ma_writer_list'[m.to] \ {m.to}
        /\ m.from \notin numbers'[m.to]
        /\ Unannounced(m.from)'
        /\ Follows(m.from, m.to)'
        /\ round'[m.to] = 0 => m.round = 0
        /\ round'[m.to] = m.round => Len(chain'[m.from]) = Len(chain'[m.to])
  <2>1. m.from \in Nodes /\ m.to \in Nodes
    BY MsgTypes DEF MsgsOf
  <2>2. pc[m.to] = "collect" /\ pc[m.from] = "await_announce"
    BY DEF ReplyInv
  <2>3. m.to # n /\ m.from # n
    BY <2>1, <2>2 DEF Calm, Awaiting
  <2>4. Same(m.to) /\ Same(m.from)
    BY <2>1, <2>3 DEF Calm
  <2>5. Coordinator(m.from)' = Coordinator(m.from)
    BY <2>4, SameFacts
  <2>6. Unannounced(m.from)' /\ Follows(m.from, m.to)'
    BY <2>1, <2>3, CalmUnannounced, CalmFollows DEF ReplyInv
  <2>. QED
    BY <2>4, <2>5, <2>6 DEF ReplyInv, Same
<1>2. ReplyInv'
  <2>1. MsgsOf("reply")' = MsgsOf("reply")
    BY DEF Calm
  <2>. QED
    BY <1>1, <2>1 DEF ReplyInv
<1>3. ASSUME NEW c \in Nodes, pc'[c] = "collect"
      PROVE  /\ Follows(c, c)'
             /\ \A x \in numbers'[c] :
                  /\ x \in ma_writer_list'[c] \ {c}
                  /\ pc'[x] = "await_announce" /\ Coordinator(x)' = c
                  /\ round'[x] = round'[c]
                  /\ Len(chain'[x]) = Len(chain'[c])
                  /\ Unannounced(x)'
                  /\ Follows(x, c)'
  <2>1. CASE c = n
    BY <1>3, <2>1 DEF Calm
  <2>2. CASE c # n
    <3>1. Same(c)
      BY <2>2 DEF Calm
    <3>2. pc[c] = "collect" /\ numbers'[c] = numbers[c]
      BY <1>3, <3>1 DEF Same
    <3>3. Follows(c, c)'
      BY <2>2, <3>2, CalmFollows DEF NumbersInv
    <3>4. ASSUME NEW x \in numbers[c] PROVE
            /\ x \in ma_writer_list'[c] \ {c}
            /\ pc'[x] = "await_announce" /\ Coordinator(x)' = c
            /\ round'[x] = round'[c]
            /\ Len(chain'[x]) = Len(chain'[c])
            /\ Unannounced(x)'
            /\ Follows(x, c)'
      <4>1. /\ x \in ma_writer_list[c] \ {c}
            /\ pc[x] = "await_announce" /\ Coordinator(x) = c
            /\ round[x] = round[c]
            /\ Len(chain[x]) = Len(chain[c])
            /\ Unannounced(x)
            /\ Follows(x, c)
        BY <3>2 DEF NumbersInv
      <4>2. x \in Nodes
        BY DEF Types
      <4>3. x # n
        BY <4>1, <4>2 DEF Calm, Awaiting
      <4>4. Same(x) /\ Coordinator(x)' = Coordinator(x)
        BY <4>2, <4>3, SameFacts DEF Calm
      <4>5. Unannounced(x)' /\ Follows(x, c)'
        BY <2>2, <4>1, <4>2, <4>3, CalmUnannounced, CalmFollows
      <4>. QED
        BY <3>1, <4>1, <4>4, <4>5 DEF Same
    <3>. QED
      BY <3>2, <3>3, <3>4
  <2>. QED
    BY <2>1, <2>2
<1>4. NumbersInv'
  BY <1>3 DEF NumbersInv
<1>. QED
  BY <1>2, <1>4

\* A block stored above x was decided at its height.
LEMMA StoredIsTaken ==
  ASSUME Types, NEW x \in Nodes, NEW l \in Nat, Len(chain[x]) > l
  PROVE  /\ chain[x][l + 1] \in Nodes \X Nat /\ chain[x][l + 1][1] \in Nodes
         /\ Decided(l, chain[x][l + 1][1])
         /\ Taken(l)
<1>1. chain[x] \in Seq(Nodes \X Nat) /\ l + 1 \in 1 .. Len(chain[x])
  BY ChainType
<1>2. chain[x][l + 1] \in Nodes \X Nat
  BY <1>1
<1>3. chain[x][l + 1][1] \in Nodes
  BY <1>2
<1>. QED
  BY <1>2, <1>3 DEF Decided, Taken

\* What was decided stays so.
LEMMA CalmDecides ==
  ASSUME IInv, Types', NEW n, Calm(n), NEW l \in Nat, NEW w \in Nodes,
         Decided(l, w)
  PROVE  Decided(l, w)'
<1>. Types /\ AnnounceInv /\ Agreement
  BY DEF IInv
<1>1. CASE \E x \in Nodes : Len(chain[x]) > l /\ chain[x][l + 1][1] = w
  <2>1. PICK x \in Nodes : Len(chain[x]) > l /\ chain[x][l + 1][1] = w
    BY <1>1
  <2>2. CASE x # n
    BY <2>1, <2>2 DEF Calm, Same, Decided
  <2>3. CASE x = n
    <3>1. n \in Nodes /\ Copied(chain'[n]) /\ Len(chain'[n]) >= Len(chain[n])
      BY <2>3 DEF Calm
    <3>2. Len(chain'[n]) \in Nat /\ Len(chain[n]) \in Nat
      <4>1. chain'[n] \in Seq(Nodes \X Nat)
        BY <3>1 DEF Types
      <4>. QED
        BY <3>1, <4>1, ChainType
    <3>3. Len(chain'[n]) > l /\ l + 1 \in 1 .. Len(chain'[n])
      BY <2>1, <2>3, <3>1, <3>2
    <3>4. PICK y \in Nodes : /\ l + 1 \in 1 .. Len(chain[y])
                             /\ chain'[n][l + 1] = chain[y][l + 1]
      BY <3>1, <3>3 DEF Copied
    <3>5. Len(chain[y]) > l
      BY <3>4, ChainType
    <3>6. chain[y][l + 1][1] \in Nodes /\ Decided(l, chain[y][l + 1][1])
      BY <3>5, StoredIsTaken
    <3>7. chain[y][l + 1][1] = w
      BY <3>6 DEF Agreement
    <3>. QED
      BY <3>1, <3>3, <3>4, <3>7 DEF Decided
  <2>. QED
    BY <2>2, <2>3
<1>2. CASE \E x \in Nodes :
             pc[x] = "await_block" /\ Len(chain[x]) = l /\ winner[x] = w
  <2>1. PICK x \in Nodes :
          pc[x] = "await_block" /\ Len(chain[x]) = l /\ winner[x] = w
    BY <1>2
  <2>2. Same(x)
    BY <2>1 DEF Calm, Awaiting
  <2>. QED
    BY <2>1, <2>2 DEF Same, Decided
<1>3. CASE \E m \in MsgsOf("announce") : Len(chain[m.to]) = l /\ m.content = w
  <2>1. PICK m \in MsgsOf("announce") : Len(chain[m.to]) = l /\ m.content = w
    BY <1>3
  <2>2. pc[m.to] = "await_announce" /\ m.to \in Nodes
    BY MsgTypes DEF AnnounceInv, MsgsOf
  <2>3. chain'[m.to] = chain[m.to]
    BY <2>2 DEF Calm, Same, Awaiting
  <2>4. m \in MsgsOf("announce")'
    BY <2>1 DEF Calm
  <2>. QED
    BY <2>1, <2>3, <2>4 DEF Decided
<1>. QED
  BY <1>1, <1>2, <1>3 DEF Decided

LEMMA CalmAnnounces ==
  ASSUME IInv, Types', NEW n, Calm(n)
  PROVE  AnnounceInv' /\ BlockInv'
<1>. Types /\ ConfigInv /\ VersionInv /\ AnnounceInv /\ BlockInv
  BY DEF IInv
<1>1. ASSUME NEW m \in MsgsOf("announce") PROVE
        /\ pc'[m.to] = "await_announce" /\ Coordinator(m.to)' = m.from
        /\ m.round = round'[m.to]
        /\ m.content \in Nodes
        /\ ~Engaged(m.to)'
        /\ m.content = m.to =>
             \A x \in ma_writer_list'[m.to] \ {m.to} :
               /\ pc'[x] \in Awaiting /\ ~Engaged(x)'
               /\ round'[x] = round'[m.to]
               /\ Len(chain'[x]) = Len(chain'[m.to])
  <2>1. /\ pc[m.to] = "await_announce" /\ Coordinator(m.to) = m.from
        /\ m.round = round[m.to]
        /\ m.content \in Nodes
        /\ ~Engaged(m.to)
        /\ m.content = m.to =>
             \A x \in ma_writer_list[m.to] \ {m.to} :
               /\ pc[x] \in Awaiting /\ ~Engaged(x)
               /\ round[x] = round[m.to]
               /\ Len(chain[x]) = Len(chain[m.to])
    BY DEF AnnounceInv
  <2>2. m.to \in Nodes
    BY MsgTypes DEF MsgsOf
  <2>3. PICK t \in Nodes : t = m.to
    BY <2>2
  <2>4. Same(t) /\ Coordinator(t)' = Coordinator(t) /\ ~Engaged(t)'
    BY <2>1, <2>3, SameFacts, CalmEngaged DEF Calm, Awaiting
  <2>5. ASSUME m.content = t, NEW x \in ma_writer_list[t] \ {t} PROVE
          /\ pc'[x] \in Awaiting /\ ~Engaged(x)'
          /\ round'[x] = round'[t]
          /\ Len(chain'[x]) = Len(chain'[t])
    <3>1. /\ pc[x] \in Awaiting /\ ~Engaged(x) /\ round[x] = round[t]
          /\ Len(chain[x]) = Len(chain[t])
      BY <2>1, <2>3, <2>5
    <3>2. x \in Nodes
      BY Lists
    <3>3. Same(x) /\ ~Engaged(x)'
      BY <3>1, <3>2, CalmEngaged DEF Calm
    <3>. QED
      BY <2>4, <3>1, <3>3 DEF Same
  <2>. QED
    BY <2>1, <2>3, <2>4, <2>5 DEF Same
<1>2. AnnounceInv'
  <2>1. MsgsOf("announce")' = MsgsOf("announce")
    BY DEF Calm
  <2>. QED
    BY <1>1, <2>1 DEF AnnounceInv
<1>3. ASSUME NEW m \in MsgsOf("block") PROVE
        /\ pc'[m.to] \in Awaiting
        /\ m.round = round'[m.to]
        /\ m.from # m.to
        /\ m.content = <<m.from, Len(chain'[m.to])>>
        /\ Decided(Len(chain[m.to]), m.from)'
        /\ chain'[m.to] = chain[m.to]
        /\ Len(chain'[m.from]) > Len(chain'[m.to])
  <2>1. /\ pc[m.to] \in Awaiting
        /\ m.round = round[m.to]
        /\ m.from # m.to
        /\ m.content = <<m.from, Len(chain[m.to])>>
        /\ Decided(Len(chain[m.to]), m.from)
        /\ Len(chain[m.from]) > Len(chain[m.to])
    BY DEF BlockInv
  <2>2. m.to \in Nodes /\ m.from \in Nodes
    BY MsgTypes DEF MsgsOf
  <2>3. Same(m.to)
    BY <2>1, <2>2 DEF Calm
  <2>4. PICK l \in Nat : l = Len(chain[m.to])
    BY <2>2, ChainType
  <2>5. Decided(l, m.from)'
    BY <2>1, <2>2, <2>4, CalmDecides
  <2>6. Len(chain'[m.from]) >= Len(chain[m.from])
    <3>1. Len(chain[m.from]) \in Nat
      BY <2>2, ChainType
    <3>. QED
      BY <2>2, <3>1 DEF Calm, Same
  <2>7. Len(chain[m.from]) \in Nat /\ Len(chain'[m.from]) \in Nat
    <3>1. Len(chain[m.from]) \in Nat
      BY <2>2, ChainType
    <3>2. chain' \in [Nodes -> Seq(Nodes \X Nat)]
      BY DEF Types
    <3>. QED
      BY <2>2, <3>1, <3>2
  <2>. QED
    BY <2>1, <2>3, <2>4, <2>5, <2>6, <2>7 DEF Same
<1>4. BlockInv'
  <2>1. MsgsOf("block")' = MsgsOf("block")
    BY DEF Calm
  <2>. QED
    BY <1>3, <2>1 DEF BlockInv, Decided
<1>. QED
  BY <1>2, <1>4

LEMMA CalmDecisions ==
  ASSUME IInv, Types', NEW n, Calm(n)
  PROVE  ChainInv' /\ Agreement' /\ CoreInv' /\ JoinedInv' /\ LeftInv'
<1>. Types /\ ConfigInv /\ AnnounceInv /\ ChainInv /\ Agreement /\ CoreInv
     /\ JoinedInv /\ LeftInv
  BY DEF IInv
<1>1. \A x \in Nodes : Copied(chain'[x])
  BY OwnIsCopied DEF Calm, Same
<1>2. \A x \in Genesis : chain'[x] = chain[x]
  BY Ids DEF Calm, Same
<1>3. Core' = Core /\ Moved' = Moved /\ moving' = moving
  BY CalmConstants DEF Calm
<1>4. ASSUME NEW l \in Nat, Taken(l)' PROVE Taken(l)
  BY <1>4, CalmDecided DEF Taken
<1>5. ChainInv'
  <2>1. ASSUME NEW x \in Nodes, NEW i \in 1 .. Len(chain'[x])
        PROVE  chain'[x][i][2] = i - 1
    <3>1. PICK y \in Nodes : i \in 1 .. Len(chain[y]) /\ chain'[x][i] = chain[y][i]
      BY <1>1 DEF Copied
    <3>. QED
      BY <3>1 DEF ChainInv
  <2>. QED
    BY <2>1 DEF ChainInv
<1>6. Agreement'
  BY CalmDecided DEF Agreement
<1>7. CoreInv'
  <2>1. Core \subseteq Genesis /\ Core \subseteq Nodes
    BY CoreNotEmpty
  <2>2. ASSUME NEW x \in Core PROVE UpToDate(x)'
    BY <1>2, <2>1, CalmUpToDate DEF CoreInv
  <2>. QED
    BY <1>3, <2>2 DEF CoreInv
<1>8. JoinedInv'
  <2>1. ASSUME NEW h \in Joiners, pc'[h] \in Counting,
               \/ round'[h] # Len(chain'[h])
               \/ pc'[h] = "await_block"
               \/ ~Unannounced(h)'
        PROVE  UpToDate(h)'
    <3>1. h \in Nodes
      BY Ids
    <3>2. Unannounced(h)' <=> Unannounced(h)
      BY CalmUnannounced
    <3>3. CASE h # n
      <4>1. Same(h)
        BY <3>1, <3>3 DEF Calm
      <4>2. UpToDate(h)
        BY <2>1, <3>2, <4>1 DEF Same, JoinedInv
      <4>. QED
        BY <3>1, <4>1, <4>2, CalmUpToDate DEF Same
    <3>4. CASE h = n
      <4>1. pc[h] \notin Awaiting /\ pc'[h] \notin Awaiting
        BY <3>1, <3>4 DEF Calm
      <4>2. Unannounced(h)
        BY <4>1 DEF AnnounceInv, Unannounced, Awaiting
      <4>3. round'[h] # Len(chain'[h])
        BY <2>1, <3>2, <4>1, <4>2 DEF Awaiting
      <4>4. pc[h] \in Counting /\ round'[h] = round[h] /\ chain'[h] = chain[h]
        BY <2>1, <3>4, <4>3 DEF Calm
      <4>5. UpToDate(h)
        BY <4>3, <4>4 DEF JoinedInv
      <4>. QED
        BY <3>1, <4>4, <4>5, CalmUpToDate
    <3>. QED
      BY <3>3, <3>4
  <2>. QED
    BY <2>1 DEF JoinedInv
<1>9. LeftInv'
  <2>1. ASSUME NEW h \in moving \cap Genesis, NEW l \in Nat, Taken(l)',
               l >= Len(chain'[h]),
               l = Len(chain'[h]) => pc'[h] \notin Awaiting
        PROVE  \A x \in Core : ma_writer_list'[x] = Moved
    <3>1. l = Len(chain[h]) => pc[h] \notin Awaiting
      <4>1. pc'[h] \notin Awaiting => pc[h] \notin Awaiting
        BY Ids DEF Calm, Same
      <4>. QED
        BY <1>2, <2>1, <4>1
    <3>2. \A x \in Core : ma_writer_list[x] = Moved
      BY <1>2, <1>4, <2>1, <3>1 DEF LeftInv
    <3>3. Core \subseteq Genesis /\ Core \subseteq Nodes
      BY CoreNotEmpty
    <3>. QED
      BY <3>2, <3>3 DEF Calm, Same
  <2>. QED
    BY <1>3, <2>1 DEF LeftInv
<1>. QED
  BY <1>5, <1>6, <1>7, <1>8, <1>9

LEMMA CalmLists ==
  ASSUME IInv, Types', NEW n, Calm(n)
  PROVE  SameListInv'
<1>. Types /\ ConfigInv /\ CoreInv /\ SameListInv
  BY DEF IInv
<1>1. Core \subseteq Genesis /\ Core \subseteq Nodes /\ Core' = Core
  BY CoreNotEmpty, CalmConstants
<1>2. ASSUME NEW x \in Core
      PROVE  /\ chain'[x] = chain[x] /\ Len(chain[x]) \in Nat
             /\ NowRound(x)' = NowRound(x) /\ NowList(x)' = NowList(x)
  <2>1. CASE x = n
    BY <1>1, <2>1, ChainType DEF Calm
  <2>2. CASE x # n
    BY <1>1, <2>2, SameFacts, ChainType DEF Calm, Same
  <2>. QED
    BY <2>1, <2>2
<1>3. ASSUME NEW x \in Core, Taken(Len(chain[x]))
      PROVE  NextRound(x)' = NextRound(x) /\ NextList(x)' = NextList(x)
  <2>1. Len(chain[x]) \in Nat
    BY <1>2
  <2>2. pc[x] \in Awaiting
    BY <1>3, <2>1 DEF CoreInv, UpToDate, Bound
  <2>3. Same(x)
    BY <1>1, <2>2 DEF Calm
  <2>. QED
    BY <2>3, SameFacts
<1>4. ASSUME NEW a \in Core, NEW b \in Core PROVE
    /\ Len(chain'[a]) = Len(chain'[b]) /\ NowRound(a)' = NowRound(b)'
         => NowList(a)' = NowList(b)'
    /\ Len(chain'[b]) = Len(chain'[a]) + 1 /\ NextRound(a)' = NowRound(b)'
         => NextList(a)' = NowList(b)'
    /\ /\ Len(chain'[a]) = Len(chain'[b]) /\ NextRound(a)' = NextRound(b)'
       /\ Taken(Len(chain[a]))'
       => NextList(a)' = NextList(b)'
  <2>1. Len(chain'[a]) = Len(chain'[b]) /\ NowRound(a)' = NowRound(b)'
         => NowList(a)' = NowList(b)'
    BY <1>2 DEF SameListInv
  <2>2. ASSUME Len(chain'[b]) = Len(chain'[a]) + 1, NextRound(a)' = NowRound(b)'
        PROVE  NextList(a)' = NowList(b)'
    <3>1. Len(chain[b]) = Len(chain[a]) + 1
      BY <1>2, <2>2
    <3>2. Taken(Len(chain[a]))
      BY <1>1, <1>2, <3>1, StoredIsTaken
    <3>3. NextRound(a)' = NextRound(a) /\ NextList(a)' = NextList(a)
      BY <1>3, <3>2
    <3>. QED
      BY <1>2, <2>2, <3>1, <3>3 DEF SameListInv
  <2>3. ASSUME Len(chain'[a]) = Len(chain'[b]), NextRound(a)' = NextRound(b)',
               Taken(Len(chain[a]))'
        PROVE  NextList(a)' = NextList(b)'
    <3>1. PICK l \in Nat : l = Len(chain[a]) /\ l = Len(chain[b])
                           /\ l = Len(chain'[a]) /\ Taken(l)'
      BY <1>2, <2>3
    <3>2. Taken(l)
      BY <3>1, CalmDecided DEF Taken
    <3>3. /\ NextRound(a)' = NextRound(a) /\ NextList(a)' = NextList(a)
          /\ NextRound(b)' = NextRound(b) /\ NextList(b)' = NextList(b)
      BY <1>3, <3>1, <3>2
    <3>. QED
      BY <2>3, <3>1, <3>2, <3>3 DEF SameListInv
  <2>. QED
    BY <2>1, <2>2, <2>3
<1>. QED
  BY <1>1, <1>4 DEF SameListInv

\* Nothing is asked.
LEMMA CalmRequests ==
  ASSUME IInv, Types', NEW n, Calm(n), msgs' = msgs
  PROVE  RequestInv'
<1>. Types /\ RequestInv
  BY DEF IInv
<1>1. ASSUME NEW m \in MsgsOf("request") PROVE
        /\ pc'[m.from] = "collect"
        /\ m.round = round'[m.from]
        /\ m.content = GetVersion(m.from)'
        /\ m.to \in ma_writer_list'[m.from] \ {m.from}
        /\ m.to \notin numbers'[m.from]
        /\ \A o \in MsgsOf("reply") : ~(o.from = m.to /\ o.to = m.from)
  <2>1. m.from \in Nodes /\ pc[m.from] = "collect"
    BY MsgTypes DEF MsgsOf, RequestInv
  <2>2. Same(m.from) /\ GetVersion(m.from)' = GetVersion(m.from)
    BY <2>1, SameFacts DEF Calm
  <2>. QED
    BY <2>2 DEF RequestInv, Same
<1>2. /\ MsgsOf("request")' = MsgsOf("request")
      /\ MsgsOf("reply")' = MsgsOf("reply")
  BY DEF MsgsOf
<1>. QED
  BY <1>1, <1>2 DEF RequestInv

LEMMA CalmRounds ==
  ASSUME RoundInv, NEW n, Calm(n), n \in Nodes => RoundOf(n)'
  PROVE  RoundInv'
BY SameFacts DEF RoundInv, Calm

LEMMA CalmRest ==
  ASSUME IInv, Types', NEW n, Calm(n)
  PROVE  /\ ReplyInv' /\ NumbersInv' /\ AnnounceInv' /\ BlockInv'
         /\ ChainInv' /\ Agreement' /\ CoreInv' /\ JoinedInv' /\ LeftInv'
         /\ SameListInv'
BY CalmReplies, CalmAnnounces, CalmDecisions, CalmLists

----------------------------------------------------------------------------
(* The steps that leave rounds alone, one by one.                           *)

LEMMA CalmStep ==
  ASSUME IInv, Types', ConfigInv', VersionInv', PeersInv', RequestInv',
         NEW n, Calm(n), n \in Nodes => RoundOf(n)'
  PROVE  IInv'
<1>. RoundInv
  BY DEF IInv
<1>. QED
  BY CalmRest, CalmRounds DEF IInv

LEMMA SameConfigs ==
  ASSUME ConfigInv, NEW n \in Nodes, configs' = configs, moving' = moving,
         \A x \in Nodes : x # n => pc'[x] = pc[x],
         pc[n] \notin {"off", "fetch"}, pc'[n] \notin {"off", "fetch"}
  PROVE  ConfigInv'
<1>1. Latest' = Latest /\ Moved' = Moved
  BY DEF Latest, Moved, Core
<1>. QED
  BY <1>1, Ids DEF ConfigInv

LEMMA SameVersions ==
  ASSUME VersionInv, NEW n, Calm(n),
         n \in Genesis => VersionOf(n)', n \in Joiners => ListOf(n)'
  PROVE  VersionInv'
<1>1. Moved' = Moved
  BY CalmConstants
<1>2. ASSUME NEW x \in Genesis, x # n PROVE VersionOf(x)'
  <2>1. Same(x) /\ VersionOf(x)
    BY <1>2, Ids DEF Calm, VersionInv
  <2>2. Due(x)' <=> Due(x)
    BY <2>1, SameFacts
  <2>. QED
    BY <1>1, <2>1, <2>2 DEF Same, VersionOf
<1>3. ASSUME NEW x \in Joiners, x # n PROVE ListOf(x)'
  <2>1. Same(x) /\ ListOf(x)
    BY <1>3, Ids DEF Calm, VersionInv
  <2>. QED
    BY <1>1, <2>1 DEF Same, ListOf
<1>. QED
  BY <1>2, <1>3 DEF VersionInv

LEMMA SamePeers ==
  ASSUME PeersInv, NEW n, Calm(n), n \in Nodes,
         UNCHANGED <<peers, connected, accepting, ma_writer_list>>,
         pc[n] \in {"off", "fetch", "join"} => pc'[n] \in {"off", "fetch", "join"}
  PROVE  PeersInv'
<1>1. Moved' = Moved
  BY CalmConstants
<1>2. \A h \in Joiners : pc[h] \in {"off", "fetch", "join"} =>
                           pc'[h] \in {"off", "fetch", "join"}
  BY Ids DEF Calm, Same
<1>. QED
  BY <1>1, <1>2 DEF PeersInv

LEMMA SameListsOf ==
  ASSUME configs' = configs, NEW x, conf'[x] = conf[x]
  PROVE  ListsOf(x)' = ListsOf(x)
BY DEF ListsOf

LEMMA AppendToOne ==
  ASSUME NEW a, NEW b
  PROVE  Append(<<a>>, b) = <<a, b>>
<1>. DEFINE S == {a, b}
            s == Append(<<a>>, b)
            t == <<a, b>>
<1>1. <<a>> \in Seq(S) /\ t \in Seq(S) /\ s \in Seq(S)
  OBVIOUS
<1>2. Len(s) = 2 /\ s[1] = a /\ s[2] = b
  BY <1>1
<1>3. Len(t) = 2 /\ t[1] = a /\ t[2] = b
  OBVIOUS
<1>4. \A i \in 1 .. 2 : s[i] = t[i]
  BY <1>2, <1>3
<1>. HIDE DEF s, t, S
<1>5. s = t
  BY <1>1, <1>2, <1>3, <1>4, SeqEqual
<1>. QED
  BY <1>5 DEF s, t

\* A node is started.
LEMMA StartNodeKeeps ==
  ASSUME IInv, NEW n \in Nodes, StartNode(n)
  PROVE  IInv'
<1>. Types /\ ConfigInv /\ VersionInv /\ PeersInv
  BY DEF IInv
<1>1. n \in Joiners /\ n \in moving /\ n \notin Genesis /\ pc[n] = "off"
  BY MembershipAssumption DEF StartNode, ConfigInv, Nodes
<1>2. Latest = 1 /\ configs = <<Genesis>>
  <2>1. Latest # 2
    BY <1>1 DEF ConfigInv
  <2>. QED
    BY <2>1 DEF ConfigInv, Latest
<1>3. /\ moving' = moving /\ configs' = configs
      /\ msgs' = msgs
      /\ pc'[n] = "fetch" /\ conf'[n] = 1
      /\ ma_writer_list'[n] = Genesis /\ peers'[n] = Genesis
      /\ connected' = connected /\ accepting' = accepting
  BY <1>2 DEF StartNode, maVars, Types
<1>13. /\ Copied(chain'[n]) /\ Len(chain'[n]) >= Len(chain[n])
       /\ \A x \in Nodes : x # n => chain'[x] = chain[x]
  BY StartFetches, FetchTypes
<1>4. ASSUME NEW x \in Nodes, x # n
      PROVE  /\ Same(x)
             /\ peers'[x] = peers[x]
  BY <1>3, <1>4, <1>13, SameListsOf DEF StartNode, Same, roundVars, Types
<1>5. Latest' = Latest /\ Moved' = Moved
  BY <1>3 DEF Latest, Moved, Core
<1>6. ConfigInv'
  BY <1>1, <1>2, <1>3, <1>4, <1>5, Ids DEF ConfigInv, Same
<1>7. Types'
  BY <1>6, JoinTypes
<1>8. Calm(n)
  BY <1>1, <1>3, <1>4, <1>13 DEF Calm, MsgsOf, Awaiting, Counting
<1>9. VersionInv'
  <2>1. ListOf(n)'
    BY <1>3 DEF ListOf
  <2>. QED
    BY <1>1, <1>8, <2>1, SameVersions
<1>10. PeersInv'
  <2>1. ASSUME NEW x \in Nodes
        PROVE  /\ peers'[x] \subseteq ma_writer_list'[x] \ {x}
               /\ connected'[x] \subseteq peers'[x]
    <3>1. CASE x = n
      <4>1. ma_writer_list[n] = Genesis
        BY <1>1 DEF VersionInv, ListOf
      <4>. QED
        BY <1>1, <1>3, <3>1, <4>1 DEF PeersInv
    <3>2. CASE x # n
      BY <1>3, <1>4, <3>2 DEF PeersInv, Same
    <3>. QED
      BY <3>1, <3>2
  <2>2. \A x \in Genesis : ma_writer_list'[x] = ma_writer_list[x]
    BY <1>1, <1>4, Ids DEF Same
  <2>3. \A h \in Joiners : pc'[h] = pc[h] \/ pc'[h] = "fetch"
    BY <1>3, <1>4, Ids DEF Same
  <2>. QED
    BY <1>3, <1>5, <2>1, <2>2, <2>3 DEF PeersInv
<1>11. RoundOf(n)'
  BY <1>1, <1>3 DEF RoundOf, Counting
<1>12. RequestInv'
  BY <1>3, <1>7, <1>8, CalmRequests
<1>. QED
  BY <1>6, <1>7, <1>8, <1>9, <1>10, <1>11, <1>12, CalmStep

\* The MA appends the configuration with the new node.
LEMMA ActivateKeeps ==
  ASSUME IInv, NEW n \in Nodes, Activate(n)
  PROVE  IInv'
<1>. Types /\ ConfigInv /\ VersionInv /\ PeersInv
  BY DEF IInv
<1>1. n \in Joiners /\ n \in moving /\ n \notin Genesis /\ pc[n] = "fetch"
  BY MembershipAssumption DEF Activate, ConfigInv, Nodes
<1>2. Latest = 1 /\ configs = <<Genesis>>
  <2>1. Latest # 2
    BY <1>1 DEF ConfigInv
  <2>. QED
    BY <2>1 DEF ConfigInv, Latest
<1>3. Moved = Genesis \cup {n}
  BY <1>1, OneMover
<1>4. /\ moving' = moving /\ configs' = <<Genesis, Moved>>
      /\ msgs' = msgs
      /\ pc'[n] = "join" /\ conf'[n] = 2
      /\ ma_writer_list'[n] = Moved
      /\ UNCHANGED <<peers, connected, accepting>>
  <2>1. configs' = Append(configs, Moved)
    BY <1>2, <1>3 DEF Activate
  <2>2. configs' = <<Genesis, Moved>>
    BY <1>2, <2>1, AppendToOne
  <2>3. ma_writer_list'[n] = Moved /\ conf'[n] = 2 /\ pc'[n] = "join"
    BY <1>2, <1>3 DEF Activate, Types
  <2>. QED
    BY <2>2, <2>3 DEF Activate, comVars
<1>5. Moved' = Moved /\ Latest' = 2
  BY <1>4 DEF Moved, Core, Latest
<1>14. /\ Copied(chain'[n]) /\ Len(chain'[n]) >= Len(chain[n])
       /\ \A x \in Nodes : x # n => chain'[x] = chain[x]
  <2>1. InSync(n, ma_writer_list[n]) \/ Unanswered
    BY DEF Activate
  <2>2. ma_writer_list[n] \in SUBSET Nodes
    BY DEF Types
  <2>. QED
    BY <2>1, <2>2, CallFetches, FetchTypes
<1>6. ASSUME NEW x \in Nodes, x # n PROVE Same(x)
  <2>1. conf[x] = 1
    BY <1>2 DEF Types
  <2>2. ListsOf(x)' = ListsOf(x)
    BY <1>2, <1>4, <1>6, <2>1 DEF Activate, ListsOf, Types
  <2>. QED
    BY <1>6, <1>14, <2>2 DEF Activate, Same, roundVars, Types
<1>7. ConfigInv'
  <2>1. ASSUME NEW h \in Joiners
        PROVE  /\ pc'[h] # "off" => h \in moving
               /\ pc'[h] \notin {"off", "fetch"} <=> h \in moving /\ Latest' = 2
    <3>1. CASE h = n
      BY <1>1, <1>4, <1>5, <3>1
    <3>2. CASE h # n
      BY <1>1, <1>6, <3>2, Ids DEF Same, ConfigInv
    <3>. QED
      BY <3>1, <3>2
  <2>2. \A x \in Genesis : pc'[x] = pc[x]
    BY <1>1, <1>6, Ids DEF Same
  <2>. QED
    BY <1>4, <1>5, <2>1, <2>2 DEF ConfigInv
<1>8. Types'
  BY <1>7, JoinTypes
<1>9. Calm(n)
  BY <1>1, <1>4, <1>6, <1>14 DEF Calm, MsgsOf, Awaiting, Counting
<1>10. VersionInv'
  <2>1. ListOf(n)'
    BY <1>4, <1>5 DEF ListOf
  <2>. QED
    BY <1>1, <1>9, <2>1, SameVersions
<1>11. PeersInv'
  <2>1. ASSUME NEW x \in Nodes
        PROVE  /\ peers'[x] \subseteq ma_writer_list'[x] \ {x}
               /\ connected'[x] \subseteq peers'[x]
    <3>1. CASE x = n
      <4>1. ma_writer_list[n] = Genesis
        BY <1>1 DEF VersionInv, ListOf
      <4>. QED
        BY <1>3, <1>4, <3>1, <4>1 DEF PeersInv
    <3>2. CASE x # n
      BY <1>4, <1>6, <3>2 DEF PeersInv, Same
    <3>. QED
      BY <3>1, <3>2
  <2>2. \A x \in Genesis : ma_writer_list'[x] = ma_writer_list[x]
    BY <1>1, <1>6, Ids DEF Same
  <2>3. \A h \in Joiners : pc'[h] = pc[h] \/ pc'[h] = "join"
    BY <1>4, <1>6, Ids DEF Same
  <2>. QED
    BY <1>4, <1>5, <2>1, <2>2, <2>3 DEF PeersInv
<1>12. RoundOf(n)'
  BY <1>1, <1>4 DEF RoundOf, Counting
<1>13. RequestInv'
  BY <1>4, <1>8, <1>9, CalmRequests
<1>. QED
  BY <1>7, <1>8, <1>9, <1>10, <1>11, <1>12, <1>13, CalmStep

\* A call of download_db before that, which an unreadable block ends.
LEMMA FetchAbandonedKeeps ==
  ASSUME IInv, NEW n \in Nodes, FetchAbandoned(n)
  PROVE  IInv'
<1>. Types /\ ConfigInv /\ VersionInv /\ PeersInv
  BY DEF IInv
<1>1. n \in Joiners /\ n \notin Genesis /\ pc[n] = "fetch"
  BY DEF FetchAbandoned, ConfigInv, Nodes
<1>2. UNCHANGED <<moving, configs, pc, round, numbers, winner, conf,
                  current_version, proposed_version, ma_writer_list, peers,
                  connected, accepting, msgs>>
  BY DEF FetchAbandoned, maVars, roundVars, memberVars, comVars
<1>3. /\ Copied(chain'[n]) /\ Len(chain'[n]) >= Len(chain[n])
      /\ \A x \in Nodes : x # n => chain'[x] = chain[x]
  <2>1. Abandoned(n, ma_writer_list[n]) /\ ma_writer_list[n] \in SUBSET Nodes
    BY DEF FetchAbandoned, Types
  <2>. QED
    BY <2>1, CallFetches, FetchTypes
<1>4. ASSUME NEW x \in Nodes, x # n PROVE Same(x)
  BY <1>2, <1>3, <1>4, SameListsOf DEF Same
<1>5. Calm(n)
  BY <1>1, <1>2, <1>3, <1>4 DEF Calm, MsgsOf, Awaiting, Counting
<1>6. ConfigInv'
  BY <1>2 DEF ConfigInv, Latest, Moved, Core
<1>7. Types'
  BY <1>6, JoinTypes
<1>8. VersionInv'
  <2>1. ListOf(n)'
    BY <1>1, <1>2 DEF VersionInv, ListOf
  <2>. QED
    BY <1>1, <1>5, <2>1, SameVersions
<1>9. PeersInv'
  BY <1>2, <1>5, SamePeers
<1>10. RoundOf(n)'
  BY <1>1, <1>2 DEF RoundOf, Counting
<1>11. RequestInv'
  BY <1>2, <1>5, <1>7, CalmRequests
<1>. QED
  BY <1>5, <1>6, <1>7, <1>8, <1>9, <1>10, <1>11, CalmStep

\* The MA appends the configuration without a node.
LEMMA DeactivateKeeps ==
  ASSUME IInv, NEW n \in Nodes, Deactivate(n)
  PROVE  IInv'
<1>. Types /\ ConfigInv /\ VersionInv /\ PeersInv
  BY DEF IInv
<1>1. n \in moving /\ n \in Genesis /\ n \in configs[Latest]
  BY DEF Deactivate
<1>2. Moved = Core /\ n \notin Core
  BY <1>1, OneMover
<1>3. Moved = Genesis \ {n}
  BY <1>1, <1>2, OneMover DEF Core
<1>4. Latest = 1 /\ configs = <<Genesis>>
  BY <1>1, <1>2 DEF ConfigInv, Latest
<1>5. /\ moving' = moving /\ configs' = <<Genesis, Moved>>
      /\ UNCHANGED <<pc, round, numbers, winner, chain, conf, current_version,
                     proposed_version, ma_writer_list, peers, connected,
                     accepting, msgs>>
  <2>1. configs' = Append(configs, Moved)
    BY <1>3, <1>4 DEF Deactivate
  <2>2. configs' = <<Genesis, Moved>>
    BY <1>4, <2>1, AppendToOne
  <2>. QED
    BY <2>2 DEF Deactivate, roundVars, memberVars, comVars
<1>6. Moved' = Moved /\ Latest' = 2
  BY <1>5 DEF Moved, Core, Latest
<1>7. ASSUME NEW x \in Nodes PROVE Same(x)
  <2>1. conf[x] = 1
    BY <1>4 DEF Types
  <2>2. ListsOf(x)' = ListsOf(x)
    BY <1>4, <1>5, <2>1 DEF ListsOf
  <2>. QED
    BY <1>5, <2>2 DEF Same
<1>8. ConfigInv'
  <2>1. \A h \in Joiners : h \notin moving
    BY <1>1, MembershipAssumption DEF ConfigInv
  <2>. QED
    BY <1>5, <1>6, <2>1 DEF ConfigInv
<1>9. Types'
  BY <1>8, JoinTypes
<1>10. 0 \notin Nodes /\ 0 \notin Genesis /\ 0 \notin Joiners
  BY Ids
<1>11. Calm(0)
  BY <1>5, <1>7, <1>10 DEF Calm, MsgsOf
<1>12. VersionInv'
  BY <1>10, <1>11, SameVersions
<1>13. PeersInv'
  BY <1>5, <1>6 DEF PeersInv
<1>14. RequestInv'
  BY <1>5, <1>9, <1>11, CalmRequests
<1>. QED
  BY <1>8, <1>9, <1>10, <1>11, <1>12, <1>13, <1>14, CalmStep

\* A waiting node fetches the configuration and the chain again.
LEMMA JoinPollKeeps ==
  ASSUME IInv, NEW n \in Nodes, JoinPoll(n)
  PROVE  IInv'
<1>. Types /\ ConfigInv /\ VersionInv /\ PeersInv
  BY DEF IInv
<1>1. Types'
  BY ListsTypes
<1>2. n \in Joiners /\ n \notin Genesis /\ pc[n] \in {"join", "rejoin"}
  BY DEF JoinPoll, Nodes
<1>3. n \in moving /\ Latest = 2 /\ configs[Latest] = Moved
  BY <1>2 DEF ConfigInv, Latest
<1>4. ma_writer_list[n] = Moved /\ conf[n] = 2
  BY <1>2 DEF VersionInv, ListOf
<1>5. /\ UNCHANGED <<moving, configs, pc, round, numbers, winner,
                     proposed_version, peers, connected, accepting, msgs>>
      /\ ma_writer_list' = ma_writer_list /\ conf'[n] = 2
  <2>1. conf'[n] = 2 /\ ma_writer_list'[n] = Moved
    BY <1>3, <1>4 DEF JoinPoll, WaitingNodeGetConf, Types
  <2>2. ma_writer_list' = [ma_writer_list EXCEPT ![n] = Moved]
    BY <1>3, <1>4 DEF JoinPoll, WaitingNodeGetConf, Types
  <2>. QED
    BY <1>4, <2>1, <2>2 DEF JoinPoll, roundVars, comVars, Types
<1>13. /\ Copied(chain'[n]) /\ Len(chain'[n]) >= Len(chain[n])
       /\ \A x \in Nodes : x # n => chain'[x] = chain[x]
  <2>1. /\ InSync(n, ma_writer_list'[n]) \/ Abandoned(n, ma_writer_list'[n])
           \/ Unanswered
        /\ ma_writer_list'[n] \in SUBSET Nodes
    BY <1>5 DEF JoinPoll, Types
  <2>. QED
    BY <2>1, CallFetches, FetchTypes
<1>6. ASSUME NEW x \in Nodes, x # n PROVE Same(x)
  <2>1. conf'[x] = conf[x] /\ current_version'[x] = current_version[x]
    BY <1>6 DEF JoinPoll, WaitingNodeGetConf, Types
  <2>2. chain'[x] = chain[x]
    BY <1>6, <1>13
  <2>. QED
    BY <1>5, <2>1, <2>2, SameListsOf DEF Same
<1>7. Calm(n)
  BY <1>2, <1>5, <1>6, <1>13 DEF Calm, MsgsOf, Awaiting, Counting
<1>8. ConfigInv'
  BY <1>2, <1>5, SameConfigs
<1>9. VersionInv'
  <2>1. ListOf(n)'
    BY <1>2, <1>4, <1>5, <1>7, CalmConstants DEF ListOf
  <2>. QED
    BY <1>2, <1>7, <2>1, SameVersions
<1>10. PeersInv'
  BY <1>5, <1>7, SamePeers
<1>11. RoundOf(n)'
  BY <1>2, <1>5 DEF RoundOf, Counting
<1>12. RequestInv'
  BY <1>1, <1>5, <1>7, CalmRequests
<1>. QED
  BY <1>1, <1>7, <1>8, <1>9, <1>10, <1>11, <1>12, CalmStep

\* join_writer_set returns.
LEMMA JoinDoneKeeps ==
  ASSUME IInv, NEW n \in Nodes, JoinDone(n)
  PROVE  IInv'
<1>. Types /\ ConfigInv /\ VersionInv /\ PeersInv /\ RoundInv
  BY DEF IInv
<1>1. Types'
  BY ListsTypes
<1>2. /\ UNCHANGED <<moving, configs, numbers, winner, chain, conf,
                     current_version, proposed_version, ma_writer_list,
                     peers, connected, accepting, msgs>>
      /\ pc[n] \in {"join", "rejoin"} /\ Joined(n)
      /\ pc'[n] = IF pc[n] = "join" THEN "loop" ELSE "ready"
      /\ round'[n] = Len(chain[n])
  BY DEF JoinDone, maVars, memberVars, comVars, Types
<1>3. ASSUME NEW x \in Nodes, x # n PROVE Same(x)
  BY <1>2, <1>3, SameListsOf DEF JoinDone, Same, Types
<1>4. Due(n)' <=> Due(n)
  BY <1>2 DEF Due
<1>5. Calm(n)
  <2>1. Copied(chain'[n]) /\ Len(chain'[n]) >= Len(chain[n])
    BY <1>2, ChainType, OwnIsCopied
  <2>2. ASSUME n \in Genesis
        PROVE  NowRound(n)' = NowRound(n) /\ NowList(n)' = NowList(n)
    <3>1. pc[n] = "join" => ~Due(n)
      BY <2>2 DEF RoundInv, RoundOf
    <3>2. ~Changes(n) /\ ~Changes(n)'
      BY <1>2, <1>4, <3>1 DEF Changes
    <3>. QED
      BY <1>2, <3>2 DEF NowRound, NowList
  <2>. QED
    BY <1>2, <1>3, <2>1, <2>2 DEF Calm, MsgsOf, Awaiting
<1>6. Moved' = Moved
  BY <1>5, CalmConstants
<1>7. ConfigInv'
  BY <1>2, <1>3, SameConfigs DEF Same
<1>8. VersionInv'
  <2>1. ASSUME n \in Genesis PROVE VersionOf(n)'
    <3>1. VersionOf(n)
      BY <2>1 DEF VersionInv
    <3>. QED
      BY <1>2, <1>4, <1>6, <3>1 DEF VersionOf
  <2>2. ASSUME n \in Joiners PROVE ListOf(n)'
    <3>1. ListOf(n)
      BY <2>2 DEF VersionInv
    <3>. QED
      BY <1>2, <1>6, <3>1 DEF ListOf
  <2>. QED
    BY <1>5, <2>1, <2>2, SameVersions
<1>9. PeersInv'
  <2>1. ASSUME n \in Joiners, NEW x \in Genesis
        PROVE  ma_writer_list[x] = Moved
    <3>1. n \in moving
      BY <1>2, <2>1 DEF ConfigInv
    <3>2. Moved = Genesis \cup {n} /\ n \notin Genesis
      BY <2>1, <3>1, OneMover
    <3>3. ma_writer_list[n] = Moved
      BY <1>2, <2>1 DEF VersionInv, ListOf
    <3>4. connected[n] \in SUBSET Genesis
      BY <3>2, <3>3 DEF PeersInv
    <3>5. Cardinality(Moved) = Cardinality(Genesis) + 1
      BY <3>2, Ids, FS_AddElement
    <3>6. Cardinality(connected[n]) >= Cardinality(Genesis)
      BY <1>2, <3>3, <3>5, Ids DEF Joined, ExpectedPeers
    <3>7. connected[n] = Genesis
      BY <3>4, <3>6, Ids, FS_Subset, FS_CardinalityType
    <3>. QED
      BY <2>1, <3>7 DEF PeersInv
  <2>2. ASSUME NEW h \in Joiners, NEW x \in Genesis,
               pc'[h] \notin {"off", "fetch", "join"}
        PROVE  ma_writer_list[x] = Moved
    <3>1. CASE h = n
      BY <2>1, <3>1
    <3>2. CASE h # n
      BY <1>3, <2>2, <3>2, Ids DEF PeersInv, Same
    <3>. QED
      BY <3>1, <3>2
  <2>. QED
    BY <1>2, <1>6, <2>2 DEF PeersInv
<1>10. RoundOf(n)'
  BY <1>2, ChainType DEF RoundOf
<1>11. RequestInv'
  BY <1>1, <1>2, <1>5, CalmRequests
<1>. QED
  BY <1>1, <1>5, <1>7, <1>8, <1>9, <1>10, <1>11, CalmStep

\* A node changes to the lists of the version it was told of.
LEMMA UpdateVersionKeeps ==
  ASSUME IInv, NEW n \in Nodes, UpdateVersion(n)
  PROVE  IInv'
<1>. Types /\ ConfigInv /\ VersionInv /\ PeersInv
  BY DEF IInv
<1>1. Types'
  BY ListsTypes
<1>2. /\ UNCHANGED <<moving, configs, round, numbers, winner, chain, conf,
                     proposed_version, accepting, msgs>>
      /\ pc[n] = "loop" /\ Due(n) /\ pc'[n] = "rejoin"
      /\ ma_writer_list'[n] = ListsOf(n)
      /\ current_version'[n] = proposed_version[n]
      /\ peers'[n] = (peers[n] \cap ListsOf(n)) \cup (ListsOf(n) \ {n})
      /\ connected'[n] = connected[n] \cap peers'[n]
  BY DEF UpdateVersion, maVars, roundVars, Due, Types, Remaining, PeersOf
<1>3. ASSUME NEW x \in Nodes, x # n
      PROVE  Same(x) /\ peers'[x] = peers[x] /\ connected'[x] = connected[x]
  BY <1>2, <1>3, SameListsOf DEF UpdateVersion, Same, Types
<1>4. ListsOf(n)' = ListsOf(n) /\ ~Due(n)'
  <2>1. proposed_version[n] \in Nat
    BY VersionNumbers
  <2>. QED
    BY <1>2, <2>1, SameListsOf DEF Due
<1>5. n \in Genesis =>
        conf[n] = proposed_version[n] /\ proposed_version[n] \in {1, 2}
  <2>1. proposed_version[n] \in {1, 2}
    BY <1>2, VersionNumbers DEF Due
  <2>. QED
    BY <2>1 DEF VersionInv, VersionOf
<1>6. \/ ListsOf(n) = Genesis /\ ma_writer_list[n] = Genesis
      \/ ListsOf(n) = Moved /\ (n \in Genesis => proposed_version[n] = 2)
  <2>1. conf[n] = 2 => ListsOf(n) = Moved
    <3>1. conf[n] \in 1 .. Latest
      BY DEF Types
    <3>. QED
      BY <3>1 DEF ConfigInv, Latest, ListsOf
  <2>2. conf[n] = 1 => ListsOf(n) = Genesis
    BY DEF ConfigInv, ListsOf
  <2>3. CASE n \in Genesis
    <3>1. VersionOf(n)
      BY <2>3 DEF VersionInv
    <3>. QED
      BY <1>5, <2>1, <2>2, <2>3, <3>1 DEF VersionOf
  <2>4. CASE n \notin Genesis
    BY <1>2, <2>1, <2>4 DEF VersionInv, ListOf, Nodes
  <2>. QED
    BY <2>3, <2>4
<1>7. Calm(n)
  <2>1. Copied(chain'[n]) /\ Len(chain'[n]) >= Len(chain[n])
    BY <1>2, ChainType, OwnIsCopied
  <2>2. NowRound(n)' = NowRound(n) /\ NowList(n)' = NowList(n)
    <3>1. Changes(n) /\ ~Changes(n)'
      BY <1>2, <1>4 DEF Changes
    <3>. QED
      BY <1>2, <3>1 DEF NowRound, NowList
  <2>3. ma_writer_list[n] = Moved => ma_writer_list'[n] = Moved
    BY <1>2, <1>6
  <2>. QED
    BY <1>2, <1>3, <2>1, <2>2, <2>3 DEF Calm, MsgsOf, Awaiting, Counting
<1>8. Moved' = Moved
  BY <1>7, CalmConstants
<1>9. ConfigInv'
  BY <1>2, <1>3, SameConfigs DEF Same
<1>10. VersionInv'
  <2>1. ASSUME n \in Genesis PROVE VersionOf(n)'
    <3>1. conf'[n] = proposed_version'[n] /\ proposed_version'[n] \in Nat
          /\ current_version'[n] <= proposed_version'[n]
      BY <1>2, <1>5, <2>1, VersionNumbers
    <3>2. \/ ma_writer_list'[n] = Genesis
          \/ ma_writer_list'[n] = Moved /\ proposed_version'[n] = 2
      BY <1>2, <1>6, <2>1
    <3>. QED
      BY <1>4, <1>8, <3>1, <3>2 DEF VersionOf
  <2>2. ASSUME n \in Joiners PROVE ListOf(n)'
    <3>1. ma_writer_list[n] = Moved /\ conf[n] = 2
      BY <1>2, <2>2 DEF VersionInv, ListOf
    <3>. QED
      BY <1>2, <1>6, <1>8, <3>1 DEF ListOf
  <2>. QED
    BY <1>7, <2>1, <2>2, SameVersions
<1>11. PeersInv'
  <2>1. ASSUME NEW x \in Nodes
        PROVE  /\ peers'[x] \subseteq ma_writer_list'[x] \ {x}
               /\ connected'[x] \subseteq peers'[x]
               /\ connected'[x] \subseteq connected[x]
               /\ ma_writer_list[x] = Moved => ma_writer_list'[x] = Moved
    <3>1. CASE x = n
      BY <1>2, <1>6, <3>1 DEF PeersInv
    <3>2. CASE x # n
      BY <1>3, <3>2 DEF PeersInv, Same
    <3>. QED
      BY <3>1, <3>2
  <2>2. \A h \in Joiners : pc'[h] \notin {"off", "fetch", "join"} =>
                             pc[h] \notin {"off", "fetch", "join"}
    BY <1>2, <1>3, Ids DEF Same
  <2>. QED
    BY <1>2, <1>8, <2>1, <2>2, Ids DEF PeersInv
<1>12. RoundOf(n)'
  BY <1>2 DEF RoundOf, Counting
<1>13. RequestInv'
  BY <1>1, <1>2, <1>7, CalmRequests
<1>. QED
  BY <1>1, <1>7, <1>9, <1>10, <1>11, <1>12, <1>13, CalmStep

\* At the top of a round there is nothing to change.
LEMMA TopFacts ==
  ASSUME IInv, NEW n \in Nodes, TopOfRound(n)
  PROVE  /\ pc[n] \in {"loop", "ready"}
         /\ n \in Genesis => ~Due(n)
         /\ ~(n \in Genesis /\ Changes(n))
<1>. Types /\ ConfigInv /\ VersionInv
  BY DEF IInv
<1>1. current_version[n] \in Nat /\ proposed_version[n] \in Nat
  BY VersionNumbers
<1>. QED
  BY <1>1 DEF TopOfRound, Due, Changes, VersionInv, VersionOf

\* A writer waits for the request.
LEMMA StartWriterKeeps ==
  ASSUME IInv, NEW n \in Nodes, StartWriter(n)
  PROVE  IInv'
<1>. Types /\ ConfigInv /\ VersionInv /\ PeersInv /\ RoundInv
  BY DEF IInv
<1>1. Types'
  BY ListsTypes
<1>2. /\ UNCHANGED <<moving, configs, round, numbers, winner, chain, conf,
                     current_version, proposed_version, ma_writer_list,
                     peers, connected, accepting, msgs>>
      /\ TopOfRound(n) /\ Coordinator(n) # n
      /\ pc'[n] = "await_request"
  BY DEF StartWriter, maVars, roundVars, memberVars, comVars, Types
<1>3. /\ pc[n] \in {"loop", "ready"}
      /\ n \in Genesis => ~Due(n)
      /\ ~(n \in Genesis /\ Changes(n))
  BY <1>2, TopFacts
<1>4. ASSUME NEW x \in Nodes, x # n PROVE Same(x)
  BY <1>2, <1>4, SameListsOf DEF StartWriter, Same, Types
<1>5. (Due(n)' <=> Due(n)) /\ Coordinator(n)' = Coordinator(n)
  BY <1>2 DEF Due, Coordinator
<1>6. Calm(n)
  <2>1. Copied(chain'[n]) /\ Len(chain'[n]) >= Len(chain[n])
    BY <1>2, ChainType, OwnIsCopied
  <2>2. ASSUME n \in Genesis
        PROVE  NowRound(n)' = NowRound(n) /\ NowList(n)' = NowList(n)
    <3>1. ~Changes(n) /\ ~Changes(n)'
      BY <1>2, <1>3, <2>2 DEF Changes
    <3>. QED
      BY <1>2, <1>3, <3>1 DEF NowRound, NowList
  <2>. QED
    BY <1>2, <1>3, <1>4, <2>1, <2>2 DEF Calm, MsgsOf, Awaiting, Counting
<1>7. Moved' = Moved
  BY <1>6, CalmConstants
<1>8. ConfigInv'
  BY <1>2, <1>3, <1>4, SameConfigs DEF Same
<1>9. VersionInv'
  <2>1. ASSUME n \in Genesis PROVE VersionOf(n)'
    <3>1. VersionOf(n)
      BY <2>1 DEF VersionInv
    <3>. QED
      BY <1>2, <1>3, <1>5, <1>7, <2>1, <3>1 DEF VersionOf
  <2>2. ASSUME n \in Joiners PROVE ListOf(n)'
    <3>1. ListOf(n)
      BY <2>2 DEF VersionInv
    <3>. QED
      BY <1>2, <1>3, <1>7, <3>1 DEF ListOf
  <2>. QED
    BY <1>6, <2>1, <2>2, SameVersions
<1>10. PeersInv'
  BY <1>2, <1>3, <1>6, SamePeers
<1>11. RoundOf(n)'
  <2>1. RoundOf(n)
    BY DEF RoundInv
  <2>. QED
    BY <1>2, <1>3, <1>5, <2>1 DEF RoundOf, Counting
<1>12. RequestInv'
  BY <1>1, <1>2, <1>6, CalmRequests
<1>. QED
  BY <1>1, <1>6, <1>8, <1>9, <1>10, <1>11, <1>12, CalmStep

\* get_remote_conf keeps versions in order, and prepares the change that the
\* coordinator announces.
LEMMA RemoteConfFacts ==
  ASSUME IInv, NEW n \in Nodes, GetRemoteConf(n), Types', ConfigInv',
         UNCHANGED <<configs, moving, ma_writer_list>>,
         n \in Genesis => ~Due(n), pc[n] \in {"loop", "ready"},
         pc'[n] = "collect"
  PROVE  /\ n \in Genesis => VersionOf(n)'
         /\ n \in Joiners => ListOf(n)'
         /\ Follows(n, n)'
<1>. Types /\ ConfigInv /\ VersionInv
  BY DEF IInv
<1>1. Moved' = Moved /\ Core' = Core /\ Latest' = Latest
  BY DEF Moved, Core, Latest
<1>2. /\ Latest \in {1, 2} /\ current_version[n] \in 0 .. 2
      /\ proposed_version[n] \in 0 .. 2
      /\ current_version[n] <= Latest /\ proposed_version[n] <= Latest
      /\ conf[n] \in 1 .. 2
  BY VersionNumbers
<1>3. /\ current_version'[n] \in Nat /\ proposed_version'[n] \in Nat
      /\ GetVersion(n)' = Max({current_version'[n], proposed_version'[n]})
      /\ GetVersion(n)' \in {current_version'[n], proposed_version'[n]}
      /\ GetVersion(n)' >= current_version'[n]
      /\ GetVersion(n)' >= proposed_version'[n]
  <2>1. current_version'[n] \in 0 .. 2 /\ proposed_version'[n] \in 0 .. 2
    BY <1>1, <1>2, SMTT(30) DEF Types
  <2>2. GetVersion(n)' = Max({current_version'[n], proposed_version'[n]})
    BY DEF GetVersion
  <2>. QED
    BY <2>1, <2>2, MaxOfTwo
<1>. HIDE DEF Latest
<1>4. CASE n \in Genesis
  <2>1. /\ proposed_version[n] # 0 =>
             conf[n] = proposed_version[n]
             /\ current_version[n] <= proposed_version[n]
        /\ \/ ma_writer_list[n] = Genesis
           \/ ma_writer_list[n] = Moved /\ proposed_version[n] = 2
        /\ ~(proposed_version[n] > current_version[n])
    BY <1>4 DEF VersionInv, VersionOf, Due
  <2>2. n \notin Joiners
    BY <1>4, MembershipAssumption
  <2>3. \/ /\ conf'[n] = Latest /\ current_version[n] # 0
           /\ Latest > current_version[n] /\ proposed_version'[n] = Latest
           /\ current_version'[n] = current_version[n]
        \/ /\ conf'[n] = Latest
           /\ current_version[n] = 0 \/ ~(Latest > current_version[n])
           /\ current_version'[n] = Latest
           /\ proposed_version'[n] = proposed_version[n]
        \/ /\ current_version'[n] = 0 /\ conf'[n] = conf[n]
           /\ proposed_version'[n] = proposed_version[n]
    BY DEF GetRemoteConf, Types
  <2>4. /\ proposed_version'[n] # 0 =>
             conf'[n] = proposed_version'[n]
             /\ current_version'[n] <= proposed_version'[n]
        /\ proposed_version[n] = 2 => proposed_version'[n] = 2
        /\ proposed_version'[n] > current_version'[n] =>
             conf'[n] = GetVersion(n)'
    BY <1>2, <1>3, <2>1, <2>3
  <2>. QED
    BY <1>1, <2>1, <2>2, <2>4 DEF VersionOf, Follows, Due
<1>5. CASE n \notin Genesis
  <2>1. n \in Joiners /\ n \notin Core /\ n \notin Core'
    BY <1>1, <1>5 DEF Nodes, Core
  <2>2. Latest = 2 /\ ma_writer_list[n] = Moved /\ conf[n] = 2
    BY <2>1 DEF ConfigInv, VersionInv, ListOf
  <2>3. conf'[n] = 2
    BY <2>2 DEF GetRemoteConf, Types
  <2>. QED
    BY <1>1, <1>5, <2>1, <2>2, <2>3 DEF ListOf, Follows
<1>. QED
  BY <1>4, <1>5

\* The coordinator asks the MA and sends its request.
LEMMA StartCoordinatorKeeps ==
  ASSUME IInv, NEW n \in Nodes, StartCoordinator(n)
  PROVE  IInv'
<1>. Types /\ ConfigInv /\ VersionInv /\ PeersInv /\ RoundInv /\ RequestInv
     /\ ReplyInv
  BY DEF IInv
<1>1. Types'
  BY ListsTypes
<1>2. /\ UNCHANGED <<moving, configs, round, winner, chain, ma_writer_list,
                     peers, connected, accepting>>
      /\ TopOfRound(n) /\ Coordinator(n) = n /\ GetRemoteConf(n)
      /\ pc'[n] = "collect" /\ numbers'[n] = {}
      /\ msgs' = msgs \cup Broadcast("request", n, GetVersion(n)')
  BY DEF StartCoordinator, comVars, Types
<1>3. /\ pc[n] \in {"loop", "ready"}
      /\ n \in Genesis => ~Due(n)
      /\ ~(n \in Genesis /\ Changes(n))
  BY <1>2, TopFacts
<1>4. ASSUME NEW x \in Nodes, x # n PROVE Same(x)
  <2>1. /\ conf'[x] = conf[x] /\ current_version'[x] = current_version[x]
        /\ proposed_version'[x] = proposed_version[x]
    BY <1>2, <1>4 DEF GetRemoteConf, Types
  <2>. QED
    BY <1>2, <1>4, <2>1, SameListsOf DEF StartCoordinator, Same, Types
<1>5. ConfigInv'
  BY <1>2, <1>3, <1>4, SameConfigs DEF Same
<1>6. /\ n \in Genesis => VersionOf(n)'
      /\ n \in Joiners => ListOf(n)'
      /\ Follows(n, n)'
  BY <1>1, <1>2, <1>3, <1>5, RemoteConfFacts
<1>7. \A m \in Broadcast("request", n, GetVersion(n)') : m.type = "request"
  BY DEF Broadcast, Msg
<1>8. Calm(n)
  <2>1. Copied(chain'[n]) /\ Len(chain'[n]) >= Len(chain[n])
    BY <1>2, ChainType, OwnIsCopied
  <2>2. ASSUME n \in Genesis
        PROVE  NowRound(n)' = NowRound(n) /\ NowList(n)' = NowList(n)
    <3>1. ~Changes(n) /\ ~Changes(n)'
      BY <1>2, <1>3, <2>2 DEF Changes
    <3>. QED
      BY <1>2, <1>3, <3>1 DEF NowRound, NowList
  <2>3. /\ MsgsOf("reply")' = MsgsOf("reply")
        /\ MsgsOf("announce")' = MsgsOf("announce")
        /\ MsgsOf("block")' = MsgsOf("block")
    BY <1>2, <1>7 DEF MsgsOf
  <2>4. /\ pc[n] \notin Awaiting /\ pc[n] # "collect" /\ pc'[n] \notin Awaiting
        /\ pc[n] \in Counting
    BY <1>2, <1>3 DEF Awaiting, Counting
  <2>. QED
    BY <1>2, <1>4, <1>6, <2>1, <2>2, <2>3, <2>4 DEF Calm
<1>9. VersionInv'
  BY <1>6, <1>8, SameVersions
<1>10. PeersInv'
  BY <1>2, <1>3, <1>8, SamePeers
<1>11. RoundOf(n)'
  <2>1. RoundOf(n)
    BY DEF RoundInv
  <2>2. Coordinator(n)' = n
    BY <1>2 DEF Coordinator
  <2>. QED
    BY <1>2, <1>3, <2>1, <2>2 DEF RoundOf, Counting
<1>12. RequestInv'
  <2>1. ASSUME NEW m \in MsgsOf("request")' PROVE
          /\ pc'[m.from] = "collect"
          /\ m.round = round'[m.from]
          /\ m.content = GetVersion(m.from)'
          /\ m.to \in ma_writer_list'[m.from] \ {m.from}
          /\ m.to \notin numbers'[m.from]
          /\ \A o \in MsgsOf("reply") : ~(o.from = m.to /\ o.to = m.from)
    <3>1. CASE m \in msgs
      <4>1. m \in MsgsOf("request")
        BY <2>1, <3>1 DEF MsgsOf
      <4>2. m.from \in Nodes /\ pc[m.from] = "collect"
        BY <3>1, <4>1, MsgTypes DEF RequestInv
      <4>3. Same(m.from) /\ GetVersion(m.from)' = GetVersion(m.from)
        BY <1>3, <1>4, <4>2, SameFacts
      <4>. QED
        BY <4>1, <4>3 DEF RequestInv, Same
    <3>2. CASE m \in Broadcast("request", n, GetVersion(n)')
      <4>1. /\ m.from = n /\ m.round = round[n] /\ m.content = GetVersion(n)'
            /\ m.to \in connected[n]
        BY <3>2 DEF Broadcast, Msg
      <4>2. m.to \in ma_writer_list[n] \ {n}
        BY <4>1 DEF PeersInv
      <4>3. \A o \in MsgsOf("reply") : o.to # n
        BY <1>3 DEF ReplyInv
      <4>. QED
        BY <1>2, <4>1, <4>2, <4>3
    <3>. QED
      BY <1>2, <2>1, <3>1, <3>2 DEF MsgsOf
  <2>2. MsgsOf("reply")' = MsgsOf("reply")
    BY <1>8 DEF Calm
  <2>. QED
    BY <2>1, <2>2 DEF RequestInv
<1>. QED
  BY <1>1, <1>5, <1>8, <1>9, <1>10, <1>11, <1>12, CalmStep

\* Connections come and go.
LEMMA ComKeeps ==
  ASSUME IInv, NEW a \in Nodes, NEW b \in Nodes,
         Dial(a, b) \/ Accept(a, b) \/ ReadClosed(a, b)
  PROVE  IInv'
<1>. Types /\ ConfigInv /\ VersionInv /\ PeersInv
  BY DEF IInv
<1>1. Types'
  BY ComTypes
<1>2. UNCHANGED <<moving, configs, pc, round, numbers, winner, chain, conf,
                  current_version, proposed_version, ma_writer_list, peers,
                  msgs>>
  BY DEF Dial, Accept, ReadClosed, maVars, roundVars, memberVars
<1>3. \A x \in Nodes : Same(x)
  BY <1>2, SameListsOf DEF Same
<1>4. 0 \notin Nodes /\ 0 \notin Genesis /\ 0 \notin Joiners
  BY Ids
<1>5. Calm(0)
  BY <1>2, <1>3, <1>4 DEF Calm, MsgsOf
<1>6. Moved' = Moved /\ Latest' = Latest
  BY <1>2 DEF Moved, Core, Latest
<1>7. ConfigInv'
  BY <1>2, <1>6 DEF ConfigInv
<1>8. VersionInv'
  BY <1>4, <1>5, SameVersions
<1>9. PeersInv'
  <2>1. ASSUME NEW h \in Joiners, NEW x \in Genesis, h \in ma_writer_list[x]
        PROVE  ma_writer_list[x] = Moved
    BY <2>1, Lists, Ids, MembershipAssumption
  <2>2. \A x, y \in Nodes : y \in peers[x] => y \in ma_writer_list[x]
    BY DEF PeersInv
  <2>3. ASSUME NEW x \in Nodes, NEW y \in Nodes, y \in connected'[x]
        PROVE  \/ y \in connected[x]
               \/ y \in peers[x] /\ (x \in peers[y] \/ <<y, x>> \in accepting)
    <3>1. connected \in [Nodes -> SUBSET Nodes]
      BY DEF Types
    <3>2. \/ connected' = connected
          \/ /\ connected' = [connected EXCEPT ![a] = @ \cup {b}]
             /\ b \in peers[a] /\ a \in peers[b]
          \/ /\ connected' = [connected EXCEPT ![b] = @ \cup {a}]
             /\ a \in peers[b] /\ <<a, b>> \in accepting
          \/ connected' = [connected EXCEPT ![a] = @ \ {b}]
      BY DEF Dial, Accept, ReadClosed
    <3>3. CASE /\ connected' = [connected EXCEPT ![a] = @ \cup {b}]
               /\ b \in peers[a] /\ a \in peers[b]
      BY <2>3, <3>1, <3>3
    <3>4. CASE /\ connected' = [connected EXCEPT ![b] = @ \cup {a}]
               /\ a \in peers[b] /\ <<a, b>> \in accepting
      BY <2>3, <3>1, <3>4
    <3>5. CASE connected' = [connected EXCEPT ![a] = @ \ {b}]
      BY <2>3, <3>1, <3>5
    <3>. QED
      BY <2>3, <3>2, <3>3, <3>4, <3>5
  <2>4. ASSUME NEW x \in Nodes, NEW y \in Nodes, <<x, y>> \in accepting'
        PROVE  <<x, y>> \in accepting \/ y \in peers[x]
    BY <2>4 DEF Dial, Accept, ReadClosed
  <2>5. \A x \in Nodes : connected'[x] \subseteq peers[x]
    <3>1. ASSUME NEW x \in Nodes, NEW y \in connected'[x] PROVE y \in peers[x]
      <4>1. y \in Nodes
        BY <1>1 DEF Types
      <4>. QED
        BY <2>3, <4>1 DEF PeersInv
    <3>. QED
      BY <3>1
  <2>6. ASSUME NEW h \in Joiners, NEW x \in Genesis,
               x \in connected'[h] \/ <<x, h>> \in accepting'
        PROVE  ma_writer_list[x] = Moved
    <3>1. h \in Nodes /\ x \in Nodes
      BY Ids
    <3>2. \/ x \in connected[h] \/ <<x, h>> \in accepting
          \/ h \in peers[x]
      BY <2>3, <2>4, <2>6, <3>1
    <3>. QED
      BY <2>1, <2>2, <3>1, <3>2 DEF PeersInv
  <2>. QED
    BY <1>2, <1>6, <2>5, <2>6 DEF PeersInv
<1>10. RequestInv'
  BY <1>1, <1>2, <1>5, CalmRequests
<1>. QED
  BY <1>1, <1>4, <1>5, <1>7, <1>8, <1>9, <1>10, CalmStep

----------------------------------------------------------------------------
(* The steps of a round change no list and no configuration.                *)

LEMMA RoundFrame ==
  ASSUME IInv, NEW n \in Nodes,
         UNCHANGED <<moving, configs, current_version, ma_writer_list, peers,
                     connected, accepting>>,
         \A x \in Nodes : x # n =>
           pc'[x] = pc[x] /\ conf'[x] = conf[x]
           /\ proposed_version'[x] = proposed_version[x],
         pc[n] \notin {"off", "fetch", "join"},
         pc'[n] \notin {"off", "fetch", "join"},
         n \in Genesis => VersionOf(n)',
         n \in Joiners => conf'[n] = 2
  PROVE  ConfigInv' /\ VersionInv' /\ PeersInv'
<1>. ConfigInv /\ VersionInv /\ PeersInv
  BY DEF IInv
<1>1. Moved' = Moved
  BY DEF Moved, Core
<1>2. ConfigInv'
  BY SameConfigs
<1>3. ASSUME NEW x \in Genesis PROVE VersionOf(x)'
  <2>1. CASE x = n
    BY <2>1
  <2>2. CASE x # n
    <3>1. VersionOf(x) /\ x \in Nodes
      BY Ids DEF VersionInv
    <3>2. Due(x)' <=> Due(x)
      BY <2>2, <3>1 DEF Due
    <3>. QED
      BY <1>1, <2>2, <3>1, <3>2 DEF VersionOf
  <2>. QED
    BY <2>1, <2>2
<1>4. ASSUME NEW h \in Joiners PROVE ListOf(h)'
  <2>1. ListOf(h) /\ h \in Nodes
    BY Ids DEF VersionInv
  <2>. QED
    BY <1>1, <2>1 DEF ListOf
<1>5. PeersInv'
  <2>1. \A h \in Joiners : pc'[h] \notin {"off", "fetch", "join"} =>
                             pc[h] \notin {"off", "fetch", "join"}
    BY Ids
  <2>. QED
    BY <1>1, <2>1 DEF PeersInv
<1>. QED
  BY <1>2, <1>3, <1>4, <1>5 DEF VersionInv

\* In a round, before a decision, nothing but n changes, and n goes on towards
\* the decision.
Steady(n) ==
  /\ UNCHANGED <<moving, configs, chain, round, ma_writer_list, current_version>>
  /\ \A x \in Nodes : x # n => Same(x)
  /\ pc[n] \in {"collect", "await_request", "await_announce"}
  /\ pc'[n] \in {"collect", "await_announce", "await_block"}
  /\ pc[n] = "await_announce" =>
       /\ pc'[n] = "await_block" /\ ~Unannounced(n)
       /\ conf'[n] = conf[n] /\ proposed_version'[n] = proposed_version[n]
  /\ pc'[n] = "await_block" => pc[n] = "await_announce"
  /\ pc[n] = "collect" =>
       conf'[n] = conf[n] /\ proposed_version'[n] = proposed_version[n]
  /\ MsgsOf("announce")' \subseteq MsgsOf("announce")
  /\ \A o \in MsgsOf("announce")' : o.to # n
  /\ MsgsOf("block")' = MsgsOf("block")

LEMMA SteadyKeeps ==
  ASSUME IInv, Types', ConfigInv', VersionInv', NEW n \in Nodes, Steady(n),
         \A x \in Nodes : Bound(x) => Bound(x)',
         \A l \in Nat, w \in Nodes : Decided(l, w)' <=> Decided(l, w)
  PROVE  /\ AnnounceInv' /\ BlockInv'
         /\ ChainInv' /\ Agreement' /\ CoreInv' /\ JoinedInv' /\ LeftInv'
         /\ SameListInv'
<1>. Types /\ ConfigInv /\ VersionInv /\ AnnounceInv /\ BlockInv /\ ChainInv
     /\ Agreement /\ CoreInv /\ JoinedInv /\ LeftInv /\ SameListInv
  BY DEF IInv
<1>1. Core' = Core /\ Moved' = Moved /\ Core \subseteq Nodes /\ Core \subseteq Genesis
  BY CoreNotEmpty DEF Steady, Core, Moved
<1>2. \A l \in Nat : Taken(l)' <=> Taken(l)
  BY DEF Taken
<1>3. ASSUME NEW x \in Nodes PROVE Coordinator(x)' = Coordinator(x)
  BY DEF Steady, Coordinator
<1>4. AnnounceInv'
  <2>1. ASSUME NEW m \in MsgsOf("announce")' PROVE
          /\ pc'[m.to] = "await_announce" /\ Coordinator(m.to)' = m.from
          /\ m.round = round'[m.to]
          /\ m.content \in Nodes
          /\ ~Engaged(m.to)'
          /\ m.content = m.to =>
               \A x \in ma_writer_list'[m.to] \ {m.to} :
                 /\ pc'[x] \in Awaiting /\ ~Engaged(x)'
                 /\ round'[x] = round'[m.to]
                 /\ Len(chain'[x]) = Len(chain'[m.to])
    <3>1. m \in MsgsOf("announce") /\ m.to # n
      BY DEF Steady
    <3>2. PICK t \in Nodes : t = m.to
      BY <3>1, MsgTypes DEF MsgsOf
    <3>3. /\ pc[t] = "await_announce" /\ Coordinator(t) = m.from
          /\ m.round = round[t] /\ m.content \in Nodes /\ ~Engaged(t)
          /\ m.content = t =>
               \A x \in ma_writer_list[t] \ {t} :
                 /\ pc[x] \in Awaiting /\ ~Engaged(x)
                 /\ round[x] = round[t]
                 /\ Len(chain[x]) = Len(chain[t])
      BY <3>1, <3>2 DEF AnnounceInv
    <3>4. pc'[t] = "await_announce" /\ Coordinator(t)' = m.from
      BY <1>3, <3>1, <3>2, <3>3 DEF Steady, Same
    <3>5. ~Engaged(t)'
      BY <3>2, <3>3 DEF Bound, Awaiting
    <3>6. ASSUME m.content = t, NEW x \in ma_writer_list[t] \ {t} PROVE
            /\ pc'[x] \in Awaiting /\ ~Engaged(x)'
            /\ round[x] = round[t]
            /\ Len(chain[x]) = Len(chain[t])
      <4>1. x \in Nodes
        BY <3>2, Lists
      <4>2. Bound(x) /\ round[x] = round[t] /\ Len(chain[x]) = Len(chain[t])
        BY <3>3, <3>6 DEF Bound
      <4>3. Bound(x)'
        BY <4>1, <4>2
      <4>. QED
        BY <4>2, <4>3 DEF Bound
    <3>. QED
      BY <3>2, <3>3, <3>4, <3>5, <3>6 DEF Steady
  <2>. QED
    BY <2>1 DEF AnnounceInv
<1>5. BlockInv'
  <2>1. ASSUME NEW m \in MsgsOf("block") PROVE
          /\ pc'[m.to] \in Awaiting
          /\ m.round = round[m.to]
          /\ m.from # m.to
          /\ m.content = <<m.from, Len(chain[m.to])>>
          /\ Decided(Len(chain[m.to]), m.from)'
          /\ Len(chain[m.from]) > Len(chain[m.to])
    <3>1. /\ pc[m.to] \in Awaiting
          /\ m.round = round[m.to]
          /\ m.from # m.to
          /\ m.content = <<m.from, Len(chain[m.to])>>
          /\ Decided(Len(chain[m.to]), m.from)
          /\ Len(chain[m.from]) > Len(chain[m.to])
      BY DEF BlockInv
    <3>2. m.to \in Nodes /\ m.from \in Nodes
      BY MsgTypes DEF MsgsOf
    <3>3. pc'[m.to] \in Awaiting
      BY <3>1, <3>2 DEF Steady, Same, Awaiting
    <3>4. PICK l \in Nat : l = Len(chain[m.to])
      BY <3>2, ChainType
    <3>5. Decided(l, m.from)'
      BY <3>1, <3>2, <3>4
    <3>6. Decided(Len(chain[m.to]), m.from)'
      <4>1. chain' = chain
        BY DEF Steady
      <4>. QED
        BY <3>4, <3>5, <4>1 DEF Decided
    <3>. QED
      BY <3>1, <3>3, <3>6
  <2>2. MsgsOf("block")' = MsgsOf("block") /\ chain' = chain /\ round' = round
    BY DEF Steady
  <2>. QED
    BY <2>1, <2>2 DEF BlockInv
<1>6. ChainInv'
  BY DEF Steady, ChainInv
<1>7. Agreement'
  BY DEF Agreement
<1>8. ASSUME NEW x \in Nodes, UpToDate(x) PROVE UpToDate(x)'
  BY <1>2, <1>8 DEF UpToDate, Steady
<1>9. CoreInv'
  BY <1>1, <1>8 DEF CoreInv
<1>10. JoinedInv'
  <2>1. ASSUME NEW h \in Joiners, pc'[h] \in Counting,
               \/ round'[h] # Len(chain'[h])
               \/ pc'[h] = "await_block"
               \/ ~Unannounced(h)'
        PROVE  UpToDate(h)'
    <3>1. h \in Nodes
      BY Ids
    <3>2. pc[h] \in Counting
      BY <2>1, <3>1 DEF Steady, Same, Counting
    <3>3. ~Unannounced(h)' => ~Unannounced(h)
      BY DEF Steady, Unannounced
    <3>4. pc'[h] = "await_block" => pc[h] = "await_block" \/ ~Unannounced(h)
      BY <3>1 DEF Steady, Same
    <3>5. UpToDate(h)
      BY <2>1, <3>2, <3>3, <3>4 DEF Steady, JoinedInv
    <3>. QED
      BY <1>8, <3>1, <3>5
  <2>. QED
    BY <2>1 DEF JoinedInv
<1>11. LeftInv'
  <2>1. \A x \in Nodes : pc[x] \in Awaiting => pc'[x] \in Awaiting
    BY DEF Steady, Same, Awaiting
  <2>. QED
    BY <1>1, <1>2, <2>1, Ids DEF LeftInv, Steady
<1>12. SameListInv'
  <2>1. ASSUME NEW x \in Core
        PROVE  /\ Len(chain[x]) \in Nat /\ NowRound(x)' = NowRound(x)
               /\ NowList(x)' = NowList(x)
               /\ Taken(Len(chain[x])) =>
                    NextRound(x)' = NextRound(x) /\ NextList(x)' = NextList(x)
    <3>1. CASE x = n
      <4>1. ~Changes(n) /\ ~Changes(n)'
            /\ pc[n] \notin {"join", "rejoin"} /\ pc'[n] \notin {"join", "rejoin"}
        BY DEF Changes, Steady
      <4>2. NowRound(n)' = NowRound(n) /\ NowList(n)' = NowList(n)
        BY <4>1 DEF NowRound, NowList, Steady
      <4>3. Len(chain[n]) \in Nat
        BY ChainType
      <4>4. ASSUME Taken(Len(chain[n]))
            PROVE  NextRound(n)' = NextRound(n) /\ NextList(n)' = NextList(n)
        <5>1. pc[n] \in Awaiting
          BY <3>1, <4>3, <4>4 DEF CoreInv, UpToDate, Bound
        <5>2. conf'[n] = conf[n] /\ proposed_version'[n] = proposed_version[n]
          BY <5>1 DEF Steady, Awaiting
        <5>. QED
          BY <5>2 DEF NextRound, NextList, Due, ListsOf, Steady
      <4>. QED
        BY <3>1, <4>2, <4>3, <4>4
    <3>2. CASE x # n
      BY <1>1, <3>2, SameFacts, ChainType DEF Steady
    <3>. QED
      BY <3>1, <3>2
  <2>2. chain' = chain
    BY DEF Steady
  <2>3. ASSUME NEW a \in Core, NEW b \in Core PROVE
    /\ Len(chain[a]) = Len(chain[b]) /\ NowRound(a)' = NowRound(b)'
         => NowList(a)' = NowList(b)'
    /\ Len(chain[b]) = Len(chain[a]) + 1 /\ NextRound(a)' = NowRound(b)'
         => NextList(a)' = NowList(b)'
    /\ /\ Len(chain[a]) = Len(chain[b]) /\ NextRound(a)' = NextRound(b)'
       /\ Taken(Len(chain[a]))
       => NextList(a)' = NextList(b)'
    <3>1. Len(chain[b]) = Len(chain[a]) + 1 => Taken(Len(chain[a]))
      BY <1>1, <2>1, StoredIsTaken
    <3>2. Len(chain[a]) = Len(chain[b]) =>
            (Taken(Len(chain[a])) => Taken(Len(chain[b])))
      OBVIOUS
    <3>. QED
      BY <2>1, <3>1, <3>2 DEF SameListInv
  <2>4. \A x \in Core : Taken(Len(chain[x]))' <=> Taken(Len(chain[x]))
    <3>1. ASSUME NEW x \in Core
          PROVE  Taken(Len(chain[x]))' <=> Taken(Len(chain[x]))
      <4>1. PICK l \in Nat : l = Len(chain[x])
        BY <2>1
      <4>2. l = Len(chain'[x])
        BY <2>2, <4>1
      <4>. QED
        BY <1>2, <4>1, <4>2
    <3>. QED
      BY <3>1
  <2>. QED
    BY <1>1, <2>2, <2>3, <2>4 DEF SameListInv
<1>. QED
  BY <1>4, <1>5, <1>6, <1>7, <1>9, <1>10, <1>11, <1>12

----------------------------------------------------------------------------
(* A request answered.                                                      *)

\* The one of two nodes with a shorter chain that is not bound is a node that
\* leaves, and not on the list of the other.
LEMMA ShorterIsOut ==
  ASSUME IInv, NEW s \in Nodes, NEW t \in Nodes, s # t,
         pc[s] \in Counting, pc[t] \in Counting, pc[s] \notin Awaiting,
         Len(chain[t]) > Len(chain[s]), round[s] # Len(chain[s])
  PROVE  s \notin ma_writer_list[t]
<1>. Types /\ ConfigInv /\ VersionInv /\ CoreInv /\ JoinedInv /\ LeftInv
  BY DEF IInv
<1>1. PICK l \in Nat : l = Len(chain[s])
  BY ChainType
<1>2. Taken(l)
  BY <1>1, StoredIsTaken
<1>3. ~UpToDate(s)
  BY <1>1, <1>2 DEF UpToDate, Bound
<1>4. s \notin Core /\ s \notin Joiners
  BY <1>3 DEF CoreInv, JoinedInv
<1>5. s \in moving \cap Genesis
  BY <1>4 DEF Core, Nodes
<1>6. \A x \in Core : ma_writer_list[x] = Moved
  BY <1>1, <1>2, <1>5 DEF LeftInv
<1>7. Moved = Core /\ s \notin Core /\ t \in Core
  <2>1. t \notin Joiners
    <3>1. t \in Joiners => t \in moving
      BY DEF ConfigInv, Counting
    <3>. QED
      BY <1>5, <3>1 DEF ConfigInv
  <2>2. t \in Genesis
    BY <2>1 DEF Nodes
  <2>. QED
    BY <1>5, <2>2, OneMover
<1>. QED
  BY <1>6, <1>7

LEMMA SameLength ==
  ASSUME IInv, NEW a \in Nodes, NEW b \in Nodes, a # b,
         a \in ma_writer_list[b], b \in ma_writer_list[a],
         pc[a] \in {"collect", "await_request"},
         pc[b] \in {"collect", "await_request"},
         round[a] = round[b]
  PROVE  Len(chain[a]) = Len(chain[b])
<1>. Types /\ RoundInv
  BY DEF IInv
<1>1. /\ pc[a] \in Counting /\ pc[b] \in Counting
      /\ pc[a] \notin Awaiting /\ pc[b] \notin Awaiting
  BY DEF Counting, Awaiting
<1>2. \A x \in {a, b} :
        /\ Len(chain[x]) \in Nat
        /\ Len(chain[x]) = 0 => round[x] = 0
        /\ Len(chain[x]) # 0 => round[x] \in {Len(chain[x]), Len(chain[x]) + 1}
  BY <1>1, ChainType DEF RoundInv, RoundOf
<1>3. ASSUME Len(chain[a]) > Len(chain[b]) PROVE FALSE
  <2>1. round[b] # Len(chain[b])
    BY <1>2, <1>3
  <2>. QED
    BY <1>1, <1>3, <2>1, ShorterIsOut
<1>4. ASSUME Len(chain[b]) > Len(chain[a]) PROVE FALSE
  <2>1. round[a] # Len(chain[a])
    BY <1>2, <1>4
  <2>. QED
    BY <1>1, <1>4, <2>1, ShorterIsOut
<1>. QED
  BY <1>2, <1>3, <1>4

LEMMA RequestFacts ==
  ASSUME IInv, NEW n \in Nodes, NEW m \in Requests(n), pc[n] = "await_request"
  PROVE  /\ m \in MsgsOf("request") /\ m.to = n /\ m.from \in Nodes
         /\ m.from = Coordinator(n) /\ m.from # n
         /\ pc[m.from] = "collect" /\ m.round = round[m.from]
         /\ m.content = GetVersion(m.from)
         /\ n \in ma_writer_list[m.from] \ {m.from}
         /\ n \notin numbers[m.from]
         /\ \A o \in MsgsOf("reply") : ~(o.from = n /\ o.to = m.from)
         /\ round[n] # 0 => round[m.from] = round[n]
         /\ m.from \in ma_writer_list[n]
<1>. Types /\ ConfigInv /\ VersionInv /\ RequestInv /\ RoundInv
  BY DEF IInv
<1>1. /\ m \in MsgsOf("request") /\ m.to = n /\ m.from \in Nodes
      /\ m.from = Coordinator(n) /\ (round[n] # 0 => m.round = round[n])
  BY ReceivableFacts DEF Requests, IsMsg
<1>2. m.from # n
  BY <1>1 DEF RoundInv, RoundOf
<1>3. m.from \in ma_writer_list[n]
  BY <1>1, Lists
<1>. QED
  BY <1>1, <1>2, <1>3 DEF RequestInv

LEMMA CheckVersionFacts ==
  ASSUME IInv, NEW n \in Nodes, NEW m \in Requests(n), pc[n] = "await_request",
         CheckVersion(n, m.content),
         UNCHANGED <<moving, configs, current_version, ma_writer_list>>,
         pc'[n] = "await_announce"
  PROVE  /\ n \in Genesis => VersionOf(n)'
         /\ n \in Joiners => conf'[n] = 2
         /\ n \in Core /\ Due(n)' => conf'[n] = GetVersion(m.from)
         /\ \A x \in Nodes : x # n =>
              conf'[x] = conf[x] /\ proposed_version'[x] = proposed_version[x]
<1>. Types /\ ConfigInv /\ VersionInv /\ PeersInv
  BY DEF IInv
<1>1. PICK c \in Nodes : c = m.from
  BY RequestFacts
<1>2. /\ c # n /\ m.content = GetVersion(c) /\ c \in ma_writer_list[n]
      /\ GetVersion(c) \in 0 .. 2 /\ GetVersion(c) >= proposed_version[c]
      /\ proposed_version[c] \in Nat
      /\ current_version[n] \in Nat /\ current_version[n] <= 2
      /\ proposed_version[n] \in Nat
  BY <1>1, RequestFacts, VersionNumbers
<1>3. \/ /\ GetVersion(c) > current_version[n]
         /\ conf' = [conf EXCEPT ![n] = GetVersion(c)]
         /\ proposed_version' = [proposed_version EXCEPT ![n] = GetVersion(c)]
      \/ UNCHANGED <<conf, proposed_version>>
  BY <1>2 DEF CheckVersion, GetMembershipVersion
<1>4. Moved' = Moved /\ Core' = Core
  BY DEF Moved, Core
<1>5. \A x \in Nodes : x # n =>
        conf'[x] = conf[x] /\ proposed_version'[x] = proposed_version[x]
  BY <1>3 DEF Types
<1>6. CASE n \in Genesis
  <2>1. VersionOf(n) /\ ~Due(n)
    BY <1>6 DEF VersionInv, VersionOf
  <2>2. n \notin Joiners
    BY <1>6, MembershipAssumption
  <2>3. CASE UNCHANGED <<conf, proposed_version>>
    <3>1. ~Due(n)'
      BY <2>1, <2>3 DEF Due
    <3>. QED
      BY <1>4, <1>5, <2>1, <2>2, <2>3, <3>1 DEF VersionOf
  <2>4. CASE /\ GetVersion(c) > current_version[n]
             /\ conf' = [conf EXCEPT ![n] = GetVersion(c)]
             /\ proposed_version' = [proposed_version EXCEPT ![n] = GetVersion(c)]
    <3>1. conf'[n] = GetVersion(c) /\ proposed_version'[n] = GetVersion(c)
      BY <2>4 DEF Types
    <3>2. current_version[n] < 2
      BY <1>2, <2>4
    <3>3. ma_writer_list[n] = Genesis
      BY <1>2, <2>1, <3>2 DEF VersionOf, Due
    <3>. QED
      BY <1>1, <1>2, <1>5, <2>2, <2>4, <3>1, <3>3 DEF VersionOf
  <2>. QED
    BY <1>3, <2>3, <2>4
<1>7. CASE n \notin Genesis
  <2>1. n \in Joiners /\ n \notin Core
    BY <1>7 DEF Nodes, Core
  <2>2. n \in moving /\ conf[n] = 2 /\ ma_writer_list[n] = Moved
    BY <2>1 DEF ConfigInv, VersionInv, ListOf
  <2>3. c \in Genesis /\ ma_writer_list[c] = Moved
    <3>1. c \in Genesis
      BY <1>2, <2>1, <2>2, OneMover
    <3>. QED
      BY <2>1, <3>1 DEF PeersInv
  <2>4. proposed_version[c] = 2
    <3>1. n \notin Genesis /\ n \in Moved
      BY <1>7, <2>1, <2>2 DEF Moved
    <3>. QED
      BY <1>7, <2>3, <3>1 DEF VersionInv, VersionOf
  <2>5. GetVersion(c) = 2
    BY <1>2, <2>4
  <2>6. conf'[n] = 2
    BY <1>3, <2>2, <2>5 DEF Types
  <2>. QED
    BY <1>5, <1>7, <2>1, <2>6
<1>. QED
  BY <1>6, <1>7

\* The reply to a request: its sender fetches the version first, or fails to.
LEMMA AnswerRequestKeeps ==
  ASSUME IInv, NEW n \in Nodes, AnswerRequest(n)
  PROVE  IInv'
<1>. Types /\ ConfigInv /\ VersionInv /\ PeersInv /\ RoundInv /\ RequestInv
     /\ ReplyInv /\ NumbersInv /\ AnnounceInv
  BY DEF IInv
<1>1. Types'
  BY RoundTypes
<1>2. PICK m \in Requests(n) :
        /\ CheckVersion(n, m.content)
        /\ msgs' = (msgs \ {m}) \cup
                   {Msg("reply", n, c, 0) : c \in {m.from} \cap connected[n]}
  BY DEF AnswerRequest
<1>3. /\ UNCHANGED <<moving, configs, round, numbers, winner, chain,
                     current_version, ma_writer_list, peers, connected,
                     accepting>>
      /\ pc[n] = "await_request" /\ pc'[n] = "await_announce"
      /\ \A x \in Nodes : x # n => pc'[x] = pc[x]
  BY DEF AnswerRequest, roundVars, comVars, Types
<1>4. PICK c \in Nodes :
        /\ c = m.from /\ m \in MsgsOf("request") /\ m.to = n
        /\ c = Coordinator(n) /\ c # n
        /\ pc[c] = "collect" /\ m.round = round[c]
        /\ m.content = GetVersion(c)
        /\ n \in ma_writer_list[c] \ {c}
        /\ n \notin numbers[c]
        /\ \A o \in MsgsOf("reply") : ~(o.from = n /\ o.to = c)
        /\ round[n] # 0 => round[c] = round[n]
        /\ c \in ma_writer_list[n]
  BY <1>3, RequestFacts
<1>5. /\ n \in Genesis => VersionOf(n)'
      /\ n \in Joiners => conf'[n] = 2
      /\ n \in Core /\ Due(n)' => conf'[n] = GetVersion(c)
      /\ \A x \in Nodes : x # n =>
           conf'[x] = conf[x] /\ proposed_version'[x] = proposed_version[x]
  BY <1>2, <1>3, <1>4, CheckVersionFacts, ZenonT(30)
<1>6. ConfigInv' /\ VersionInv' /\ PeersInv'
  BY <1>3, <1>5, RoundFrame
<1>7. /\ MsgsOf("request")' = MsgsOf("request") \ {m}
      /\ MsgsOf("announce")' = MsgsOf("announce")
      /\ MsgsOf("block")' = MsgsOf("block")
      /\ \A o \in MsgsOf("reply") : o \in MsgsOf("reply")'
      /\ \A o \in MsgsOf("reply")' :
           o \in MsgsOf("reply") \/ o = Msg("reply", n, c, 0)
  BY <1>2, <1>4 DEF MsgsOf, Msg
<1>8. ASSUME NEW x \in Nodes, x # n
      PROVE  Same(x)
  BY <1>3, <1>5, <1>8, SameListsOf DEF Same
<1>9. ASSUME NEW x \in Nodes
      PROVE  Coordinator(x)' = Coordinator(x) /\ Coordinator(x) \in Nodes
  BY <1>3, Lists DEF Coordinator
<1>10. \A o \in MsgsOf("announce") : o.to # n
  BY <1>3 DEF AnnounceInv
<1>11. Steady(n)
  BY <1>3, <1>7, <1>8, <1>10 DEF Steady
<1>12. ASSUME NEW x \in Nodes, x # n PROVE Engaged(x)' <=> Engaged(x)
  <2>1. PICK d \in Nodes : d = Coordinator(x) /\ d = Coordinator(x)'
    BY <1>9
  <2>2. Engaged(x) <=> /\ pc[x] = "await_announce" /\ pc[d] = "collect"
                       /\ \/ x \in numbers[d]
                          \/ \E o \in MsgsOf("reply") : o.from = x /\ o.to = d
    BY <2>1 DEF Engaged
  <2>3. Engaged(x)' <=> /\ pc'[x] = "await_announce" /\ pc'[d] = "collect"
                        /\ \/ x \in numbers'[d]
                           \/ \E o \in MsgsOf("reply")' : o.from = x /\ o.to = d
    BY <2>1 DEF Engaged
  <2>4. pc'[d] = "collect" <=> pc[d] = "collect"
    BY <1>3
  <2>5. (\E o \in MsgsOf("reply")' : o.from = x /\ o.to = d)
           <=> \E o \in MsgsOf("reply") : o.from = x /\ o.to = d
    BY <1>7, <1>12 DEF Msg
  <2>6. pc'[x] = pc[x] /\ numbers'[d] = numbers[d]
    BY <1>3, <1>12
  <2>. QED
    BY <2>2, <2>3, <2>4, <2>5, <2>6
<1>13. ASSUME NEW x \in Nodes, Bound(x) PROVE Bound(x)'
  <2>1. x # n
    BY <1>3, <1>13 DEF Bound, Awaiting
  <2>. QED
    BY <1>3, <1>12, <1>13, <2>1 DEF Bound
<1>14. ASSUME NEW l \in Nat, NEW w \in Nodes PROVE Decided(l, w)' <=> Decided(l, w)
  BY <1>3, <1>7 DEF Decided
<1>15. /\ AnnounceInv' /\ BlockInv'
       /\ ChainInv' /\ Agreement' /\ CoreInv' /\ JoinedInv' /\ LeftInv'
       /\ SameListInv'
  BY <1>1, <1>6, <1>11, <1>13, <1>14, SteadyKeeps
<1>16. RoundInv'
  <2>1. RoundOf(n)'
    <3>1. RoundOf(n) /\ Coordinator(n)' # n
      BY <1>4, <1>9 DEF RoundInv
    <3>. QED
      BY <1>3, <3>1 DEF RoundOf, Counting
  <2>. QED
    BY <1>8, <2>1, SameFacts DEF RoundInv
<1>17. RequestInv'
  <2>1. ASSUME NEW q \in MsgsOf("request")' PROVE
          /\ pc'[q.from] = "collect"
          /\ q.round = round'[q.from]
          /\ q.content = GetVersion(q.from)'
          /\ q.to \in ma_writer_list'[q.from] \ {q.from}
          /\ q.to \notin numbers'[q.from]
          /\ \A o \in MsgsOf("reply")' : ~(o.from = q.to /\ o.to = q.from)
    <3>1. q \in MsgsOf("request") /\ q # m
      BY <1>7
    <3>2. PICK a \in Nodes : a = q.from /\ pc[a] = "collect"
      BY <3>1, MsgTypes DEF MsgsOf, RequestInv
    <3>3. a # n
      BY <1>3, <3>2
    <3>4. Same(a) /\ GetVersion(a)' = GetVersion(a)
      BY <1>8, <3>3, SameFacts
    <3>5. ~(q.to = n /\ a = c)
      <4>1. q.round = round[a] /\ q.content = GetVersion(a)
        BY <3>1, <3>2 DEF RequestInv
      <4>2. /\ q = [type |-> "request", round |-> q.round, from |-> q.from,
                    to |-> q.to, content |-> q.content]
            /\ m = [type |-> "request", round |-> m.round, from |-> m.from,
                    to |-> m.to, content |-> m.content]
        BY <1>4, <3>1, MsgTypes DEF MsgsOf
      <4>. QED
        BY <1>4, <3>1, <3>2, <4>1, <4>2
    <3>6. \A o \in MsgsOf("reply")' : ~(o.from = q.to /\ o.to = q.from)
      BY <1>7, <3>1, <3>2, <3>5 DEF RequestInv, Msg
    <3>. QED
      BY <3>1, <3>2, <3>4, <3>6 DEF RequestInv, Same
  <2>. QED
    BY <2>1 DEF RequestInv
<1>18. ASSUME NEW x \in Nodes, NEW d \in Nodes, x # n, d # n, Follows(x, d)
       PROVE  Follows(x, d)'
  <2>1. Same(x) /\ (Due(x)' <=> Due(x)) /\ GetVersion(d)' = GetVersion(d)
    BY <1>8, <1>18, SameFacts
  <2>2. Core' = Core
    BY <1>3 DEF Core
  <2>. QED
    BY <1>18, <2>1, <2>2 DEF Follows, Same
<1>19. ASSUME NEW x PROVE Unannounced(x)' <=> Unannounced(x)
  BY <1>7 DEF Unannounced
<1>20. ReplyInv'
  <2>1. ASSUME NEW o \in MsgsOf("reply")' PROVE
          /\ pc'[o.to] = "collect"
          /\ pc'[o.from] = "await_announce" /\ Coordinator(o.from)' = o.to
          /\ o.round = round'[o.from] /\ o.content = 0
          /\ o.from \in ma_writer_list'[o.to] \ {o.to}
          /\ o.from \notin numbers'[o.to]
          /\ Unannounced(o.from)'
          /\ Follows(o.from, o.to)'
          /\ round'[o.to] = 0 => o.round = 0
          /\ round'[o.to] = o.round => Len(chain'[o.from]) = Len(chain'[o.to])
    <3>1. CASE o \in MsgsOf("reply")
      <4>1. PICK x \in Nodes, d \in Nodes : x = o.from /\ d = o.to
        BY <3>1, MsgTypes DEF MsgsOf
      <4>2. /\ pc[d] = "collect"
            /\ pc[x] = "await_announce" /\ Coordinator(x) = d
            /\ o.round = round[x] /\ o.content = 0
            /\ x \in ma_writer_list[d] \ {d} /\ x \notin numbers[d]
            /\ Unannounced(x) /\ Follows(x, d)
            /\ round[d] = 0 => o.round = 0
            /\ round[d] = o.round => Len(chain[x]) = Len(chain[d])
        BY <3>1, <4>1 DEF ReplyInv
      <4>3. x # n /\ d # n
        BY <1>3, <4>2
      <4>4. Coordinator(x)' = d /\ Unannounced(x)' /\ Follows(x, d)'
        BY <1>9, <1>18, <1>19, <4>2, <4>3
      <4>. QED
        BY <1>3, <4>1, <4>2, <4>3, <4>4
    <3>2. CASE o = Msg("reply", n, c, 0)
      <4>1. o.from = n /\ o.to = c /\ o.round = round[n] /\ o.content = 0
        BY <3>2 DEF Msg
      <4>2. Coordinator(n)' = c /\ Unannounced(n)'
        BY <1>4, <1>9, <1>10, <1>19 DEF Unannounced
      <4>3. Follows(n, c)'
        <5>1. GetVersion(c)' = GetVersion(c) /\ Core' = Core
          BY <1>3, <1>4, <1>8, SameFacts DEF Core
        <5>. QED
          BY <1>5, <5>1 DEF Follows
      <4>4. round[c] = round[n] => Len(chain[n]) = Len(chain[c])
        BY <1>3, <1>4, SameLength
      <4>5. PICK k : k = round[n] /\ k = o.round /\ k = round'[n]
        BY <1>3, <4>1
      <4>6. round'[c] = round[c] /\ chain' = chain /\ numbers' = numbers
            /\ ma_writer_list' = ma_writer_list /\ pc'[c] = "collect"
        BY <1>3, <1>4
      <4>7. round[c] = 0 => k = 0
        BY <1>4, <4>5
      <4>. QED
        BY <1>3, <1>4, <4>1, <4>2, <4>3, <4>4, <4>5, <4>6, <4>7
    <3>. QED
      BY <1>7, <3>1, <3>2
  <2>. QED
    BY <2>1 DEF ReplyInv
<1>21. NumbersInv'
  <2>1. ASSUME NEW d \in Nodes, pc'[d] = "collect"
        PROVE  /\ Follows(d, d)'
               /\ \A x \in numbers'[d] :
                    /\ x \in ma_writer_list'[d] \ {d}
                    /\ pc'[x] = "await_announce" /\ Coordinator(x)' = d
                    /\ round'[x] = round'[d]
                    /\ Len(chain'[x]) = Len(chain'[d])
                    /\ Unannounced(x)'
                    /\ Follows(x, d)'
    <3>1. d # n /\ pc[d] = "collect"
      BY <1>3, <2>1
    <3>2. Follows(d, d)'
      BY <1>18, <3>1 DEF NumbersInv
    <3>3. ASSUME NEW x \in numbers[d] PROVE
            /\ x \in ma_writer_list[d] \ {d}
            /\ pc'[x] = "await_announce" /\ Coordinator(x)' = d
            /\ round[x] = round[d]
            /\ Len(chain[x]) = Len(chain[d])
            /\ Unannounced(x)'
            /\ Follows(x, d)'
      <4>1. x \in Nodes
        BY DEF Types
      <4>2. /\ x \in ma_writer_list[d] \ {d}
            /\ pc[x] = "await_announce" /\ Coordinator(x) = d
            /\ round[x] = round[d]
            /\ Len(chain[x]) = Len(chain[d])
            /\ Unannounced(x)
            /\ Follows(x, d)
        BY <3>1 DEF NumbersInv
      <4>3. x # n
        BY <1>3, <4>2
      <4>. QED
        BY <1>3, <1>9, <1>18, <1>19, <3>1, <4>1, <4>2, <4>3
    <3>. QED
      BY <1>3, <3>2, <3>3
  <2>. QED
    BY <2>1 DEF NumbersInv
<1>. QED
  BY <1>1, <1>6, <1>15, <1>16, <1>17, <1>20, <1>21 DEF IInv

----------------------------------------------------------------------------
(* A reply collected.                                                       *)

\* The coordinator counts a reply.
LEMMA CollectReplyKeeps ==
  ASSUME IInv, NEW n \in Nodes, CollectReply(n)
  PROVE  IInv'
<1>. Types /\ ConfigInv /\ VersionInv /\ PeersInv /\ RoundInv /\ RequestInv
     /\ ReplyInv /\ NumbersInv /\ AnnounceInv
  BY DEF IInv
<1>1. Types'
  BY RoundTypes
<1>2. PICK m \in Receivable(n, "reply") :
        /\ numbers' = [numbers EXCEPT ![n] = @ \cup {m.from}]
        /\ msgs' = msgs \ {m}
  BY DEF CollectReply
<1>3. /\ UNCHANGED <<moving, configs, pc, round, winner, chain, conf,
                     current_version, proposed_version, ma_writer_list, peers,
                     connected, accepting>>
      /\ pc[n] = "collect"
  BY DEF CollectReply, maVars, memberVars, comVars
<1>4. PICK y \in Nodes :
        /\ y = m.from /\ m \in MsgsOf("reply") /\ m.to = n
        /\ (round[n] # 0 => m.round = round[n])
  BY ReceivableFacts DEF IsMsg
<1>5. /\ pc[y] = "await_announce" /\ Coordinator(y) = n
      /\ m.round = round[y] /\ m.content = 0
      /\ y \in ma_writer_list[n] \ {n} /\ y \notin numbers[n]
      /\ Unannounced(y) /\ Follows(y, n)
      /\ round[n] = 0 => m.round = 0
      /\ round[n] = m.round => Len(chain[y]) = Len(chain[n])
  BY <1>4 DEF ReplyInv
<1>6. round[y] = round[n] /\ Len(chain[y]) = Len(chain[n])
  BY <1>4, <1>5
<1>7. numbers'[n] = numbers[n] \cup {y} /\ \A x \in Nodes : x # n => numbers'[x] = numbers[x]
  BY <1>2, <1>4 DEF Types
<1>8. /\ MsgsOf("request")' = MsgsOf("request")
      /\ MsgsOf("reply")' = MsgsOf("reply") \ {m}
      /\ MsgsOf("announce")' = MsgsOf("announce")
      /\ MsgsOf("block")' = MsgsOf("block")
  BY <1>2, <1>4 DEF MsgsOf
<1>9. ASSUME NEW x \in Nodes, x # n PROVE Same(x)
  BY <1>3, <1>7, <1>9, SameListsOf DEF Same
<1>10. ASSUME NEW x \in Nodes
       PROVE  /\ Coordinator(x)' = Coordinator(x) /\ Coordinator(x) \in Nodes
              /\ GetVersion(x)' = GetVersion(x)
              /\ Due(x)' <=> Due(x)
              /\ RoundOf(x)' <=> RoundOf(x)
  <2>1. Coordinator(x)' = Coordinator(x)
    BY <1>3 DEF Coordinator
  <2>2. GetVersion(x)' = GetVersion(x) /\ (Due(x)' <=> Due(x))
    BY <1>3 DEF GetVersion, Due
  <2>3. RoundOf(x)' <=> RoundOf(x)
    BY <1>3, <2>1, <2>2 DEF RoundOf
  <2>. QED
    BY <2>1, <2>2, <2>3, Lists
<1>11. Steady(n)
  <2>1. \A o \in MsgsOf("announce") : o.to # n
    BY <1>3 DEF AnnounceInv
  <2>. QED
    BY <1>3, <1>8, <1>9, <2>1 DEF Steady
<1>12. ASSUME NEW x \in Nodes PROVE Engaged(x)' <=> Engaged(x)
  <2>1. PICK d \in Nodes : d = Coordinator(x) /\ d = Coordinator(x)'
    BY <1>10
  <2>2. Engaged(x) <=> /\ pc[x] = "await_announce" /\ pc[d] = "collect"
                       /\ \/ x \in numbers[d]
                          \/ \E o \in MsgsOf("reply") : o.from = x /\ o.to = d
    BY <2>1 DEF Engaged
  <2>3. Engaged(x)' <=> /\ pc'[x] = "await_announce" /\ pc'[d] = "collect"
                        /\ \/ x \in numbers'[d]
                           \/ \E o \in MsgsOf("reply")' : o.from = x /\ o.to = d
    BY <2>1 DEF Engaged
  <2>4. (x \in numbers'[d] \/ \E o \in MsgsOf("reply")' : o.from = x /\ o.to = d)
          <=> (x \in numbers[d] \/ \E o \in MsgsOf("reply") : o.from = x /\ o.to = d)
    <3>1. CASE x = y /\ d = n
      BY <1>4, <1>7, <3>1
    <3>2. CASE ~(x = y /\ d = n)
      <4>1. \A o \in MsgsOf("reply") : o.from = x /\ o.to = d => o # m
        BY <1>4, <3>2
      <4>2. x \in numbers'[d] <=> x \in numbers[d]
        BY <1>7, <3>2
      <4>. QED
        BY <1>8, <4>1, <4>2
    <3>. QED
      BY <3>1, <3>2
  <2>5. pc' = pc
    BY <1>3
  <2>. QED
    BY <2>2, <2>3, <2>4, <2>5
<1>13. ASSUME NEW x \in Nodes, Bound(x) PROVE Bound(x)'
  BY <1>3, <1>12, <1>13 DEF Bound
<1>14. ASSUME NEW l \in Nat, NEW w \in Nodes PROVE Decided(l, w)' <=> Decided(l, w)
  BY <1>3, <1>8 DEF Decided
<1>15. ConfigInv' /\ VersionInv' /\ PeersInv'
  <2>1. n \in Genesis => VersionOf(n)'
    <3>1. n \in Genesis => VersionOf(n)
      BY DEF VersionInv
    <3>2. Moved' = Moved
      BY <1>3 DEF Moved, Core
    <3>. QED
      BY <1>3, <1>10, <3>1, <3>2 DEF VersionOf
  <2>2. n \in Joiners => conf'[n] = 2
    BY <1>3 DEF VersionInv, ListOf
  <2>. QED
    BY <1>3, <2>1, <2>2, RoundFrame
<1>16. /\ AnnounceInv' /\ BlockInv'
       /\ ChainInv' /\ Agreement' /\ CoreInv' /\ JoinedInv' /\ LeftInv'
       /\ SameListInv'
  BY <1>1, <1>11, <1>13, <1>14, <1>15, SteadyKeeps
<1>17. RoundInv'
  BY <1>10 DEF RoundInv
<1>18. ASSUME NEW x \in Nodes, NEW d \in Nodes PROVE Follows(x, d)' <=> Follows(x, d)
  <2>1. Core' = Core
    BY <1>3 DEF Core
  <2>. QED
    BY <1>3, <1>10, <2>1 DEF Follows
<1>19. ASSUME NEW x PROVE Unannounced(x)' <=> Unannounced(x)
  BY <1>8 DEF Unannounced
<1>20. RequestInv'
  <2>1. ASSUME NEW q \in MsgsOf("request") PROVE
          /\ pc[q.from] = "collect"
          /\ q.round = round[q.from]
          /\ q.content = GetVersion(q.from)'
          /\ q.to \in ma_writer_list[q.from] \ {q.from}
          /\ q.to \notin numbers'[q.from]
          /\ \A o \in MsgsOf("reply") : ~(o.from = q.to /\ o.to = q.from)
    <3>1. q.from \in Nodes
      BY MsgTypes DEF MsgsOf
    <3>2. ~(q.from = n /\ q.to = y)
      BY <1>4 DEF RequestInv
    <3>3. q.to \notin numbers'[q.from]
      BY <1>7, <3>1, <3>2 DEF RequestInv
    <3>. QED
      BY <1>10, <3>1, <3>3 DEF RequestInv
  <2>. QED
    BY <1>3, <1>8, <2>1 DEF RequestInv
<1>21. ReplyInv'
  <2>1. ASSUME NEW o \in MsgsOf("reply"), o # m PROVE
          /\ pc[o.to] = "collect"
          /\ pc[o.from] = "await_announce" /\ Coordinator(o.from)' = o.to
          /\ o.round = round[o.from] /\ o.content = 0
          /\ o.from \in ma_writer_list[o.to] \ {o.to}
          /\ o.from \notin numbers'[o.to]
          /\ Unannounced(o.from)'
          /\ Follows(o.from, o.to)'
          /\ round[o.to] = 0 => o.round = 0
          /\ round[o.to] = o.round => Len(chain[o.from]) = Len(chain[o.to])
    <3>1. PICK x \in Nodes, d \in Nodes : x = o.from /\ d = o.to
      BY <2>1, MsgTypes DEF MsgsOf
    <3>2. /\ pc[d] = "collect"
          /\ pc[x] = "await_announce" /\ Coordinator(x) = d
          /\ o.round = round[x] /\ o.content = 0
          /\ x \in ma_writer_list[d] \ {d} /\ x \notin numbers[d]
          /\ Unannounced(x) /\ Follows(x, d)
          /\ round[d] = 0 => o.round = 0
          /\ round[d] = o.round => Len(chain[x]) = Len(chain[d])
      BY <3>1 DEF ReplyInv
    <3>3. ~(x = y /\ d = n)
      <4>1. /\ o = [type |-> "reply", round |-> o.round, from |-> o.from,
                    to |-> o.to, content |-> o.content]
            /\ m = [type |-> "reply", round |-> m.round, from |-> m.from,
                    to |-> m.to, content |-> m.content]
        BY <1>4, MsgTypes DEF MsgsOf
      <4>. QED
        BY <1>4, <1>5, <2>1, <3>1, <3>2, <4>1
    <3>4. x \notin numbers'[d]
      BY <1>7, <3>2, <3>3
    <3>5. Coordinator(x)' = d /\ Unannounced(x)' /\ Follows(x, d)'
      BY <1>10, <1>18, <1>19, <3>2
    <3>. QED
      BY <3>1, <3>2, <3>4, <3>5
  <2>. QED
    BY <1>3, <1>8, <2>1 DEF ReplyInv
<1>22. NumbersInv'
  <2>1. ASSUME NEW d \in Nodes, pc[d] = "collect"
        PROVE  /\ Follows(d, d)'
               /\ \A x \in numbers'[d] :
                    /\ x \in ma_writer_list[d] \ {d}
                    /\ pc[x] = "await_announce" /\ Coordinator(x)' = d
                    /\ round[x] = round[d]
                    /\ Len(chain[x]) = Len(chain[d])
                    /\ Unannounced(x)'
                    /\ Follows(x, d)'
    <3>1. Follows(d, d)'
      BY <1>18, <2>1 DEF NumbersInv
    <3>2. ASSUME NEW x \in numbers'[d] PROVE
            /\ x \in Nodes
            /\ x \in ma_writer_list[d] \ {d}
            /\ pc[x] = "await_announce" /\ Coordinator(x) = d
            /\ round[x] = round[d]
            /\ Len(chain[x]) = Len(chain[d])
            /\ Unannounced(x)
            /\ Follows(x, d)
      <4>1. CASE x \in numbers[d]
        BY <2>1, <4>1 DEF NumbersInv, Types
      <4>2. CASE x \notin numbers[d]
        <5>1. x = y /\ d = n
          BY <1>7, <3>2, <4>2
        <5>. QED
          BY <1>5, <1>6, <5>1
      <4>. QED
        BY <4>1, <4>2
    <3>3. ASSUME NEW x \in numbers'[d] PROVE
            Coordinator(x)' = d /\ Unannounced(x)' /\ Follows(x, d)'
      BY <1>10, <1>18, <1>19, <3>2
    <3>. QED
      BY <3>1, <3>2, <3>3
  <2>. QED
    BY <1>3, <2>1 DEF NumbersInv
<1>. QED
  BY <1>1, <1>15, <1>16, <1>17, <1>20, <1>21, <1>22 DEF IInv

----------------------------------------------------------------------------
(* An announcement taken.                                                   *)

\* There is one announcement to a node at a time.
LEMMA OneAnnouncement ==
  ASSUME IInv, NEW m \in MsgsOf("announce"), NEW o \in MsgsOf("announce"),
         o.to = m.to
  PROVE  o = m
<1>. Types /\ AnnounceInv /\ Agreement
  BY DEF IInv
<1>1. PICK n \in Nodes : n = m.to
  BY MsgTypes DEF MsgsOf
<1>2. PICK l \in Nat : l = Len(chain[n])
  BY ChainType
<1>3. Decided(l, m.content) /\ Decided(l, o.content)
  BY <1>1, <1>2 DEF Decided
<1>4. /\ m.content \in Nodes /\ o.content \in Nodes
      /\ m.from = o.from /\ m.round = o.round
  BY DEF AnnounceInv
<1>5. m.content = o.content
  BY <1>3, <1>4 DEF Agreement
<1>6. /\ o = [type |-> "announce", round |-> o.round, from |-> o.from,
              to |-> o.to, content |-> o.content]
      /\ m = [type |-> "announce", round |-> m.round, from |-> m.from,
              to |-> m.to, content |-> m.content]
  BY MsgTypes DEF MsgsOf
<1>. QED
  BY <1>4, <1>5, <1>6

\* TakeAnnouncement by a node that is not the winner.
Lose(n, m) ==
  /\ winner' = [winner EXCEPT ![n] = m.content]
  /\ msgs' = msgs \ {m}
  /\ pc' = [pc EXCEPT ![n] = "await_block"]
  /\ UNCHANGED <<chain, round>>

LEMMA LoseKeeps ==
  ASSUME IInv, Types', NEW n \in Nodes, pc[n] = "await_announce",
         NEW m \in Receivable(n, "announce"), Lose(n, m),
         UNCHANGED <<maVars, numbers, memberVars, comVars, in_sync>>
  PROVE  IInv'
<1>. Types /\ ConfigInv /\ VersionInv /\ PeersInv /\ RoundInv /\ RequestInv
     /\ ReplyInv /\ NumbersInv /\ AnnounceInv
  BY DEF IInv
<1>1. m \in MsgsOf("announce") /\ m.to = n
  BY ReceivableFacts
<1>2. /\ UNCHANGED <<moving, configs, round, numbers, chain, conf,
                     current_version, proposed_version, ma_writer_list, peers,
                     connected, accepting>>
      /\ pc'[n] = "await_block" /\ winner'[n] = m.content
      /\ \A x \in Nodes : x # n => pc'[x] = pc[x] /\ winner'[x] = winner[x]
  BY DEF Lose, maVars, memberVars, comVars, Types
<1>3. /\ MsgsOf("request")' = MsgsOf("request")
      /\ MsgsOf("reply")' = MsgsOf("reply")
      /\ MsgsOf("announce")' = MsgsOf("announce") \ {m}
      /\ MsgsOf("block")' = MsgsOf("block")
  BY <1>1 DEF Lose, MsgsOf
<1>4. ~Unannounced(n) /\ m.content \in Nodes /\ ~Engaged(n)
  BY <1>1 DEF Unannounced, AnnounceInv
<1>5. \A o \in MsgsOf("announce")' : o.to # n
  BY <1>1, <1>3, OneAnnouncement
<1>6. ASSUME NEW x \in Nodes, x # n PROVE Same(x)
  BY <1>2, <1>6, SameListsOf DEF Same
<1>7. ASSUME NEW x \in Nodes
      PROVE  /\ Coordinator(x)' = Coordinator(x) /\ Coordinator(x) \in Nodes
             /\ GetVersion(x)' = GetVersion(x)
             /\ Due(x)' <=> Due(x)
  <2>1. Coordinator(x)' = Coordinator(x)
    BY <1>2 DEF Coordinator
  <2>2. GetVersion(x)' = GetVersion(x) /\ (Due(x)' <=> Due(x))
    BY <1>2 DEF GetVersion, Due
  <2>. QED
    BY <2>1, <2>2, Lists
<1>8. Steady(n)
  BY <1>2, <1>3, <1>4, <1>5, <1>6 DEF Steady
<1>9. ASSUME NEW x \in Nodes PROVE Bound(x) => Bound(x)'
  <2>1. CASE x = n
    BY <1>2, <2>1 DEF Bound, Awaiting, Engaged
  <2>2. CASE x # n
    <3>1. PICK d \in Nodes : d = Coordinator(x) /\ d = Coordinator(x)'
      BY <1>7
    <3>2. Engaged(x) <=> /\ pc[x] = "await_announce" /\ pc[d] = "collect"
                         /\ \/ x \in numbers[d]
                            \/ \E o \in MsgsOf("reply") : o.from = x /\ o.to = d
      BY <3>1 DEF Engaged
    <3>3. Engaged(x)' <=> /\ pc'[x] = "await_announce" /\ pc'[d] = "collect"
                          /\ \/ x \in numbers'[d]
                             \/ \E o \in MsgsOf("reply")' : o.from = x /\ o.to = d
      BY <3>1 DEF Engaged
    <3>4. pc'[d] = "collect" <=> pc[d] = "collect"
      BY <1>2
    <3>5. pc'[x] = pc[x] /\ numbers' = numbers
      BY <1>2, <2>2
    <3>6. Engaged(x)' <=> Engaged(x)
      BY <1>3, <3>2, <3>3, <3>4, <3>5
    <3>. QED
      BY <3>5, <3>6 DEF Bound
  <2>. QED
    BY <2>1, <2>2
<1>10. ASSUME NEW l \in Nat, NEW w \in Nodes PROVE Decided(l, w)' <=> Decided(l, w)
  <2>1. ASSUME Decided(l, w) PROVE Decided(l, w)'
    <3>1. CASE \E x \in Nodes : Len(chain[x]) > l /\ chain[x][l + 1][1] = w
      BY <1>2, <3>1 DEF Decided
    <3>2. CASE \E x \in Nodes :
                 pc[x] = "await_block" /\ Len(chain[x]) = l /\ winner[x] = w
      <4>1. PICK x \in Nodes :
              pc[x] = "await_block" /\ Len(chain[x]) = l /\ winner[x] = w
        BY <3>2
      <4>2. x # n
        BY <4>1
      <4>. QED
        BY <1>2, <4>1, <4>2 DEF Decided
    <3>3. CASE \E o \in MsgsOf("announce") : Len(chain[o.to]) = l /\ o.content = w
      <4>1. PICK o \in MsgsOf("announce") : Len(chain[o.to]) = l /\ o.content = w
        BY <3>3
      <4>2. CASE o = m
        <5>1. pc'[n] = "await_block" /\ Len(chain'[n]) = l /\ winner'[n] = w
          BY <1>1, <1>2, <4>1, <4>2
        <5>. QED
          BY <5>1 DEF Decided
      <4>3. CASE o # m
        BY <1>2, <1>3, <4>1, <4>3 DEF Decided
      <4>. QED
        BY <4>2, <4>3
    <3>. QED
      BY <2>1, <3>1, <3>2, <3>3 DEF Decided
  <2>2. ASSUME Decided(l, w)' PROVE Decided(l, w)
    <3>1. CASE \E x \in Nodes : Len(chain[x]) > l /\ chain[x][l + 1][1] = w
      BY <3>1 DEF Decided
    <3>2. CASE \E x \in Nodes :
                 pc'[x] = "await_block" /\ Len(chain[x]) = l /\ winner'[x] = w
      <4>1. PICK x \in Nodes :
              pc'[x] = "await_block" /\ Len(chain[x]) = l /\ winner'[x] = w
        BY <3>2
      <4>. QED
        BY <1>1, <1>2, <4>1 DEF Decided
    <3>3. CASE \E o \in MsgsOf("announce")' : Len(chain[o.to]) = l /\ o.content = w
      BY <1>3, <3>3 DEF Decided
    <3>. QED
      BY <1>2, <2>2, <3>1, <3>2, <3>3 DEF Decided
  <2>. QED
    BY <2>1, <2>2
<1>11. Moved' = Moved /\ Core' = Core
  BY <1>2 DEF Moved, Core
<1>12. ConfigInv' /\ VersionInv' /\ PeersInv'
  <2>1. n \in Genesis => VersionOf(n)'
    <3>1. n \in Genesis => VersionOf(n)
      BY DEF VersionInv
    <3>. QED
      BY <1>2, <1>7, <1>11, <3>1 DEF VersionOf
  <2>2. n \in Joiners => conf'[n] = 2
    BY <1>2 DEF VersionInv, ListOf
  <2>. QED
    BY <1>2, <2>1, <2>2, RoundFrame
<1>13. /\ AnnounceInv' /\ BlockInv'
       /\ ChainInv' /\ Agreement' /\ CoreInv' /\ JoinedInv' /\ LeftInv'
       /\ SameListInv'
  BY <1>8, <1>9, <1>10, <1>12, SteadyKeeps
<1>14. RoundInv'
  <2>1. RoundOf(n)'
    <3>1. RoundOf(n)
      BY DEF RoundInv
    <3>. QED
      BY <1>2, <3>1 DEF RoundOf, Counting
  <2>. QED
    BY <1>6, <2>1, SameFacts DEF RoundInv
<1>15. RequestInv'
  <2>1. ASSUME NEW q \in MsgsOf("request") PROVE
          /\ pc'[q.from] = "collect"
          /\ q.round = round[q.from]
          /\ q.content = GetVersion(q.from)'
          /\ q.to \in ma_writer_list[q.from] \ {q.from}
          /\ q.to \notin numbers[q.from]
          /\ \A o \in MsgsOf("reply") : ~(o.from = q.to /\ o.to = q.from)
    <3>1. q.from \in Nodes
      BY MsgTypes DEF MsgsOf
    <3>. QED
      BY <1>2, <1>7, <3>1 DEF RequestInv
  <2>. QED
    BY <1>2, <1>3, <2>1 DEF RequestInv
<1>16. ASSUME NEW x \in Nodes, NEW d \in Nodes PROVE Follows(x, d)' <=> Follows(x, d)
  BY <1>2, <1>7, <1>11 DEF Follows
<1>17. ASSUME NEW x, Unannounced(x) PROVE Unannounced(x)'
  BY <1>3, <1>17 DEF Unannounced
<1>18. ReplyInv'
  <2>1. ASSUME NEW o \in MsgsOf("reply") PROVE
          /\ pc'[o.to] = "collect"
          /\ pc'[o.from] = "await_announce" /\ Coordinator(o.from)' = o.to
          /\ o.round = round[o.from] /\ o.content = 0
          /\ o.from \in ma_writer_list[o.to] \ {o.to}
          /\ o.from \notin numbers[o.to]
          /\ Unannounced(o.from)'
          /\ Follows(o.from, o.to)'
          /\ round[o.to] = 0 => o.round = 0
          /\ round[o.to] = o.round => Len(chain[o.from]) = Len(chain[o.to])
    <3>1. PICK x \in Nodes, d \in Nodes : x = o.from /\ d = o.to
      BY <2>1, MsgTypes DEF MsgsOf
    <3>2. /\ pc[d] = "collect"
          /\ pc[x] = "await_announce" /\ Coordinator(x) = d
          /\ o.round = round[x] /\ o.content = 0
          /\ x \in ma_writer_list[d] \ {d} /\ x \notin numbers[d]
          /\ Unannounced(x) /\ Follows(x, d)
          /\ round[d] = 0 => o.round = 0
          /\ round[d] = o.round => Len(chain[x]) = Len(chain[d])
      BY <3>1 DEF ReplyInv
    <3>3. x # n /\ d # n
      BY <1>4, <3>2
    <3>4. Coordinator(x)' = d /\ Unannounced(x)' /\ Follows(x, d)'
      BY <1>7, <1>16, <1>17, <3>2
    <3>5. pc'[x] = pc[x] /\ pc'[d] = pc[d]
      BY <1>2, <3>3
    <3>. QED
      BY <3>1, <3>2, <3>4, <3>5
  <2>. QED
    BY <1>2, <1>3, <2>1 DEF ReplyInv
<1>19. NumbersInv'
  <2>1. ASSUME NEW d \in Nodes, pc'[d] = "collect"
        PROVE  /\ Follows(d, d)'
               /\ \A x \in numbers[d] :
                    /\ x \in ma_writer_list[d] \ {d}
                    /\ pc'[x] = "await_announce" /\ Coordinator(x)' = d
                    /\ round[x] = round[d]
                    /\ Len(chain[x]) = Len(chain[d])
                    /\ Unannounced(x)'
                    /\ Follows(x, d)'
    <3>1. d # n /\ pc[d] = "collect"
      BY <1>2, <2>1
    <3>2. Follows(d, d)'
      BY <1>16, <3>1 DEF NumbersInv
    <3>3. ASSUME NEW x \in numbers[d] PROVE
            /\ x \in ma_writer_list[d] \ {d}
            /\ pc'[x] = "await_announce" /\ Coordinator(x)' = d
            /\ round[x] = round[d]
            /\ Len(chain[x]) = Len(chain[d])
            /\ Unannounced(x)'
            /\ Follows(x, d)'
      <4>1. /\ x \in Nodes
            /\ x \in ma_writer_list[d] \ {d}
            /\ pc[x] = "await_announce" /\ Coordinator(x) = d
            /\ round[x] = round[d]
            /\ Len(chain[x]) = Len(chain[d])
            /\ Unannounced(x)
            /\ Follows(x, d)
        BY <3>1 DEF NumbersInv, Types
      <4>2. x # n
        BY <1>4, <4>1
      <4>. QED
        BY <1>2, <1>7, <1>16, <1>17, <4>1, <4>2
    <3>. QED
      BY <3>2, <3>3
  <2>. QED
    BY <1>2, <2>1 DEF NumbersInv
<1>. QED
  BY <1>12, <1>13, <1>14, <1>15, <1>18, <1>19 DEF IInv

----------------------------------------------------------------------------
(* A winner announced.                                                      *)

\* All that the coordinator lists have replied.
LEMMA AllReplied ==
  ASSUME IInv, NEW c \in Nodes, pc[c] = "collect",
         Cardinality(numbers[c]) >= RepliesNeeded(c)
  PROVE  /\ numbers[c] = ma_writer_list[c] \ {c}
         /\ c \in ma_writer_list[c] /\ Coordinator(c) = c
<1>. Types /\ ConfigInv /\ VersionInv /\ RoundInv /\ NumbersInv
  BY DEF IInv
<1>1. Coordinator(c) = c /\ c \in ma_writer_list[c]
        /\ ma_writer_list[c] \in SUBSET Nodes
  BY Lists DEF RoundInv, RoundOf
<1>2. numbers[c] \in SUBSET (ma_writer_list[c] \ {c})
  BY DEF NumbersInv
<1>. DEFINE L == ma_writer_list[c]
            M == L \ {c}
<1>3. IsFiniteSet(L) /\ IsFiniteSet(M)
  BY <1>1, Ids, FS_Subset
<1>4. Cardinality(M) = Cardinality(L) - 1 /\ Cardinality(L) \in Nat
  BY <1>1, <1>3, FS_RemoveElement, FS_CardinalityType
<1>5. Cardinality(numbers[c]) >= Cardinality(M)
  BY <1>4 DEF RepliesNeeded
<1>. HIDE DEF L
<1>6. numbers[c] = M
  <2>1. numbers[c] \in SUBSET M
    BY <1>2 DEF L
  <2>. HIDE DEF M
  <2>2. Cardinality(numbers[c]) \in Nat /\ Cardinality(M) \in Nat
        /\ Cardinality(numbers[c]) <= Cardinality(M)
    BY <1>3, <2>1, FS_Subset, FS_CardinalityType
  <2>3. Cardinality(numbers[c]) = Cardinality(M)
    BY <1>5, <2>2
  <2>. QED
    BY <1>3, <2>1, <2>3, FS_Subset
<1>. QED
  BY <1>1, <1>6 DEF L

\* Those whom a replier lists the coordinator lists, too.
LEMMA RepliersLists ==
  ASSUME IInv, NEW c \in Nodes, pc[c] = "collect", NEW t \in numbers[c]
  PROVE  ma_writer_list[t] \subseteq ma_writer_list[c]
<1>. Types /\ ConfigInv /\ VersionInv /\ NumbersInv /\ RoundInv /\ SameListInv
  BY DEF IInv
<1>1. /\ t \in Nodes /\ t \in ma_writer_list[c] /\ t # c
      /\ pc[t] = "await_announce"
      /\ round[t] = round[c] /\ Len(chain[t]) = Len(chain[c])
  BY DEF NumbersInv, Types
<1>2. /\ ma_writer_list[t] \in {Genesis, Moved}
      /\ ma_writer_list[c] \in {Genesis, Moved}
      /\ c \in ma_writer_list[c]
  <2>1. Coordinator(c) = c
    BY DEF RoundInv, RoundOf
  <2>. QED
    BY <1>1, <2>1, Lists
<1>3. CASE c \in Core /\ t \in Core
  <2>1. /\ NowRound(c) = round[c] /\ NowRound(t) = round[t]
        /\ NowList(c) = ma_writer_list[c] /\ NowList(t) = ma_writer_list[t]
    BY <1>1 DEF NowRound, NowList, Changes
  <2>. QED
    BY <1>1, <1>3, <2>1 DEF SameListInv
<1>4. CASE \E h \in {c, t} : h \notin Core
  <2>1. PICK h \in {c, t} : h \notin Core
    BY <1>4
  <2>2. h \in Nodes /\ h \in ma_writer_list[c]
    BY <1>1, <1>2, <2>1
  <2>3. pc[h] # "off"
    BY <1>1, <2>1
  <2>4. h \in moving
    BY <2>1, <2>2, <2>3, Running DEF Core
  <2>5. CASE h \in Genesis
    <3>1. Moved = Core /\ Core \subseteq Genesis
      BY <2>4, <2>5, OneMover, CoreNotEmpty
    <3>2. ma_writer_list[c] = Genesis
      BY <1>2, <2>1, <2>2, <3>1
    <3>. QED
      BY <1>2, <3>1, <3>2
  <2>6. CASE h \notin Genesis
    <3>1. Moved = Genesis \cup {h}
      BY <2>2, <2>4, <2>6, OneMover DEF Nodes
    <3>2. ma_writer_list[c] = Moved
      BY <1>2, <2>2, <2>6
    <3>. QED
      BY <1>2, <3>1, <3>2
  <2>. QED
    BY <2>5, <2>6
<1>. QED
  BY <1>3, <1>4

\* Nothing was decided yet, and nobody that works on a block but a node that
\* leaves is left out.
LEMMA CollectedFacts ==
  ASSUME IInv, NEW c \in Nodes, pc[c] = "collect",
         numbers[c] = ma_writer_list[c] \ {c}, c \in ma_writer_list[c]
  PROVE  /\ \A l \in Nat : Taken(l) => l < Len(chain[c])
         /\ Core \subseteq ma_writer_list[c]
         /\ \A h \in Joiners : pc[h] \in Counting => h \in ma_writer_list[c]
<1>. Types /\ ConfigInv /\ VersionInv /\ PeersInv /\ NumbersInv /\ CoreInv
  BY DEF IInv
<1>1. Core \subseteq ma_writer_list[c]
  BY Lists
<1>2. ASSUME NEW l \in Nat, Taken(l) PROVE l < Len(chain[c])
  <2>1. PICK y \in Core : TRUE
    BY CoreNotEmpty
  <2>2. y \in Nodes /\ UpToDate(y)
    BY CoreNotEmpty DEF CoreInv
  <2>3. Len(chain[y]) = Len(chain[c]) /\ ~Bound(y)
    <3>1. CASE y = c
      BY <3>1 DEF Bound, Awaiting
    <3>2. CASE y # c
      <4>1. y \in numbers[c]
        BY <1>1, <2>1, <3>2
      <4>2. /\ pc[y] = "await_announce" /\ Coordinator(y) = c
            /\ Len(chain[y]) = Len(chain[c])
        BY <4>1 DEF NumbersInv
      <4>3. Engaged(y)
        BY <4>1, <4>2 DEF Engaged
      <4>. QED
        BY <4>2, <4>3 DEF Bound
    <3>. QED
      BY <3>1, <3>2
  <2>4. Len(chain[c]) \in Nat
    BY ChainType
  <2>5. l <= Len(chain[c]) /\ l # Len(chain[c])
    BY <1>2, <2>2, <2>3 DEF UpToDate
  <2>. QED
    BY <2>4, <2>5
<1>3. ASSUME NEW h \in Joiners, pc[h] \in Counting PROVE h \in ma_writer_list[c]
  <2>1. h \in moving
    BY <1>3 DEF ConfigInv, Counting
  <2>2. Moved = Genesis \cup {h}
    BY <1>3, <2>1, OneMover
  <2>3. CASE c \in Genesis
    <3>1. pc[h] \notin {"off", "fetch", "join"}
      BY <1>3 DEF Counting
    <3>2. ma_writer_list[c] = Moved
      BY <2>3, <3>1 DEF PeersInv
    <3>. QED
      BY <2>2, <3>2
  <2>4. CASE c \notin Genesis
    BY <2>1, <2>4, Running DEF ConfigInv
  <2>. QED
    BY <2>3, <2>4
<1>. QED
  BY <1>1, <1>2, <1>3

\* The coordinator decides.
LEMMA AnnounceWinnerKeeps ==
  ASSUME IInv, NEW c \in Nodes, AnnounceWinner(c)
  PROVE  IInv'
<1>. Types /\ ConfigInv /\ VersionInv /\ PeersInv /\ RoundInv /\ RequestInv
     /\ ReplyInv /\ NumbersInv /\ AnnounceInv /\ BlockInv /\ ChainInv
     /\ Agreement /\ CoreInv /\ JoinedInv /\ LeftInv /\ SameListInv
  BY DEF IInv
<1>1. Types'
  BY RoundTypes
<1>2. PICK w \in numbers[c] \cap ma_writer_list[c] :
        /\ winner' = [winner EXCEPT ![c] = w]
        /\ msgs' = msgs \cup Broadcast("announce", c, w)
  BY DEF AnnounceWinner
<1>3. /\ UNCHANGED <<moving, configs, round, numbers, chain, conf,
                     current_version, proposed_version, ma_writer_list, peers,
                     connected, accepting>>
      /\ pc[c] = "collect" /\ pc'[c] = "await_block" /\ winner'[c] = w
      /\ \A x \in Nodes : x # c => pc'[x] = pc[x] /\ winner'[x] = winner[x]
      /\ Cardinality(numbers[c]) >= RepliesNeeded(c)
  BY <1>2 DEF AnnounceWinner, maVars, memberVars, comVars, Types
<1>4. /\ numbers[c] = ma_writer_list[c] \ {c}
      /\ c \in ma_writer_list[c] /\ Coordinator(c) = c
  BY <1>3, AllReplied
<1>5. /\ \A l \in Nat : Taken(l) => l < Len(chain[c])
      /\ Core \subseteq ma_writer_list[c]
      /\ \A h \in Joiners : pc[h] \in Counting => h \in ma_writer_list[c]
  BY <1>3, <1>4, CollectedFacts
<1>6. w \in Nodes /\ w \in numbers[c]
  BY DEF Types
<1>7. PICK k \in Nat : k = Len(chain[c])
  BY ChainType
<1>8. Follows(c, c)
  BY <1>3 DEF NumbersInv
<1>9. ASSUME NEW x \in numbers[c]
      PROVE  /\ x \in Nodes /\ x # c
             /\ pc[x] = "await_announce" /\ Coordinator(x) = c
             /\ round[x] = round[c] /\ Len(chain[x]) = k
             /\ Unannounced(x) /\ Follows(x, c)
             /\ ma_writer_list[x] \subseteq ma_writer_list[c]
  BY <1>3, <1>7, RepliersLists DEF NumbersInv, Types
<1>10. \A m \in MsgsOf("reply") : m.to # c
  <2>1. ASSUME NEW m \in MsgsOf("reply"), m.to = c PROVE FALSE
    BY <1>4, <2>1 DEF ReplyInv
  <2>. QED
    BY <2>1
<1>11. \A m \in MsgsOf("request") : m.from # c
  <2>1. ASSUME NEW m \in MsgsOf("request"), m.from = c PROVE FALSE
    BY <1>4, <2>1 DEF RequestInv
  <2>. QED
    BY <2>1
<1>12. /\ MsgsOf("request")' = MsgsOf("request")
       /\ MsgsOf("reply")' = MsgsOf("reply")
       /\ MsgsOf("block")' = MsgsOf("block")
       /\ \A m \in MsgsOf("announce") : m \in MsgsOf("announce")'
       /\ \A m \in MsgsOf("announce")' :
            \/ m \in MsgsOf("announce")
            \/ /\ m.from = c /\ m.to \in numbers[c] /\ m.content = w
               /\ m.round = round[c]
  <2>1. connected[c] \subseteq numbers[c]
    BY <1>4 DEF PeersInv
  <2>2. \A m \in Broadcast("announce", c, w) :
          /\ m.type = "announce" /\ m.from = c /\ m.to \in numbers[c]
          /\ m.content = w /\ m.round = round[c]
    BY <2>1 DEF Broadcast, Msg
  <2>. QED
    BY <1>2, <2>2 DEF MsgsOf
<1>13. ASSUME NEW x \in Nodes, x # c PROVE Same(x)
  BY <1>3, <1>13, SameListsOf DEF Same
<1>14. ASSUME NEW x \in Nodes
       PROVE  /\ Coordinator(x)' = Coordinator(x) /\ Coordinator(x) \in Nodes
              /\ GetVersion(x)' = GetVersion(x)
              /\ Due(x)' <=> Due(x)
              /\ ListsOf(x)' = ListsOf(x)
  <2>1. Coordinator(x)' = Coordinator(x)
    BY <1>3 DEF Coordinator
  <2>2. GetVersion(x)' = GetVersion(x) /\ (Due(x)' <=> Due(x))
        /\ ListsOf(x)' = ListsOf(x)
    BY <1>3 DEF GetVersion, Due, ListsOf
  <2>. QED
    BY <2>1, <2>2, Lists
\* Who is engaged was engaged, by another coordinator.
<1>15. ASSUME NEW x \in Nodes, Engaged(x)'
       PROVE  Engaged(x) /\ Coordinator(x) # c
  <2>1. PICK d \in Nodes : d = Coordinator(x) /\ d = Coordinator(x)'
    BY <1>14
  <2>2. Engaged(x) <=> /\ pc[x] = "await_announce" /\ pc[d] = "collect"
                       /\ \/ x \in numbers[d]
                          \/ \E o \in MsgsOf("reply") : o.from = x /\ o.to = d
    BY <2>1 DEF Engaged
  <2>3. Engaged(x)' <=> /\ pc'[x] = "await_announce" /\ pc'[d] = "collect"
                        /\ \/ x \in numbers'[d]
                           \/ \E o \in MsgsOf("reply")' : o.from = x /\ o.to = d
    BY <2>1 DEF Engaged
  <2>4. d # c /\ x # c
    BY <1>3, <1>15, <2>3
  <2>. QED
    BY <1>3, <1>12, <1>15, <2>1, <2>2, <2>3, <2>4
<1>16. ASSUME NEW x \in Nodes, Bound(x) PROVE Bound(x)'
  BY <1>3, <1>15, <1>16 DEF Bound, Awaiting
<1>17. ASSUME NEW x \in ma_writer_list[c] PROVE x \in Nodes /\ Bound(x)' /\ Len(chain[x]) = k
  <2>1. CASE x = c
    BY <1>3, <1>7, <2>1 DEF Bound, Awaiting, Engaged
  <2>2. CASE x # c
    <3>1. x \in numbers[c]
      BY <1>4, <2>2
    <3>2. pc'[x] \in Awaiting
      BY <1>3, <1>9, <2>2, <3>1 DEF Awaiting
    <3>3. ~Engaged(x)'
      BY <1>9, <1>15, <3>1
    <3>. QED
      BY <1>9, <3>1, <3>2, <3>3 DEF Bound
  <2>. QED
    BY <2>1, <2>2
<1>18. Moved' = Moved /\ Core' = Core
  BY <1>3 DEF Moved, Core
\* Only this is decided, at a height that is nobody's before.
<1>19. ASSUME NEW l \in Nat, NEW v
       PROVE  Decided(l, v)' <=> Decided(l, v) \/ (l = k /\ v = w)
  <2>1. ASSUME Decided(l, v)' PROVE Decided(l, v) \/ (l = k /\ v = w)
    <3>1. CASE \E x \in Nodes : Len(chain[x]) > l /\ chain[x][l + 1][1] = v
      BY <3>1 DEF Decided
    <3>2. CASE \E x \in Nodes :
                 pc'[x] = "await_block" /\ Len(chain[x]) = l /\ winner'[x] = v
      <4>1. PICK x \in Nodes :
              pc'[x] = "await_block" /\ Len(chain[x]) = l /\ winner'[x] = v
        BY <3>2
      <4>2. CASE x = c
        BY <1>3, <1>7, <4>1, <4>2
      <4>3. CASE x # c
        BY <1>3, <4>1, <4>3 DEF Decided
      <4>. QED
        BY <4>2, <4>3
    <3>3. CASE \E m \in MsgsOf("announce")' : Len(chain[m.to]) = l /\ m.content = v
      <4>1. PICK m \in MsgsOf("announce")' : Len(chain[m.to]) = l /\ m.content = v
        BY <3>3
      <4>2. CASE m \in MsgsOf("announce")
        BY <4>1, <4>2 DEF Decided
      <4>3. CASE m.to \in numbers[c] /\ m.content = w
        BY <1>9, <4>1, <4>3
      <4>. QED
        BY <1>12, <4>2, <4>3
    <3>. QED
      BY <1>3, <2>1, <3>1, <3>2, <3>3 DEF Decided
  <2>2. ASSUME Decided(l, v) PROVE Decided(l, v)'
    <3>1. CASE \E x \in Nodes : Len(chain[x]) > l /\ chain[x][l + 1][1] = v
      BY <1>3, <3>1 DEF Decided
    <3>2. CASE \E x \in Nodes :
                 pc[x] = "await_block" /\ Len(chain[x]) = l /\ winner[x] = v
      <4>1. PICK x \in Nodes :
              pc[x] = "await_block" /\ Len(chain[x]) = l /\ winner[x] = v
        BY <3>2
      <4>2. x # c
        BY <1>3, <4>1
      <4>. QED
        BY <1>3, <4>1, <4>2 DEF Decided
    <3>3. CASE \E m \in MsgsOf("announce") : Len(chain[m.to]) = l /\ m.content = v
      BY <1>3, <1>12, <3>3 DEF Decided
    <3>. QED
      BY <2>2, <3>1, <3>2, <3>3 DEF Decided
  <2>3. ASSUME l = k, v = w PROVE Decided(l, v)'
    <3>1. pc'[c] = "await_block" /\ Len(chain'[c]) = l /\ winner'[c] = v
      BY <1>3, <1>7, <2>3
    <3>. QED
      BY <3>1 DEF Decided
  <2>. QED
    BY <2>1, <2>2, <2>3
<1>20. ASSUME NEW l \in Nat PROVE Taken(l)' <=> Taken(l) \/ l = k
  BY <1>6, <1>19 DEF Taken
<1>21. \A l \in Nat : Taken(l) => l < k
  BY <1>5, <1>7
<1>22. ConfigInv' /\ VersionInv' /\ PeersInv'
  <2>1. c \in Genesis => VersionOf(c)'
    <3>1. c \in Genesis => VersionOf(c)
      BY DEF VersionInv
    <3>. QED
      BY <1>3, <1>14, <1>18, <3>1 DEF VersionOf
  <2>2. c \in Joiners => conf'[c] = 2
    BY <1>3 DEF VersionInv, ListOf
  <2>. QED
    BY <1>3, <2>1, <2>2, RoundFrame
<1>23. AnnounceInv'
  <2>1. ASSUME NEW m \in MsgsOf("announce")' PROVE
          /\ pc'[m.to] = "await_announce" /\ Coordinator(m.to)' = m.from
          /\ m.round = round[m.to]
          /\ m.content \in Nodes
          /\ ~Engaged(m.to)'
          /\ m.content = m.to =>
               \A x \in ma_writer_list[m.to] \ {m.to} :
                 /\ pc'[x] \in Awaiting /\ ~Engaged(x)'
                 /\ round[x] = round[m.to]
                 /\ Len(chain[x]) = Len(chain[m.to])
    <3>1. CASE m \in MsgsOf("announce")
      <4>1. PICK t \in Nodes : t = m.to
        BY <3>1, MsgTypes DEF MsgsOf
      <4>2. /\ pc[t] = "await_announce" /\ Coordinator(t) = m.from
            /\ m.round = round[t] /\ m.content \in Nodes /\ ~Engaged(t)
            /\ m.content = t =>
                 \A x \in ma_writer_list[t] \ {t} :
                   /\ pc[x] \in Awaiting /\ ~Engaged(x)
                   /\ round[x] = round[t]
                   /\ Len(chain[x]) = Len(chain[t])
        BY <3>1, <4>1 DEF AnnounceInv
      <4>3. ASSUME m.content = t, NEW x \in ma_writer_list[t] \ {t}
            PROVE  pc'[x] \in Awaiting /\ ~Engaged(x)'
        <5>1. x \in Nodes
          BY <4>1, Lists
        <5>2. Bound(x)'
          BY <1>16, <4>2, <4>3, <5>1 DEF Bound
        <5>. QED
          BY <5>2 DEF Bound
      <4>4. pc'[t] = "await_announce" /\ Coordinator(t)' = m.from /\ ~Engaged(t)'
        BY <1>3, <1>14, <1>15, <4>1, <4>2
      <4>. QED
        BY <4>1, <4>2, <4>3, <4>4
    <3>2. CASE /\ m.from = c /\ m.to \in numbers[c] /\ m.content = w
               /\ m.round = round[c]
      <4>1. PICK t \in numbers[c] : t = m.to
        BY <3>2
      <4>2. /\ t \in Nodes /\ t # c
            /\ pc[t] = "await_announce" /\ Coordinator(t) = c
            /\ round[t] = round[c] /\ Len(chain[t]) = k
            /\ ma_writer_list[t] \subseteq ma_writer_list[c]
        BY <1>9
      <4>3. pc'[t] = "await_announce" /\ Coordinator(t)' = c /\ ~Engaged(t)'
        BY <1>3, <1>14, <1>15, <4>2
      <4>4. ASSUME NEW x \in ma_writer_list[t] \ {t}
            PROVE  /\ pc'[x] \in Awaiting /\ ~Engaged(x)'
                   /\ round[x] = round[t] /\ Len(chain[x]) = Len(chain[t])
        <5>1. Bound(x)' /\ Len(chain[x]) = k
          BY <1>17, <4>2
        <5>2. round[x] = round[c]
          BY <1>4, <1>9, <4>2
        <5>. QED
          BY <4>2, <5>1, <5>2 DEF Bound
      <4>. QED
        BY <1>6, <3>2, <4>1, <4>2, <4>3, <4>4
    <3>. QED
      BY <1>12, <3>1, <3>2
  <2>. QED
    BY <1>3, <2>1 DEF AnnounceInv
<1>24. BlockInv'
  <2>1. ASSUME NEW m \in MsgsOf("block") PROVE
          /\ pc'[m.to] \in Awaiting
          /\ m.round = round[m.to]
          /\ m.from # m.to
          /\ m.content = <<m.from, Len(chain[m.to])>>
          /\ Decided(Len(chain[m.to]), m.from)'
          /\ Len(chain[m.from]) > Len(chain[m.to])
    <3>1. /\ pc[m.to] \in Awaiting
          /\ m.round = round[m.to]
          /\ m.from # m.to
          /\ m.content = <<m.from, Len(chain[m.to])>>
          /\ Decided(Len(chain[m.to]), m.from)
          /\ Len(chain[m.from]) > Len(chain[m.to])
      BY DEF BlockInv
    <3>2. m.to \in Nodes /\ m.from \in Nodes
      BY MsgTypes DEF MsgsOf
    <3>3. pc'[m.to] \in Awaiting
      BY <1>3, <3>1, <3>2 DEF Awaiting
    <3>4. PICK l \in Nat : l = Len(chain[m.to])
      BY <3>2, ChainType
    <3>5. Decided(l, m.from)'
      BY <1>19, <3>1, <3>4
    <3>6. Decided(Len(chain[m.to]), m.from)'
      BY <1>3, <3>4, <3>5 DEF Decided
    <3>. QED
      BY <3>1, <3>3, <3>6
  <2>. QED
    BY <1>3, <1>12, <2>1 DEF BlockInv
<1>25. ChainInv'
  BY <1>3 DEF ChainInv
<1>26. Agreement'
  <2>1. ASSUME NEW l \in Nat, NEW u \in Nodes, NEW v \in Nodes,
               Decided(l, u)', Decided(l, v)'
        PROVE  u = v
    <3>1. Decided(l, u) \/ Decided(l, v) => l < k
      BY <1>21 DEF Taken
    <3>. QED
      BY <1>19, <2>1, <3>1 DEF Agreement
  <2>. QED
    BY <2>1 DEF Agreement
<1>27. ASSUME NEW x \in ma_writer_list[c] PROVE UpToDate(x)'
  <2>1. \A l \in Nat : Taken(l)' => l <= k
    BY <1>20, <1>21
  <2>. QED
    BY <1>3, <1>17, <2>1 DEF UpToDate
<1>28. CoreInv'
  BY <1>5, <1>18, <1>27 DEF CoreInv
<1>29. JoinedInv'
  <2>1. ASSUME NEW h \in Joiners, pc'[h] \in Counting PROVE UpToDate(h)'
    <3>1. pc[h] \in Counting
      BY <1>3, <2>1, Ids DEF Counting
    <3>. QED
      BY <1>5, <1>27, <3>1
  <2>. QED
    BY <2>1 DEF JoinedInv
<1>30. LeftInv'
  <2>1. ASSUME NEW h \in moving \cap Genesis, NEW l \in Nat, Taken(l)',
               l >= Len(chain[h]),
               l = Len(chain[h]) => pc'[h] \notin Awaiting
        PROVE  \A x \in Core : ma_writer_list[x] = Moved
    <3>1. h \in Nodes /\ Len(chain[h]) \in Nat
      BY Ids, ChainType
    <3>2. CASE Taken(l)
      <4>1. h = c => l # Len(chain[h])
        BY <1>7, <1>21, <3>2
      <4>2. h # c => pc'[h] = pc[h]
        BY <1>3, <3>1
      <4>. QED
        BY <2>1, <3>2, <4>1, <4>2 DEF LeftInv
    <3>3. CASE l = k
      <4>1. h \notin ma_writer_list[c]
        <5>1. h \in ma_writer_list[c] => l = Len(chain[h]) /\ pc'[h] \in Awaiting
          BY <1>17, <3>3 DEF Bound
        <5>. QED
          BY <2>1, <5>1
      <4>2. ma_writer_list[c] = Moved /\ Core \subseteq Nodes
        BY <4>1, Lists, CoreNotEmpty
      <4>3. c \in Core
        <5>1. Moved = Core
          BY OneMover
        <5>. QED
          BY <1>4, <4>2, <5>1
      <4>4. ASSUME NEW x \in Core, x # c PROVE ma_writer_list[x] = Moved
        <5>1. x \in numbers[c]
          BY <1>4, <1>5, <4>4
        <5>2. /\ pc[x] = "await_announce"
              /\ round[x] = round[c] /\ Len(chain[x]) = Len(chain[c])
          BY <1>7, <1>9, <5>1
        <5>3. /\ NowRound(c) = round[c] /\ NowRound(x) = round[x]
              /\ NowList(c) = ma_writer_list[c] /\ NowList(x) = ma_writer_list[x]
          BY <1>3, <5>2 DEF NowRound, NowList, Changes
        <5>4. NowList(x) = NowList(c)
          BY <4>3, <5>2, <5>3 DEF SameListInv
        <5>. QED
          BY <4>2, <5>3, <5>4
      <4>. QED
        BY <4>2, <4>4
    <3>. QED
      BY <1>20, <2>1, <3>2, <3>3
  <2>. QED
    BY <1>3, <1>18, <2>1 DEF LeftInv
<1>31. SameListInv'
  <2>1. ASSUME NEW x \in Nodes
        PROVE  /\ NowRound(x)' = NowRound(x) /\ NowList(x)' = NowList(x)
               /\ NextRound(x)' = NextRound(x) /\ NextList(x)' = NextList(x)
    <3>1. Changes(x)' <=> Changes(x)
      <4>1. x = c => ~Changes(x) /\ ~Changes(x)'
        BY <1>3 DEF Changes
      <4>. QED
        BY <1>3, <1>14, <4>1 DEF Changes
    <3>2. pc'[x] \in {"join", "rejoin"} <=> pc[x] \in {"join", "rejoin"}
      BY <1>3
    <3>3. NowRound(x)' = NowRound(x)
      BY <1>3, <3>1, <3>2 DEF NowRound
    <3>4. NowList(x)' = NowList(x)
      BY <1>3, <1>14, <3>1 DEF NowList
    <3>5. NextRound(x)' = NextRound(x) /\ NextList(x)' = NextList(x)
      BY <1>3, <1>14 DEF NextRound, NextList
    <3>. QED
      BY <3>3, <3>4, <3>5
  <2>2. Core \subseteq Nodes
    BY CoreNotEmpty
  <2>3. ASSUME NEW x \in Core
        PROVE  /\ Follows(x, c) /\ round[x] = round[c] /\ Len(chain[x]) = k
               /\ NowRound(x) = round[c] /\ NowList(x) = ma_writer_list[x]
    <3>1. Follows(x, c) /\ round[x] = round[c] /\ Len(chain[x]) = k
          /\ pc[x] \in {"collect", "await_announce"}
      <4>1. CASE x = c
        BY <1>3, <1>7, <1>8, <4>1
      <4>2. CASE x # c
        BY <1>4, <1>5, <1>9, <4>2
      <4>. QED
        BY <4>1, <4>2
    <3>. QED
      BY <3>1 DEF NowRound, NowList, Changes
  <2>4. ASSUME NEW a \in Core, NEW b \in Core, NextRound(a) = NextRound(b)
        PROVE  NextList(a) = NextList(b)
    <3>1. Due(a) <=> Due(b)
      <4>1. ASSUME NEW x \in Core, Due(x) PROVE NextRound(x) = k + 1
        BY <2>3, <4>1 DEF NextRound
      <4>2. ASSUME NEW x \in Core, ~Due(x) PROVE NextRound(x) = k + 2
        BY <2>3, <4>2 DEF NextRound
      <4>3. ASSUME Due(a), ~Due(b) PROVE FALSE
        BY <2>4, <4>1, <4>2, <4>3
      <4>4. ASSUME Due(b), ~Due(a) PROVE FALSE
        BY <2>4, <4>1, <4>2, <4>4
      <4>. QED
        BY <4>3, <4>4
    <3>2. CASE Due(a)
      BY <2>3, <3>1, <3>2 DEF Follows, NextList, ListsOf
    <3>3. CASE ~Due(a)
      <4>1. NowList(a) = NowList(b)
        BY <2>3 DEF SameListInv
      <4>. QED
        BY <2>3, <3>1, <3>3, <4>1 DEF NextList
    <3>. QED
      BY <3>2, <3>3
  <2>5. ASSUME NEW a \in Core, NEW b \in Core PROVE
          /\ Len(chain[a]) = Len(chain[b]) /\ NowRound(a)' = NowRound(b)'
               => NowList(a)' = NowList(b)'
          /\ Len(chain[b]) = Len(chain[a]) + 1 /\ NextRound(a)' = NowRound(b)'
               => NextList(a)' = NowList(b)'
          /\ NextRound(a)' = NextRound(b)' => NextList(a)' = NextList(b)'
    BY <2>1, <2>2, <2>4 DEF SameListInv
  <2>. QED
    BY <1>3, <1>18, <2>5 DEF SameListInv
<1>32. RoundInv'
  <2>1. RoundOf(c)'
    <3>1. RoundOf(c)
      BY DEF RoundInv
    <3>. QED
      BY <1>3, <3>1 DEF RoundOf, Counting
  <2>. QED
    BY <1>13, <2>1, SameFacts DEF RoundInv
<1>33. RequestInv'
  <2>1. ASSUME NEW q \in MsgsOf("request") PROVE
          /\ pc'[q.from] = "collect"
          /\ q.round = round[q.from]
          /\ q.content = GetVersion(q.from)'
          /\ q.to \in ma_writer_list[q.from] \ {q.from}
          /\ q.to \notin numbers[q.from]
          /\ \A o \in MsgsOf("reply") : ~(o.from = q.to /\ o.to = q.from)
    <3>1. q.from \in Nodes /\ q.from # c
      BY <1>11, MsgTypes DEF MsgsOf
    <3>. QED
      BY <1>3, <1>14, <3>1 DEF RequestInv
  <2>. QED
    BY <1>3, <1>12, <2>1 DEF RequestInv
<1>34. ASSUME NEW x \in Nodes, NEW d \in Nodes PROVE Follows(x, d)' <=> Follows(x, d)
  BY <1>3, <1>14, <1>18 DEF Follows
<1>35. ASSUME NEW x, Unannounced(x), x \notin numbers[c] PROVE Unannounced(x)'
  BY <1>12, <1>35 DEF Unannounced
<1>36. ReplyInv'
  <2>1. ASSUME NEW o \in MsgsOf("reply") PROVE
          /\ pc'[o.to] = "collect"
          /\ pc'[o.from] = "await_announce" /\ Coordinator(o.from)' = o.to
          /\ o.round = round[o.from] /\ o.content = 0
          /\ o.from \in ma_writer_list[o.to] \ {o.to}
          /\ o.from \notin numbers[o.to]
          /\ Unannounced(o.from)'
          /\ Follows(o.from, o.to)'
          /\ round[o.to] = 0 => o.round = 0
          /\ round[o.to] = o.round => Len(chain[o.from]) = Len(chain[o.to])
    <3>1. PICK x \in Nodes, d \in Nodes : x = o.from /\ d = o.to
      BY <2>1, MsgTypes DEF MsgsOf
    <3>2. /\ pc[d] = "collect"
          /\ pc[x] = "await_announce" /\ Coordinator(x) = d
          /\ o.round = round[x] /\ o.content = 0
          /\ x \in ma_writer_list[d] \ {d} /\ x \notin numbers[d]
          /\ Unannounced(x) /\ Follows(x, d)
          /\ round[d] = 0 => o.round = 0
          /\ round[d] = o.round => Len(chain[x]) = Len(chain[d])
      BY <3>1 DEF ReplyInv
    <3>3. x # c /\ d # c
      BY <1>3, <1>10, <3>1, <3>2
    <3>4. x \notin numbers[c]
      BY <1>9, <3>2, <3>3
    <3>5. Coordinator(x)' = d /\ Unannounced(x)' /\ Follows(x, d)'
      BY <1>14, <1>34, <1>35, <3>2, <3>4
    <3>6. pc'[x] = pc[x] /\ pc'[d] = pc[d]
      BY <1>3, <3>3
    <3>. QED
      BY <3>1, <3>2, <3>5, <3>6
  <2>. QED
    BY <1>3, <1>12, <2>1 DEF ReplyInv
<1>37. NumbersInv'
  <2>1. ASSUME NEW d \in Nodes, pc'[d] = "collect"
        PROVE  /\ Follows(d, d)'
               /\ \A x \in numbers[d] :
                    /\ x \in ma_writer_list[d] \ {d}
                    /\ pc'[x] = "await_announce" /\ Coordinator(x)' = d
                    /\ round[x] = round[d]
                    /\ Len(chain[x]) = Len(chain[d])
                    /\ Unannounced(x)'
                    /\ Follows(x, d)'
    <3>1. d # c /\ pc[d] = "collect"
      BY <1>3, <2>1
    <3>2. Follows(d, d)'
      BY <1>34, <3>1 DEF NumbersInv
    <3>3. ASSUME NEW x \in numbers[d] PROVE
            /\ x \in ma_writer_list[d] \ {d}
            /\ pc'[x] = "await_announce" /\ Coordinator(x)' = d
            /\ round[x] = round[d]
            /\ Len(chain[x]) = Len(chain[d])
            /\ Unannounced(x)'
            /\ Follows(x, d)'
      <4>1. /\ x \in Nodes
            /\ x \in ma_writer_list[d] \ {d}
            /\ pc[x] = "await_announce" /\ Coordinator(x) = d
            /\ round[x] = round[d]
            /\ Len(chain[x]) = Len(chain[d])
            /\ Unannounced(x)
            /\ Follows(x, d)
        BY <3>1 DEF NumbersInv, Types
      <4>2. x # c /\ x \notin numbers[c]
        BY <1>3, <1>9, <3>1, <4>1
      <4>. QED
        BY <1>3, <1>14, <1>34, <1>35, <4>1, <4>2
    <3>. QED
      BY <3>2, <3>3
  <2>. QED
    BY <1>3, <2>1 DEF NumbersInv
<1>. QED
  BY <1>1, <1>22, <1>23, <1>24, <1>25, <1>26, <1>28, <1>29, <1>30, <1>31, <1>32,
     <1>33, <1>36, <1>37 DEF IInv

----------------------------------------------------------------------------
(* A block stored.                                                          *)

\* n stores the block of w and goes on to the next round.
Stores(n, w) ==
  /\ UNCHANGED <<moving, configs, numbers, conf, current_version,
                 proposed_version, ma_writer_list, peers, connected, accepting>>
  /\ \A x \in Nodes : x # n => Same(x)
  /\ chain'[n] = Append(chain[n], <<w, Len(chain[n])>>)
  /\ round'[n] = Len(chain[n]) + 2 /\ pc'[n] \in {"loop", "done"}
  /\ MsgsOf("request")' = MsgsOf("request")
  /\ MsgsOf("reply")' = MsgsOf("reply")
  /\ \A o \in MsgsOf("announce")' : o \in MsgsOf("announce") /\ o.to # n
  /\ \A o \in MsgsOf("announce") : o.to # n => o \in MsgsOf("announce")'

\* It is the block that was decided at n's height, and n was part of that.
Settled(n, w) ==
  /\ pc[n] \in Awaiting /\ ~Engaged(n)
  /\ pc[n] = "await_block" \/ ~Unannounced(n)
  /\ Decided(Len(chain[n]), w)
  /\ \A o \in MsgsOf("announce") :
       o.to # n /\ o.content = o.to => n \notin ma_writer_list[o.to]

LEMMA StoringFacts ==
  ASSUME IInv, NEW n \in Nodes, NEW w \in Nodes, Settled(n, w), Stores(n, w)
  PROVE  /\ Len(chain'[n]) = Len(chain[n]) + 1
         /\ \A i \in 1 .. Len(chain[n]) : chain'[n][i] = chain[n][i]
         /\ chain'[n][Len(chain[n]) + 1] = <<w, Len(chain[n])>>
         /\ \A x \in Nodes : Engaged(x)' <=> Engaged(x)
         /\ \A x \in Nodes : x # n /\ Bound(x) => Bound(x)'
         /\ \A l \in Nat, v \in Nodes : Decided(l, v)' <=> Decided(l, v)
         /\ n \in Core \cup Joiners => UpToDate(n)
<1>. Types /\ ConfigInv /\ VersionInv /\ RoundInv /\ Agreement /\ CoreInv
     /\ JoinedInv
  BY DEF IInv
<1>1. PICK k \in Nat : k = Len(chain[n])
  BY ChainType
<1>2. <<w, k>> \in Nodes \X Nat
  OBVIOUS
<1>3. /\ Len(chain'[n]) = k + 1
      /\ \A i \in 1 .. k : chain'[n][i] = chain[n][i]
      /\ chain'[n][k + 1] = <<w, k>>
  <2>1. chain'[n] = Append(chain[n], <<w, k>>)
    BY <1>1 DEF Stores
  <2>. QED
    BY <1>1, <1>2, <2>1, AppendFacts
<1>4. ASSUME NEW x \in Nodes PROVE Engaged(x)' <=> Engaged(x)
  <2>1. CASE x = n
    BY <2>1 DEF Settled, Stores, Engaged
  <2>2. CASE x # n
    <3>1. Same(x) /\ Coordinator(x)' = Coordinator(x) /\ Coordinator(x) \in Nodes
      BY <2>2, SameFacts, Lists DEF Stores
    <3>2. PICK d \in Nodes : d = Coordinator(x) /\ d = Coordinator(x)'
      BY <3>1
    <3>3. Engaged(x) <=> /\ pc[x] = "await_announce" /\ pc[d] = "collect"
                         /\ \/ x \in numbers[d]
                            \/ \E o \in MsgsOf("reply") : o.from = x /\ o.to = d
      BY <3>2 DEF Engaged
    <3>4. Engaged(x)' <=> /\ pc'[x] = "await_announce" /\ pc'[d] = "collect"
                          /\ \/ x \in numbers'[d]
                             \/ \E o \in MsgsOf("reply")' : o.from = x /\ o.to = d
      BY <3>2 DEF Engaged
    <3>5. pc'[d] = "collect" <=> pc[d] = "collect"
      <4>1. CASE d = n
        BY <4>1 DEF Settled, Stores, Awaiting
      <4>2. CASE d # n
        BY <4>2 DEF Stores, Same
      <4>. QED
        BY <4>1, <4>2
    <3>6. /\ pc'[x] = pc[x] /\ numbers'[d] = numbers[d]
          /\ MsgsOf("reply")' = MsgsOf("reply")
      BY <3>1 DEF Stores, Same
    <3>. QED
      BY <3>3, <3>4, <3>5, <3>6
  <2>. QED
    BY <2>1, <2>2
<1>5. ASSUME NEW x \in Nodes, x # n, Bound(x) PROVE Bound(x)'
  BY <1>4, <1>5 DEF Bound, Stores, Same
<1>6. Decided(k, w)
  BY <1>1 DEF Settled
<1>7. ASSUME NEW l \in Nat, NEW v \in Nodes, Decided(l, v) PROVE Decided(l, v)'
  <2>1. Len(chain'[n]) > k /\ chain'[n][k + 1][1] = w
    BY <1>3
  <2>2. l = k => v = w
    BY <1>6, <1>7 DEF Agreement
  <2>3. l = k => Decided(l, v)'
    BY <2>1, <2>2 DEF Decided
  <2>4. CASE \E x \in Nodes : Len(chain[x]) > l /\ chain[x][l + 1][1] = v
    <3>1. PICK x \in Nodes : Len(chain[x]) > l /\ chain[x][l + 1][1] = v
      BY <2>4
    <3>2. CASE x # n
      BY <3>1, <3>2 DEF Stores, Same, Decided
    <3>3. CASE x = n
      <4>1. l + 1 \in 1 .. k
        BY <1>1, <3>1, <3>3
      <4>2. Len(chain'[n]) > l /\ chain'[n][l + 1][1] = v
        BY <1>1, <1>3, <3>1, <3>3, <4>1
      <4>. QED
        BY <4>2 DEF Decided
    <3>. QED
      BY <3>2, <3>3
  <2>5. CASE \E x \in Nodes :
               pc[x] = "await_block" /\ Len(chain[x]) = l /\ winner[x] = v
    <3>1. PICK x \in Nodes :
            pc[x] = "await_block" /\ Len(chain[x]) = l /\ winner[x] = v
      BY <2>5
    <3>2. CASE x # n
      BY <3>1, <3>2 DEF Stores, Same, Decided
    <3>3. CASE x = n
      BY <1>1, <2>3, <3>1, <3>3
    <3>. QED
      BY <3>2, <3>3
  <2>6. CASE \E m \in MsgsOf("announce") : Len(chain[m.to]) = l /\ m.content = v
    <3>1. PICK m \in MsgsOf("announce") : Len(chain[m.to]) = l /\ m.content = v
      BY <2>6
    <3>2. CASE m.to # n
      <4>1. m.to \in Nodes
        BY <3>1, MsgTypes DEF MsgsOf
      <4>. QED
        BY <3>1, <3>2, <4>1 DEF Stores, Same, Decided
    <3>3. CASE m.to = n
      BY <1>1, <2>3, <3>1, <3>3
    <3>. QED
      BY <3>2, <3>3
  <2>. QED
    BY <1>7, <2>4, <2>5, <2>6 DEF Decided
<1>8. ASSUME NEW l \in Nat, NEW v \in Nodes, Decided(l, v)' PROVE Decided(l, v)
  <2>1. CASE \E x \in Nodes : Len(chain'[x]) > l /\ chain'[x][l + 1][1] = v
    <3>1. PICK x \in Nodes : Len(chain'[x]) > l /\ chain'[x][l + 1][1] = v
      BY <2>1
    <3>2. CASE x # n
      BY <3>1, <3>2 DEF Stores, Same, Decided
    <3>3. CASE x = n
      <4>1. CASE l = k
        BY <1>3, <1>6, <3>1, <3>3, <4>1
      <4>2. CASE l # k
        <5>1. l + 1 \in 1 .. k /\ Len(chain[n]) > l
          BY <1>1, <1>3, <3>1, <3>3, <4>2
        <5>2. chain[n][l + 1][1] = v
          BY <1>3, <3>1, <3>3, <5>1
        <5>. QED
          BY <5>1, <5>2 DEF Decided
      <4>. QED
        BY <4>1, <4>2
    <3>. QED
      BY <3>2, <3>3
  <2>2. CASE \E x \in Nodes :
               pc'[x] = "await_block" /\ Len(chain'[x]) = l /\ winner'[x] = v
    <3>1. PICK x \in Nodes :
            pc'[x] = "await_block" /\ Len(chain'[x]) = l /\ winner'[x] = v
      BY <2>2
    <3>2. x # n
      BY <3>1 DEF Stores
    <3>. QED
      BY <3>1, <3>2 DEF Stores, Same, Decided
  <2>3. CASE \E m \in MsgsOf("announce")' : Len(chain'[m.to]) = l /\ m.content = v
    <3>1. PICK m \in MsgsOf("announce")' : Len(chain'[m.to]) = l /\ m.content = v
      BY <2>3
    <3>2. m \in MsgsOf("announce") /\ m.to # n
      BY <3>1 DEF Stores
    <3>3. m.to \in Nodes
      BY <3>2, MsgTypes DEF MsgsOf
    <3>. QED
      BY <3>1, <3>2, <3>3 DEF Stores, Same, Decided
  <2>. QED
    BY <1>8, <2>1, <2>2, <2>3 DEF Decided
<1>9. ASSUME n \in Core \cup Joiners PROVE UpToDate(n)
  <2>1. pc[n] \in Counting
    BY DEF Settled, Awaiting, Counting
  <2>. QED
    BY <1>9, <2>1 DEF CoreInv, JoinedInv, Settled
<1>. QED
  BY <1>1, <1>3, <1>4, <1>5, <1>7, <1>8, <1>9

\* Stored blocks are sent to those that took part.
BlocksSent(n, w) ==
  \A q \in MsgsOf("block")' :
    \/ q \in MsgsOf("block") /\ q.to # n
    \/ /\ q.from = n /\ w = n /\ q.to \in ma_writer_list[n] \ {n}
       /\ q.round = round[n] /\ q.content = <<n, Len(chain[n])>>
       /\ pc[q.to] \in Awaiting /\ round[q.to] = round[n]
       /\ Len(chain[q.to]) = Len(chain[n])

LEMMA StoringMessages ==
  ASSUME IInv, Types', NEW n \in Nodes, NEW w \in Nodes, Settled(n, w),
         Stores(n, w), BlocksSent(n, w)
  PROVE  RequestInv' /\ ReplyInv' /\ NumbersInv' /\ AnnounceInv' /\ BlockInv'
<1>. Types /\ ConfigInv /\ VersionInv /\ RoundInv /\ RequestInv /\ ReplyInv
     /\ NumbersInv /\ AnnounceInv /\ BlockInv
  BY DEF IInv
<1>1. /\ Len(chain'[n]) = Len(chain[n]) + 1
      /\ \A x \in Nodes : Engaged(x)' <=> Engaged(x)
      /\ \A x \in Nodes : x # n /\ Bound(x) => Bound(x)'
      /\ \A l \in Nat, v \in Nodes : Decided(l, v)' <=> Decided(l, v)
  BY StoringFacts
<1>2. /\ pc[n] \in Awaiting /\ ~Engaged(n) /\ pc[n] # "collect"
      /\ pc'[n] # "collect"
  BY DEF Settled, Stores, Awaiting
<1>3. ASSUME NEW x \in Nodes, x # n
      PROVE  /\ Same(x) /\ Coordinator(x)' = Coordinator(x)
             /\ GetVersion(x)' = GetVersion(x)
  BY <1>3, SameFacts DEF Stores
<1>4. ASSUME NEW x \in Nodes, NEW d \in Nodes PROVE Follows(x, d)' <=> Follows(x, d)
  <2>1. Core' = Core /\ (Due(x)' <=> Due(x)) /\ GetVersion(d)' = GetVersion(d)
    BY DEF Stores, Core, Due, GetVersion
  <2>. QED
    BY <2>1 DEF Follows, Stores
<1>5. ASSUME NEW x, Unannounced(x) PROVE Unannounced(x)'
  BY <1>5 DEF Unannounced, Stores
<1>6. RequestInv'
  <2>1. ASSUME NEW q \in MsgsOf("request") PROVE
          /\ pc'[q.from] = "collect"
          /\ q.round = round'[q.from]
          /\ q.content = GetVersion(q.from)'
          /\ q.to \in ma_writer_list'[q.from] \ {q.from}
          /\ q.to \notin numbers'[q.from]
          /\ \A o \in MsgsOf("reply") : ~(o.from = q.to /\ o.to = q.from)
    <3>1. q.from \in Nodes /\ q.from # n
      BY <1>2, MsgTypes DEF MsgsOf, RequestInv
    <3>. QED
      BY <1>3, <3>1 DEF RequestInv, Same
  <2>. QED
    BY <2>1 DEF RequestInv, Stores
<1>7. ReplyInv'
  <2>1. ASSUME NEW o \in MsgsOf("reply") PROVE
          /\ pc'[o.to] = "collect"
          /\ pc'[o.from] = "await_announce" /\ Coordinator(o.from)' = o.to
          /\ o.round = round'[o.from] /\ o.content = 0
          /\ o.from \in ma_writer_list'[o.to] \ {o.to}
          /\ o.from \notin numbers'[o.to]
          /\ Unannounced(o.from)'
          /\ Follows(o.from, o.to)'
          /\ round'[o.to] = 0 => o.round = 0
          /\ round'[o.to] = o.round => Len(chain'[o.from]) = Len(chain'[o.to])
    <3>1. PICK x \in Nodes, d \in Nodes : x = o.from /\ d = o.to
      BY MsgTypes DEF MsgsOf
    <3>2. /\ pc[d] = "collect"
          /\ pc[x] = "await_announce" /\ Coordinator(x) = d
          /\ o.round = round[x] /\ o.content = 0
          /\ x \in ma_writer_list[d] \ {d} /\ x \notin numbers[d]
          /\ Unannounced(x) /\ Follows(x, d)
          /\ round[d] = 0 => o.round = 0
          /\ round[d] = o.round => Len(chain[x]) = Len(chain[d])
      BY <3>1 DEF ReplyInv
    <3>3. x # n /\ d # n
      <4>1. Engaged(x)
        BY <3>1, <3>2 DEF Engaged
      <4>. QED
        BY <1>2, <3>2, <4>1
    <3>4. Same(x) /\ Same(d) /\ Coordinator(x)' = d
      BY <1>3, <3>2, <3>3
    <3>5. Unannounced(x)' /\ Follows(x, d)'
      BY <1>4, <1>5, <3>2
    <3>. QED
      BY <3>1, <3>2, <3>4, <3>5 DEF Same
  <2>. QED
    BY <2>1 DEF ReplyInv, Stores
<1>8. NumbersInv'
  <2>1. ASSUME NEW d \in Nodes, pc'[d] = "collect"
        PROVE  /\ Follows(d, d)'
               /\ \A x \in numbers'[d] :
                    /\ x \in ma_writer_list'[d] \ {d}
                    /\ pc'[x] = "await_announce" /\ Coordinator(x)' = d
                    /\ round'[x] = round'[d]
                    /\ Len(chain'[x]) = Len(chain'[d])
                    /\ Unannounced(x)'
                    /\ Follows(x, d)'
    <3>1. d # n /\ Same(d) /\ pc[d] = "collect" /\ numbers'[d] = numbers[d]
      BY <1>2, <1>3, <2>1 DEF Same
    <3>2. Follows(d, d)'
      BY <1>4, <3>1 DEF NumbersInv
    <3>3. ASSUME NEW x \in numbers[d] PROVE
            /\ x \in ma_writer_list'[d] \ {d}
            /\ pc'[x] = "await_announce" /\ Coordinator(x)' = d
            /\ round'[x] = round'[d]
            /\ Len(chain'[x]) = Len(chain'[d])
            /\ Unannounced(x)'
            /\ Follows(x, d)'
      <4>1. /\ x \in Nodes
            /\ x \in ma_writer_list[d] \ {d}
            /\ pc[x] = "await_announce" /\ Coordinator(x) = d
            /\ round[x] = round[d]
            /\ Len(chain[x]) = Len(chain[d])
            /\ Unannounced(x)
            /\ Follows(x, d)
        BY <3>1 DEF NumbersInv, Types
      <4>2. x # n
        <5>1. Engaged(x)
          BY <3>1, <4>1 DEF Engaged
        <5>. QED
          BY <1>2, <5>1
      <4>3. Same(x) /\ Coordinator(x)' = d
        BY <1>3, <4>1, <4>2
      <4>4. Unannounced(x)' /\ Follows(x, d)'
        BY <1>4, <1>5, <4>1
      <4>. QED
        BY <3>1, <4>1, <4>3, <4>4 DEF Same
    <3>. QED
      BY <3>1, <3>2, <3>3
  <2>. QED
    BY <2>1 DEF NumbersInv
<1>9. AnnounceInv'
  <2>1. ASSUME NEW m \in MsgsOf("announce")' PROVE
          /\ pc'[m.to] = "await_announce" /\ Coordinator(m.to)' = m.from
          /\ m.round = round'[m.to]
          /\ m.content \in Nodes
          /\ ~Engaged(m.to)'
          /\ m.content = m.to =>
               \A x \in ma_writer_list'[m.to] \ {m.to} :
                 /\ pc'[x] \in Awaiting /\ ~Engaged(x)'
                 /\ round'[x] = round'[m.to]
                 /\ Len(chain'[x]) = Len(chain'[m.to])
    <3>1. m \in MsgsOf("announce") /\ m.to # n
      BY DEF Stores
    <3>2. PICK t \in Nodes : t = m.to /\ t # n
      BY <3>1, MsgTypes DEF MsgsOf
    <3>3. /\ pc[t] = "await_announce" /\ Coordinator(t) = m.from
          /\ m.round = round[t] /\ m.content \in Nodes /\ ~Engaged(t)
          /\ m.content = t =>
               \A x \in ma_writer_list[t] \ {t} :
                 /\ pc[x] \in Awaiting /\ ~Engaged(x)
                 /\ round[x] = round[t]
                 /\ Len(chain[x]) = Len(chain[t])
      BY <3>1, <3>2 DEF AnnounceInv
    <3>4. Same(t) /\ Coordinator(t)' = m.from /\ ~Engaged(t)'
      BY <1>1, <1>3, <3>2, <3>3
    <3>5. ASSUME m.content = t, NEW x \in ma_writer_list[t] \ {t} PROVE
            /\ pc'[x] \in Awaiting /\ ~Engaged(x)'
            /\ round'[x] = round'[t]
            /\ Len(chain'[x]) = Len(chain'[t])
      <4>1. x # n /\ x \in Nodes
        <5>1. n \notin ma_writer_list[t]
          BY <3>1, <3>2, <3>5 DEF Settled
        <5>. QED
          BY <3>2, <5>1, Lists
      <4>2. Same(x) /\ ~Engaged(x)'
        BY <1>1, <1>3, <3>3, <3>5, <4>1
      <4>. QED
        BY <3>3, <3>4, <3>5, <4>2 DEF Same
    <3>. QED
      BY <3>2, <3>3, <3>4, <3>5 DEF Same
  <2>. QED
    BY <2>1 DEF AnnounceInv
<1>10. BlockInv'
  <2>1. ASSUME NEW q \in MsgsOf("block")' PROVE
          /\ pc'[q.to] \in Awaiting
          /\ q.round = round'[q.to]
          /\ q.from # q.to
          /\ q.content = <<q.from, Len(chain'[q.to])>>
          /\ Decided(Len(chain[q.to]), q.from)'
          /\ chain'[q.to] = chain[q.to]
          /\ Len(chain'[q.from]) > Len(chain'[q.to])
    <3>1. CASE q \in MsgsOf("block") /\ q.to # n
      <4>1. PICK t \in Nodes, f \in Nodes : t = q.to /\ f = q.from /\ t # n
        BY <3>1, MsgTypes DEF MsgsOf
      <4>2. /\ pc[t] \in Awaiting /\ q.round = round[t] /\ f # t
            /\ q.content = <<f, Len(chain[t])>>
            /\ Decided(Len(chain[t]), f)
            /\ Len(chain[f]) > Len(chain[t])
        BY <3>1, <4>1 DEF BlockInv
      <4>3. Same(t)
        BY <1>3, <4>1
      <4>4. PICK l \in Nat : l = Len(chain[t])
        BY ChainType
      <4>5. Decided(l, f)'
        BY <1>1, <4>2, <4>4
      <4>6. Len(chain'[f]) > Len(chain[t])
        <5>1. Len(chain[f]) \in Nat
          BY ChainType
        <5>2. Len(chain'[f]) = Len(chain[f]) \/ Len(chain'[f]) = Len(chain[f]) + 1
          BY <1>1, <1>3 DEF Same
        <5>. QED
          BY <4>2, <4>4, <5>1, <5>2
      <4>7. Decided(Len(chain[q.to]), q.from)'
        BY <4>1, <4>3, <4>4, <4>5 DEF Decided, Same
      <4>. QED
        BY <4>1, <4>2, <4>3, <4>6, <4>7 DEF Same
    <3>2. CASE /\ q.from = n /\ w = n /\ q.to \in ma_writer_list[n] \ {n}
               /\ q.round = round[n] /\ q.content = <<n, Len(chain[n])>>
               /\ pc[q.to] \in Awaiting /\ round[q.to] = round[n]
               /\ Len(chain[q.to]) = Len(chain[n])
      <4>1. PICK t \in Nodes : t = q.to /\ t # n
        BY <3>2, Lists
      <4>2. Same(t)
        BY <1>3, <4>1
      <4>3. PICK l \in Nat : l = Len(chain[n]) /\ l = Len(chain[t])
        BY <3>2, <4>1, ChainType
      <4>4. Decided(l, n)'
        BY <1>1, <3>2, <4>3 DEF Settled
      <4>5. Decided(Len(chain[q.to]), q.from)'
        BY <3>2, <4>1, <4>2, <4>3, <4>4 DEF Decided, Same
      <4>6. Len(chain'[n]) > l
        BY <1>1, <4>3
      <4>. QED
        BY <3>2, <4>1, <4>2, <4>3, <4>5, <4>6 DEF Same
    <3>. QED
      BY <3>1, <3>2 DEF BlocksSent
  <2>. QED
    BY <2>1 DEF BlockInv, Decided
<1>. QED
  BY <1>6, <1>7, <1>8, <1>9, <1>10

\* A block that is stored was decided before, and nothing else is.
LEMMA StoringDecisions ==
  ASSUME IInv, Types', NEW n \in Nodes, NEW w \in Nodes, Settled(n, w),
         Stores(n, w)
  PROVE  ChainInv' /\ Agreement' /\ CoreInv' /\ JoinedInv' /\ LeftInv'
<1>. Types /\ ConfigInv /\ ChainInv /\ Agreement /\ CoreInv /\ JoinedInv /\ LeftInv
  BY DEF IInv
<1>1. /\ Len(chain'[n]) = Len(chain[n]) + 1
      /\ \A i \in 1 .. Len(chain[n]) : chain'[n][i] = chain[n][i]
      /\ chain'[n][Len(chain[n]) + 1] = <<w, Len(chain[n])>>
      /\ \A x \in Nodes : x # n /\ Bound(x) => Bound(x)'
      /\ \A l \in Nat, v \in Nodes : Decided(l, v)' <=> Decided(l, v)
      /\ n \in Core \cup Joiners => UpToDate(n)
  BY StoringFacts
<1>2. ASSUME NEW x \in Nodes, x # n PROVE Same(x)
  BY <1>2 DEF Stores
<1>3. Core' = Core /\ Moved' = Moved /\ Core \subseteq Nodes /\ moving' = moving
      /\ ma_writer_list' = ma_writer_list
  BY CoreNotEmpty DEF Stores, Core, Moved
<1>4. \A l \in Nat : Taken(l)' <=> Taken(l)
  BY <1>1 DEF Taken
<1>5. PICK k \in Nat : k = Len(chain[n])
  BY ChainType
<1>6. ChainInv'
  <2>1. ASSUME NEW x \in Nodes, NEW i \in 1 .. Len(chain'[x])
        PROVE  chain'[x][i][2] = i - 1
    <3>1. CASE x # n
      BY <1>2, <3>1 DEF Same, ChainInv
    <3>2. CASE x = n
      <4>1. CASE i = k + 1
        BY <1>1, <1>5, <3>2, <4>1
      <4>2. CASE i # k + 1
        <5>1. i \in 1 .. k
          BY <1>1, <1>5, <3>2, <4>2
        <5>. QED
          BY <1>1, <1>5, <3>2, <5>1 DEF ChainInv
      <4>. QED
        BY <4>1, <4>2
    <3>. QED
      BY <3>1, <3>2
  <2>. QED
    BY <2>1 DEF ChainInv
<1>7. Agreement'
  BY <1>1 DEF Agreement
<1>8. ASSUME NEW x \in Nodes, UpToDate(x) PROVE UpToDate(x)'
  <2>1. CASE x = n
    <3>1. ASSUME NEW l \in Nat, Taken(l)' PROVE l < Len(chain'[n])
      <4>1. l <= k
        BY <1>4, <1>5, <1>8, <2>1, <3>1 DEF UpToDate
      <4>. QED
        BY <1>1, <1>5, <4>1
    <3>2. Len(chain'[n]) \in Nat
      BY <1>1, <1>5
    <3>3. \A l \in Nat : l < Len(chain'[n]) =>
                           l <= Len(chain'[n]) /\ l # Len(chain'[n])
      BY <3>2
    <3>. QED
      BY <2>1, <3>1, <3>3 DEF UpToDate
  <2>2. CASE x # n
    <3>1. Same(x) /\ (Bound(x) => Bound(x)')
      BY <1>1, <1>2, <2>2
    <3>. QED
      BY <1>4, <1>8, <3>1 DEF UpToDate, Same
  <2>. QED
    BY <2>1, <2>2
<1>9. CoreInv'
  BY <1>3, <1>8 DEF CoreInv
<1>10. JoinedInv'
  <2>1. ASSUME NEW h \in Joiners, pc'[h] \in Counting,
               \/ round'[h] # Len(chain'[h])
               \/ pc'[h] = "await_block"
               \/ ~Unannounced(h)'
        PROVE  UpToDate(h)'
    <3>1. h \in Nodes
      BY Ids
    <3>2. CASE h = n
      BY <1>1, <1>8, <3>2
    <3>3. CASE h # n
      <4>1. ~Unannounced(h)' => ~Unannounced(h)
        BY DEF Unannounced, Stores
      <4>2. UpToDate(h)
        BY <1>2, <2>1, <3>1, <3>3, <4>1 DEF Same, JoinedInv
      <4>. QED
        BY <1>8, <3>1, <4>2
    <3>. QED
      BY <3>2, <3>3
  <2>. QED
    BY <2>1 DEF JoinedInv
<1>11. LeftInv'
  <2>1. ASSUME NEW h \in moving \cap Genesis, NEW l \in Nat, Taken(l)',
               l >= Len(chain'[h]),
               l = Len(chain'[h]) => pc'[h] \notin Awaiting
        PROVE  \A x \in Core : ma_writer_list[x] = Moved
    <3>1. h \in Nodes /\ Taken(l)
      BY <1>4, <2>1, Ids
    <3>2. CASE h = n
      <4>1. l >= k /\ l # k
        BY <1>1, <1>5, <2>1, <3>2
      <4>. QED
        BY <1>5, <2>1, <3>1, <3>2, <4>1 DEF LeftInv
    <3>3. CASE h # n
      BY <1>2, <2>1, <3>1, <3>3 DEF Same, LeftInv
    <3>. QED
      BY <3>2, <3>3
  <2>. QED
    BY <1>3, <2>1 DEF LeftInv
<1>. QED
  BY <1>6, <1>7, <1>9, <1>10, <1>11

LEMMA StoringLists ==
  ASSUME IInv, Types', NEW n \in Nodes, NEW w \in Nodes, Settled(n, w),
         Stores(n, w)
  PROVE  SameListInv'
<1>. Types /\ ConfigInv /\ CoreInv /\ SameListInv
  BY DEF IInv
<1>1. /\ Len(chain'[n]) = Len(chain[n]) + 1
      /\ \A l \in Nat, v \in Nodes : Decided(l, v)' <=> Decided(l, v)
      /\ Decided(Len(chain[n]), w)
  BY StoringFacts DEF Settled
<1>2. Core' = Core /\ Core \subseteq Nodes
  BY CoreNotEmpty DEF Stores, Core
<1>3. \A l \in Nat : Taken(l)' <=> Taken(l)
  BY <1>1 DEF Taken
<1>4. PICK k \in Nat : k = Len(chain[n])
  BY ChainType
<1>5. Taken(k)
  BY <1>1, <1>4 DEF Taken
<1>6. ASSUME NEW x \in Core, x # n
      PROVE  /\ chain'[x] = chain[x] /\ Len(chain[x]) \in Nat
             /\ NowRound(x)' = NowRound(x) /\ NowList(x)' = NowList(x)
             /\ NextRound(x)' = NextRound(x) /\ NextList(x)' = NextList(x)
  BY <1>2, <1>6, SameFacts, ChainType DEF Stores, Same
\* The next round of n has come.
<1>7. NowRound(n)' = NextRound(n) /\ NowList(n)' = NextList(n)
  <2>1. /\ Due(n)' <=> Due(n)
        /\ ListsOf(n)' = ListsOf(n)
        /\ ma_writer_list'[n] = ma_writer_list[n]
        /\ pc'[n] \in {"loop", "done"}
        /\ round'[n] = k + 2 /\ Len(chain'[n]) = k + 1
    BY <1>1, <1>4 DEF Stores, Due, ListsOf
  <2>2. CASE Due(n)
    BY <1>4, <2>1, <2>2 DEF NowRound, NowList, NextRound, NextList, Changes
  <2>3. CASE ~Due(n)
    BY <1>4, <2>1, <2>3 DEF NowRound, NowList, NextRound, NextList, Changes
  <2>. QED
    BY <2>2, <2>3
<1>8. n \in Core => \A l \in Nat : Taken(l) => l <= k
  BY <1>4 DEF CoreInv, UpToDate
<1>9. ASSUME NEW a \in Core, NEW b \in Core, Len(chain'[a]) = Len(chain'[b]),
             NowRound(a)' = NowRound(b)'
      PROVE  NowList(a)' = NowList(b)'
  <2>1. CASE a = n /\ b # n
    BY <1>1, <1>4, <1>6, <1>7, <1>9, <2>1, ZenonT(30) DEF SameListInv
  <2>2. CASE b = n /\ a # n
    BY <1>1, <1>4, <1>6, <1>7, <1>9, <2>2 DEF SameListInv
  <2>3. CASE a # n /\ b # n
    BY <1>6, <1>9, <2>3 DEF SameListInv
  <2>. QED
    BY <2>1, <2>2, <2>3
<1>10. ASSUME NEW a \in Core, NEW b \in Core,
              Len(chain'[b]) = Len(chain'[a]) + 1, NextRound(a)' = NowRound(b)'
       PROVE  NextList(a)' = NowList(b)'
  <2>1. a # b
    <3>1. Len(chain'[a]) \in Nat
      BY <1>1, <1>4, <1>6
    <3>. QED
      BY <1>10, <3>1
  <2>2. CASE a = n
    <3>1. Len(chain[b]) = k + 2
      BY <1>1, <1>4, <1>6, <1>10, <2>1, <2>2
    <3>2. Taken(k + 1)
      BY <1>2, <3>1, StoredIsTaken
    <3>. QED
      BY <1>8, <2>2, <3>2
  <2>3. CASE b = n
    <3>1. Len(chain[a]) = k
      BY <1>1, <1>4, <1>6, <1>10, <2>1, <2>3
    <3>2. NextList(a) = NextList(n)
      BY <1>4, <1>5, <1>6, <1>7, <1>10, <2>1, <2>3, <3>1 DEF SameListInv
    <3>. QED
      BY <1>6, <1>7, <2>1, <2>3, <3>2
  <2>4. CASE a # n /\ b # n
    BY <1>6, <1>10, <2>4 DEF SameListInv
  <2>. QED
    BY <2>2, <2>3, <2>4
<1>11. ASSUME NEW a \in Core, NEW b \in Core,
              Len(chain'[a]) = Len(chain'[b]), NextRound(a)' = NextRound(b)',
              Taken(Len(chain'[a]))
       PROVE  NextList(a)' = NextList(b)'
  <2>1. CASE a = n \/ b = n
    <3>1. Len(chain'[a]) = k + 1 /\ Taken(k + 1)
      BY <1>1, <1>4, <1>11, <2>1
    <3>. QED
      BY <1>8, <2>1, <3>1
  <2>2. CASE a # n /\ b # n
    BY <1>6, <1>11, <2>2 DEF SameListInv
  <2>. QED
    BY <2>1, <2>2
<1>12. ASSUME NEW a \in Core PROVE Taken(Len(chain[a]))' <=> Taken(Len(chain'[a]))
  <2>1. PICK l \in Nat : l = Len(chain'[a])
    BY <1>1, <1>4, <1>6
  <2>2. Taken(l)' <=> Taken(l)
    BY <1>3
  <2>. QED
    BY <2>1, <2>2
<1>. QED
  BY <1>2, <1>9, <1>10, <1>11, <1>12 DEF SameListInv

LEMMA StoringKeeps ==
  ASSUME IInv, Types', NEW n \in Nodes, NEW w \in Nodes, Settled(n, w),
         Stores(n, w), BlocksSent(n, w)
  PROVE  IInv'
<1>. Types /\ ConfigInv /\ VersionInv /\ RoundInv
  BY DEF IInv
<1>1. Moved' = Moved
  BY DEF Stores, Moved, Core
<1>2. Due(n)' <=> Due(n)
  BY DEF Stores, Due
<1>3. pc[n] \in Awaiting /\ pc'[n] \in {"loop", "done"}
  BY DEF Settled, Stores
<1>4. ConfigInv' /\ VersionInv' /\ PeersInv'
  <2>1. n \in Genesis => VersionOf(n)'
    <3>1. n \in Genesis => VersionOf(n)
      BY DEF VersionInv
    <3>. QED
      BY <1>1, <1>2, <1>3, <3>1 DEF VersionOf, Stores
  <2>2. n \in Joiners => conf'[n] = 2
    BY <1>3 DEF VersionInv, ListOf, Stores, Awaiting
  <2>. QED
    BY <1>3, <2>1, <2>2, RoundFrame DEF Stores, Same, Awaiting
<1>5. RoundInv'
  <2>1. RoundOf(n)'
    <3>1. Len(chain'[n]) = Len(chain[n]) + 1 /\ Len(chain[n]) \in Nat
      BY StoringFacts, ChainType
    <3>2. chain'[n] # <<>>
      BY <3>1
    <3>3. round'[n] = Len(chain'[n]) + 1
      BY <3>1 DEF Stores
    <3>. QED
      BY <1>3, <3>2, <3>3 DEF RoundOf
  <2>. QED
    BY <2>1, SameFacts DEF RoundInv, Stores
<1>. QED
  BY <1>4, <1>5, StoringMessages, StoringDecisions, StoringLists DEF IInv

\* StoreBlock is such a step.
LEMMA StoresByBlock ==
  ASSUME IInv, NEW n \in Nodes, NEW w \in Nodes, pc[n] \in Awaiting,
         StoreBlock(n, <<w, Len(chain[n])>>),
         UNCHANGED <<maVars, numbers, memberVars, comVars>>,
         \A x \in Nodes : x # n => winner'[x] = winner[x],
         MsgsOf("request")' = MsgsOf("request"),
         MsgsOf("reply")' = MsgsOf("reply"),
         \A o \in MsgsOf("announce")' : o \in MsgsOf("announce") /\ o.to # n,
         \A o \in MsgsOf("announce") : o.to # n => o \in MsgsOf("announce")'
  PROVE  Stores(n, w)
<1>. Types
  BY DEF IInv
<1>1. PICK k \in Nat : k = Len(chain[n])
  BY ChainType
<1>2. <<w, k>> \in Nodes \X Nat /\ StoreBlock(n, <<w, k>>)
  BY <1>1
<1>3. /\ \A x \in Nodes \ {n} :
           pc'[x] = pc[x] /\ round'[x] = round[x] /\ chain'[x] = chain[x]
      /\ pc'[n] \in {"loop", "done"}
      /\ chain'[n] = Append(chain[n], <<w, k>>)
      /\ round'[n] = Len(chain[n]) + 2
  BY <1>2, StoreBlockTypes
<1>4. UNCHANGED <<moving, configs, numbers, conf, current_version,
                  proposed_version, ma_writer_list, peers, connected, accepting>>
  BY DEF maVars, memberVars, comVars
<1>5. ASSUME NEW x \in Nodes, x # n PROVE Same(x)
  BY <1>3, <1>4, <1>5, SameListsOf DEF Same
<1>. QED
  BY <1>1, <1>3, <1>4, <1>5 DEF Stores

\* The winner stores its block and sends it to those that took part.
LEMMA WinKeeps ==
  ASSUME IInv, Types', NEW n \in Nodes, pc[n] = "await_announce",
         NEW m \in Receivable(n, "announce"), m.content = n,
         winner' = [winner EXCEPT ![n] = m.content],
         StoreBlock(n, <<n, Len(chain[n])>>),
         msgs' = (msgs \ {m}) \cup Broadcast("block", n, <<n, Len(chain[n])>>),
         UNCHANGED <<maVars, numbers, memberVars, comVars, in_sync>>
  PROVE  IInv' /\ Settled(n, n) /\ Stores(n, n)
<1>. Types /\ ConfigInv /\ VersionInv /\ PeersInv /\ AnnounceInv /\ BlockInv
     /\ Agreement
  BY DEF IInv
<1>1. m \in MsgsOf("announce") /\ m.to = n
  BY ReceivableFacts
<1>2. PICK k \in Nat : k = Len(chain[n])
  BY ChainType
<1>3. Decided(k, n)
  BY <1>1, <1>2 DEF Decided
<1>4. ~Unannounced(n) /\ ~Engaged(n)
  BY <1>1 DEF Unannounced, AnnounceInv
<1>5. \A x \in ma_writer_list[n] \ {n} :
        /\ pc[x] \in Awaiting /\ ~Engaged(x)
        /\ round[x] = round[n]
        /\ Len(chain[x]) = Len(chain[n])
  BY <1>1 DEF AnnounceInv
<1>6. /\ MsgsOf("request")' = MsgsOf("request")
      /\ MsgsOf("reply")' = MsgsOf("reply")
      /\ MsgsOf("announce")' = MsgsOf("announce") \ {m}
      /\ MsgsOf("block")' = MsgsOf("block")
           \cup Broadcast("block", n, <<n, Len(chain[n])>>)
  BY <1>1 DEF MsgsOf, Broadcast, Msg
<1>7. ASSUME NEW o \in MsgsOf("announce"), o.to = n PROVE o = m
  BY <1>1, <1>7, OneAnnouncement
<1>8. Stores(n, n)
  <2>1. pc[n] \in Awaiting
    BY DEF Awaiting
  <2>2. \A x \in Nodes : x # n => winner'[x] = winner[x]
    BY DEF Types
  <2>3. /\ \A o \in MsgsOf("announce")' : o \in MsgsOf("announce") /\ o.to # n
        /\ \A o \in MsgsOf("announce") : o.to # n => o \in MsgsOf("announce")'
    BY <1>1, <1>6, <1>7
  <2>. QED
    BY <1>6, <2>1, <2>2, <2>3, StoresByBlock
<1>9. Settled(n, n)
  <2>1. ASSUME NEW o \in MsgsOf("announce"), o.to # n, o.content = o.to,
               n \in ma_writer_list[o.to]
        PROVE  FALSE
    <3>1. PICK t \in Nodes : t = o.to /\ t # n
      BY <2>1, MsgTypes DEF MsgsOf
    <3>2. Len(chain[t]) = k
      BY <1>2, <2>1, <3>1 DEF AnnounceInv
    <3>3. Decided(k, t)
      BY <2>1, <3>1, <3>2 DEF Decided
    <3>. QED
      BY <1>3, <3>1, <3>3 DEF Agreement
  <2>. QED
    BY <1>2, <1>3, <1>4, <2>1 DEF Settled, Awaiting
<1>10. BlocksSent(n, n)
  <2>1. ASSUME NEW q \in MsgsOf("block"), q.to = n PROVE FALSE
    <3>1. /\ q.from # n /\ q.from \in Nodes
          /\ Decided(k, q.from)
      BY <1>2, <2>1, MsgTypes DEF BlockInv, MsgsOf
    <3>. QED
      BY <1>3, <3>1 DEF Agreement
  <2>2. ASSUME NEW q \in Broadcast("block", n, <<n, Len(chain[n])>>)
        PROVE  /\ q.from = n /\ q.to \in ma_writer_list[n] \ {n}
               /\ q.round = round[n] /\ q.content = <<n, Len(chain[n])>>
    <3>1. PICK x \in connected[n] : q = Msg("block", n, x, <<n, Len(chain[n])>>)
      BY DEF Broadcast
    <3>2. x \in ma_writer_list[n] \ {n}
      BY DEF PeersInv
    <3>. QED
      BY <3>1, <3>2 DEF Msg
  <2>. QED
    BY <1>5, <1>6, <2>1, <2>2 DEF BlocksSent
<1>. QED
  BY <1>8, <1>9, <1>10, StoringKeeps

\* An announcement taken by the winner or by another node.
LEMMA TakeAnnouncementKeeps ==
  ASSUME IInv, NEW n \in Nodes, TakeAnnouncement(n)
  PROVE  IInv'
<1>1. Types'
  BY RoundTypes
<1>2. /\ pc[n] = "await_announce"
      /\ UNCHANGED <<maVars, numbers, memberVars, comVars, in_sync>>
  BY DEF TakeAnnouncement
<1>3. PICK m \in Receivable(n, "announce") :
        /\ winner' = [winner EXCEPT ![n] = m.content]
        /\ \/ /\ m.content = n
              /\ StoreBlock(n, <<n, Len(chain[n])>>)
              /\ msgs' = (msgs \ {m}) \cup
                         Broadcast("block", n, <<n, Len(chain[n])>>)
           \/ /\ msgs' = msgs \ {m}
              /\ pc' = [pc EXCEPT ![n] = "await_block"]
              /\ UNCHANGED <<chain, round>>
  BY DEF TakeAnnouncement, IsWinner
<1>4. CASE /\ m.content = n
           /\ StoreBlock(n, <<n, Len(chain[n])>>)
           /\ msgs' = (msgs \ {m}) \cup
                      Broadcast("block", n, <<n, Len(chain[n])>>)
  BY <1>1, <1>2, <1>3, <1>4, WinKeeps
<1>5. CASE /\ msgs' = msgs \ {m}
           /\ pc' = [pc EXCEPT ![n] = "await_block"]
           /\ UNCHANGED <<chain, round>>
  <2>1. Lose(n, m)
    BY <1>3, <1>5 DEF Lose
  <2>. QED
    BY <1>1, <1>2, <2>1, LoseKeeps
<1>. QED
  BY <1>3, <1>4, <1>5

\* The block of the winner is received.
LEMMA ReceiveBlockKeeps ==
  ASSUME IInv, NEW n \in Nodes, ReceiveBlock(n)
  PROVE  IInv' /\ \E w \in Nodes : Settled(n, w) /\ Stores(n, w)
<1>. Types /\ ConfigInv /\ VersionInv /\ AnnounceInv /\ BlockInv /\ Agreement
  BY DEF IInv
<1>1. Types'
  BY RoundTypes
<1>2. /\ pc[n] = "await_block"
      /\ UNCHANGED <<maVars, numbers, winner, memberVars, comVars, in_sync>>
  BY DEF ReceiveBlock
<1>3. PICK m \in Receivable(n, "block") :
        /\ m.from = winner[n]
        /\ StoreBlock(n, m.content)
        /\ msgs' = msgs \ {m}
  BY DEF ReceiveBlock
<1>4. m \in MsgsOf("block") /\ m.to = n
  BY ReceivableFacts
<1>5. PICK w \in Nodes : w = m.from
  BY <1>4, MsgTypes DEF MsgsOf
<1>6. PICK k \in Nat : k = Len(chain[n])
  BY ChainType
<1>7. /\ w # n /\ m.content = <<w, k>> /\ m.round = round[n]
      /\ Decided(k, w) /\ Len(chain[w]) > k
  BY <1>4, <1>5, <1>6 DEF BlockInv
<1>8. /\ MsgsOf("request")' = MsgsOf("request")
      /\ MsgsOf("reply")' = MsgsOf("reply")
      /\ MsgsOf("announce")' = MsgsOf("announce")
      /\ MsgsOf("block")' = MsgsOf("block") \ {m}
  BY <1>3, <1>4 DEF MsgsOf
<1>9. \A o \in MsgsOf("announce") : o.to # n
  BY <1>2 DEF AnnounceInv
<1>10. Stores(n, w)
  <2>1. pc[n] \in Awaiting /\ StoreBlock(n, <<w, Len(chain[n])>>)
    BY <1>2, <1>3, <1>6, <1>7 DEF Awaiting
  <2>2. \A x \in Nodes : x # n => winner'[x] = winner[x]
    BY <1>2
  <2>. QED
    BY <1>2, <1>8, <1>9, <2>1, <2>2, StoresByBlock
<1>11. Settled(n, w)
  <2>1. ~Engaged(n)
    BY <1>2 DEF Engaged
  <2>2. ASSUME NEW o \in MsgsOf("announce"), o.to # n, o.content = o.to,
               n \in ma_writer_list[o.to]
        PROVE  FALSE
    <3>1. PICK t \in Nodes : t = o.to /\ t # n
      BY <2>2, MsgTypes DEF MsgsOf
    <3>2. Len(chain[t]) = k
      BY <1>6, <2>2, <3>1 DEF AnnounceInv
    <3>3. Decided(k, t)
      BY <2>2, <3>1, <3>2 DEF Decided
    <3>4. t = w
      BY <1>7, <3>3 DEF Agreement
    <3>. QED
      BY <1>6, <1>7, <3>2, <3>4
  <2>. QED
    BY <1>2, <1>6, <1>7, <2>1, <2>2 DEF Settled, Awaiting
<1>12. BlocksSent(n, w)
  <2>1. ASSUME NEW q \in MsgsOf("block"), q.to = n PROVE q = m
    <3>1. /\ q.from \in Nodes /\ Decided(k, q.from) /\ q.round = round[n]
          /\ q.content = <<q.from, k>>
      BY <1>6, <2>1, MsgTypes DEF BlockInv, MsgsOf
    <3>2. q.from = w
      BY <1>7, <3>1 DEF Agreement
    <3>3. /\ q = [type |-> "block", round |-> q.round, from |-> q.from,
                  to |-> q.to, content |-> q.content]
          /\ m = [type |-> "block", round |-> m.round, from |-> m.from,
                  to |-> m.to, content |-> m.content]
      BY <1>4, MsgTypes DEF MsgsOf
    <3>. QED
      BY <1>4, <1>5, <1>7, <2>1, <3>1, <3>2, <3>3
  <2>. QED
    BY <1>8, <2>1 DEF BlocksSent
<1>. QED
  BY <1>1, <1>10, <1>11, <1>12, StoringKeeps

\* The first state.
LEMMA InitInv ==
  ASSUME OneMoves, Init
  PROVE  IInv
<1>1. Types
  BY InitTypes
<1>2. /\ msgs = {} /\ accepting = {} /\ Latest = 1 /\ configs = <<Genesis>>
      /\ moving \in Scenarios
  BY DEF Init, Latest
<1>3. \A n \in Nodes :
        /\ pc[n] = (IF n \in Genesis THEN "join" ELSE "off")
        /\ round[n] = 0 /\ chain[n] = <<>> /\ Len(chain[n]) = 0
        /\ conf[n] = 1 /\ current_version[n] = 1 /\ proposed_version[n] = 0
        /\ ma_writer_list[n] = Genesis
        /\ peers[n] = (IF n \in Genesis THEN Genesis \ {n} ELSE {})
        /\ connected[n] = {}
  BY DEF Init
<1>4. /\ Genesis \subseteq Nodes /\ Joiners \subseteq Nodes
      /\ \A n \in Joiners : n \notin Genesis
      /\ Core \subseteq Genesis
  BY Ids, MembershipAssumption DEF Core
<1>5. ASSUME NEW l \in Nat, NEW w, Decided(l, w) PROVE FALSE
  <2>1. ASSUME NEW n \in Nodes PROVE ~(Len(chain[n]) > l) /\ pc[n] # "await_block"
    <3>1. Len(chain[n]) = 0 /\ pc[n] \in {"join", "off"}
      BY <1>3
    <3>. QED
      BY <3>1
  <2>2. MsgsOf("announce") = {}
    BY <1>2 DEF MsgsOf
  <2>. QED
    BY <1>5, <2>1, <2>2 DEF Decided
<1>6. \A l \in Nat : ~Taken(l)
  BY <1>5 DEF Taken
<1>7. ASSUME NEW n \in Nodes PROVE ~Due(n)
  <2>1. proposed_version[n] = 0 /\ current_version[n] = 1
    BY <1>3
  <2>. QED
    BY <2>1 DEF Due
<1>8. ConfigInv
  <2>1. \A a, b \in moving : a = b
    BY <1>2 DEF OneMoves
  <2>2. moving \subseteq Nodes
    BY <1>2, MembershipAssumption
  <2>3. /\ \A n \in Genesis : pc[n] = "join"
        /\ \A n \in Joiners : pc[n] = "off"
    BY <1>3, <1>4
  <2>4. Latest = 1
    BY <1>2
  <2>. HIDE DEF Latest
  <2>. QED
    BY <1>2, <2>1, <2>2, <2>3, <2>4 DEF ConfigInv
<1>9. VersionInv
  BY <1>3, <1>4 DEF VersionInv, VersionOf, ListOf
<1>10. PeersInv
  BY <1>2, <1>3, <1>4 DEF PeersInv
<1>11. RoundInv
  BY <1>3, <1>4, <1>7 DEF RoundInv, RoundOf, Counting
<1>12. RequestInv /\ ReplyInv /\ AnnounceInv /\ BlockInv
  BY <1>2 DEF RequestInv, ReplyInv, AnnounceInv, BlockInv, MsgsOf
<1>13. NumbersInv
  BY <1>3 DEF NumbersInv
<1>14. ChainInv /\ Agreement /\ CoreInv /\ JoinedInv /\ LeftInv
  <2>1. ChainInv
    <3>1. \A n \in Nodes : Len(chain[n]) = 0
      BY <1>3
    <3>. QED
      BY <3>1 DEF ChainInv
  <2>2. Agreement
    BY <1>5 DEF Agreement
  <2>3. CoreInv /\ JoinedInv /\ LeftInv
    BY <1>6 DEF CoreInv, JoinedInv, LeftInv, UpToDate
  <2>. QED
    BY <2>1, <2>2, <2>3
<1>15. SameListInv
  <2>1. \A n \in Core : /\ NowRound(n) = 0 /\ NowList(n) = Genesis
                        /\ Len(chain[n]) = 0
    BY <1>3, <1>4 DEF NowRound, NowList, Changes
  <2>. QED
    BY <1>6, <2>1 DEF SameListInv
<1>. QED
  BY <1>1, <1>8, <1>9, <1>10, <1>11, <1>12, <1>13, <1>14, <1>15 DEF IInv

LEMMA StutterKeeps ==
  ASSUME IInv, UNCHANGED vars
  PROVE  IInv'
<1>. Types /\ ConfigInv /\ VersionInv /\ PeersInv /\ RoundInv /\ RequestInv
  BY DEF IInv
<1>1. /\ UNCHANGED <<moving, configs, pc, round, chain, numbers, winner, conf,
                     current_version, proposed_version, ma_writer_list, peers,
                     connected, accepting, msgs>>
  BY DEF vars, maVars, roundVars, memberVars, comVars
<1>2. Latest' = Latest /\ Core' = Core /\ Moved' = Moved
  BY <1>1 DEF Latest, Core, Moved
<1>3. Types'
  BY <1>1, <1>2 DEF Types
<1>4. ConfigInv'
  BY <1>1, <1>2 DEF ConfigInv
<1>5. VersionInv'
  BY <1>1, <1>2 DEF VersionInv, VersionOf, ListOf, Due
<1>6. PeersInv'
  BY <1>1, <1>2 DEF PeersInv
<1>7. RequestInv'
  BY <1>1 DEF RequestInv, MsgsOf, GetVersion
<1>8. 0 \notin Nodes
  BY Ids
<1>9. Calm(0)
  BY <1>1, <1>8, SameListsOf, Ids DEF Calm, Same, MsgsOf
<1>. QED
  BY <1>3, <1>4, <1>5, <1>6, <1>7, <1>8, <1>9, CalmStep

\* Every step of the code keeps the invariant.
LEMMA NextKeeps ==
  ASSUME IInv, [Next]_vars
  PROVE  IInv'
<1>1. CASE UNCHANGED vars
  BY <1>1, StutterKeeps
<1>2. CASE Terminated
  BY <1>2, StutterKeeps DEF Terminated
<1>3. ASSUME NEW n \in Nodes,
             StartNode(n) \/ Activate(n) \/ FetchAbandoned(n) \/ Deactivate(n)
      PROVE  IInv'
  BY <1>3, StartNodeKeeps, ActivateKeeps, FetchAbandonedKeeps, DeactivateKeeps
<1>4. ASSUME NEW n \in Nodes, EngineStep(n)
      PROVE  IInv'
  <2>1. CASE JoinPoll(n) \/ JoinDone(n) \/ UpdateVersion(n)
    BY <2>1, JoinPollKeeps, JoinDoneKeeps, UpdateVersionKeeps
  <2>2. CASE StartCoordinator(n) \/ StartWriter(n)
    BY <2>2, StartCoordinatorKeeps, StartWriterKeeps
  <2>3. CASE AnswerRequest(n) \/ CollectReply(n) \/ AnnounceWinner(n)
    BY <2>3, AnswerRequestKeeps, CollectReplyKeeps, AnnounceWinnerKeeps
  <2>4. CASE TakeAnnouncement(n) \/ ReceiveBlock(n)
    BY <2>4, TakeAnnouncementKeeps, ReceiveBlockKeeps
  <2>. QED
    BY <1>4, <2>1, <2>2, <2>3, <2>4 DEF EngineStep
<1>5. ASSUME NEW n \in Nodes, ComStep(n)
      PROVE  IInv'
  BY <1>5, ComKeeps DEF ComStep
<1>. QED
  BY <1>1, <1>2, <1>3, <1>4, <1>5 DEF Next

----------------------------------------------------------------------------
(* The theorems.                                                            *)

\* When at most one node joins or leaves, the invariant holds in every state of
\* the network: whatever the ids, however many requests to the MA fail, and
\* whenever the node is started, activated, connected or taken out.
THEOREM MembershipInvariant == OneMoves => (Spec => []IInv)
<1>. SUFFICES ASSUME OneMoves PROVE Spec => []IInv
  OBVIOUS
<1>1. Init => IInv
  BY InitInv
<1>2. IInv /\ [Next]_vars => IInv'
  BY NextKeeps
<1>. QED
  BY <1>1, <1>2, PTL DEF Spec

\* Two chains have the same block wherever both have one.
LEMMA SameBlocks ==
  ASSUME IInv, NEW n \in Nodes, NEW m \in Nodes,
         NEW i \in 1 .. Len(chain[n]), i <= Len(chain[m])
  PROVE  chain[n][i] = chain[m][i]
<1>. Types /\ ChainInv /\ Agreement
  BY DEF IInv
<1>1. Len(chain[n]) \in Nat /\ Len(chain[m]) \in Nat
  BY ChainType
<1>2. PICK l \in Nat : i = l + 1 /\ Len(chain[n]) > l /\ Len(chain[m]) > l
  <2>1. i - 1 \in Nat
    OBVIOUS
  <2>. QED
    BY <1>1, <2>1
<1>3. /\ chain[n][i] \in Nodes \X Nat /\ Decided(l, chain[n][i][1])
      /\ chain[m][i] \in Nodes \X Nat /\ Decided(l, chain[m][i][1])
  BY <1>2, StoredIsTaken
<1>4. chain[n][i][1] = chain[m][i][1]
  BY <1>3 DEF Agreement
<1>5. chain[n][i][2] = l /\ chain[m][i][2] = l
  BY <1>1, <1>2 DEF ChainInv
<1>. QED
  BY <1>3, <1>4, <1>5

LEMMA PrefixOfLonger ==
  ASSUME IInv, NEW n \in Nodes, NEW m \in Nodes,
         Len(chain[n]) <= Len(chain[m])
  PROVE  IsPrefix(chain[n], chain[m])
<1>. Types
  BY DEF IInv
<1>1. PICK k \in Nat : k = Len(chain[n])
  BY ChainType
<1>2. \A i \in 1 .. k : chain[n][i] = chain[m][i]
  <2>1. Len(chain[m]) \in Nat
    BY ChainType
  <2>. QED
    BY <1>1, <2>1, SameBlocks
<1>3. SubSeq(chain[n], 1, k) = SubSeq(chain[m], 1, k)
  BY <1>2
<1>. QED
  BY <1>1, <1>3 DEF IsPrefix

\* No two nodes store different blocks at the same height, those that joined
\* later included, as long as at most one node joins or leaves: for any first
\* configuration, any ids and any failures of requests to the MA.
THEOREM ChainsAgreeHolds == OneMoves => (Spec => []ChainsAgree)
<1>. SUFFICES ASSUME OneMoves PROVE Spec => []ChainsAgree
  OBVIOUS
<1>1. IInv => ChainsAgree
  <2>. SUFFICES ASSUME IInv, NEW n \in Nodes, NEW m \in Nodes
                PROVE  \/ IsPrefix(chain[n], chain[m])
                       \/ IsPrefix(chain[m], chain[n])
    BY DEF ChainsAgree
  <2>1. Len(chain[n]) \in Nat /\ Len(chain[m]) \in Nat
    BY ChainType DEF IInv
  <2>. QED
    BY <2>1, PrefixOfLonger
<1>. QED
  BY <1>1, MembershipInvariant, PTL

----------------------------------------------------------------------------
(* What a step decides.                                                     *)

\* Nothing is decided unless a block is stored or an announcement sent.
LEMMA NothingTaken ==
  ASSUME IInv, Types',
         \A x \in Nodes : Copied(chain'[x]),
         \A x \in Nodes : pc'[x] = "await_block" =>
           /\ pc[x] = "await_block" /\ chain'[x] = chain[x]
           /\ winner'[x] = winner[x],
         \A m \in MsgsOf("announce")' :
           m \in MsgsOf("announce") /\ chain'[m.to] = chain[m.to],
         NEW l \in Nat, Taken(l)'
  PROVE  Taken(l)
<1>. Types
  BY DEF IInv
<1>1. PICK w \in Nodes : Decided(l, w)'
  BY DEF Taken
<1>2. CASE \E n \in Nodes : Len(chain'[n]) > l /\ chain'[n][l + 1][1] = w
  <2>1. PICK n \in Nodes : Len(chain'[n]) > l /\ chain'[n][l + 1][1] = w
    BY <1>2
  <2>2. Len(chain'[n]) \in Nat
    BY DEF Types
  <2>3. l + 1 \in 1 .. Len(chain'[n])
    BY <2>1, <2>2
  <2>4. PICK y \in Nodes : l + 1 \in 1 .. Len(chain[y])
    BY <2>3 DEF Copied
  <2>5. Len(chain[y]) > l
    BY <2>4, ChainType
  <2>. QED
    BY <2>5, StoredIsTaken
<1>3. CASE \E n \in Nodes :
             pc'[n] = "await_block" /\ Len(chain'[n]) = l /\ winner'[n] = w
  BY <1>3 DEF Decided, Taken
<1>4. CASE \E m \in MsgsOf("announce")' : Len(chain'[m.to]) = l /\ m.content = w
  BY <1>4 DEF Decided, Taken
<1>. QED
  BY <1>1, <1>2, <1>3, <1>4 DEF Decided

\* A node is started, activated, taken out, or fetches the chain.
LEMMA ConfigsTaken ==
  ASSUME IInv, IInv', NEW n \in Nodes, Fetching(n) \/ Deactivate(n)
  PROVE  \A l \in Nat : Taken(l)' => Taken(l)
<1>. Types /\ Types' /\ AnnounceInv
  BY DEF IInv
<1>1. winner' = winner /\ msgs' = msgs
  BY DEF Fetching, StartNode, Activate, FetchAbandoned, Deactivate, JoinPoll, roundVars
<1>2. ASSUME NEW x \in Nodes, x # n \/ Deactivate(n)
      PROVE  pc'[x] = pc[x] /\ chain'[x] = chain[x]
  <2>1. CASE Deactivate(n)
    BY <2>1 DEF Deactivate
  <2>2. CASE Fetching(n) /\ x # n
    <3>1. chain'[x] = chain[x]
      BY <2>2, FetchingFetches
    <3>2. pc'[x] = pc[x]
      BY <2>2 DEF Fetching, StartNode, Activate, FetchAbandoned, JoinPoll, Types
    <3>. QED
      BY <3>1, <3>2
  <2>. QED
    BY <1>2, <2>1, <2>2
<1>3. ASSUME NEW x \in Nodes PROVE Copied(chain'[x])
  <2>1. CASE x # n \/ Deactivate(n)
    BY <1>2, <2>1, OwnIsCopied
  <2>2. CASE x = n /\ Fetching(n)
    BY <2>2, FetchingFetches
  <2>. QED
    BY <2>1, <2>2
<1>4. Fetching(n) => pc[n] \notin Awaiting /\ pc'[n] \notin Awaiting
  <2>1. pc \in [Nodes -> Phases]
    BY DEF Types
  <2>2. /\ StartNode(n) => pc[n] = "off" /\ pc' = [pc EXCEPT ![n] = "fetch"]
        /\ Activate(n) => pc[n] = "fetch" /\ pc' = [pc EXCEPT ![n] = "join"]
        /\ FetchAbandoned(n) => pc[n] = "fetch" /\ pc' = pc
        /\ JoinPoll(n) => pc[n] \in {"join", "rejoin"} /\ pc' = pc
    BY DEF StartNode, Activate, FetchAbandoned, JoinPoll
  <2>. QED
    BY <2>1, <2>2 DEF Fetching, Awaiting
<1>5. ASSUME NEW x \in Nodes, pc'[x] = "await_block"
      PROVE  pc[x] = "await_block" /\ chain'[x] = chain[x] /\ winner'[x] = winner[x]
  <2>1. x # n \/ Deactivate(n)
    BY <1>4, <1>5 DEF Awaiting
  <2>. QED
    BY <1>1, <1>2, <1>5, <2>1
<1>6. ASSUME NEW m \in MsgsOf("announce")'
      PROVE  m \in MsgsOf("announce") /\ chain'[m.to] = chain[m.to]
  <2>1. m \in MsgsOf("announce") /\ m.to \in Nodes
    BY <1>1, MsgTypes DEF MsgsOf
  <2>2. pc[m.to] \in Awaiting
    BY <2>1 DEF AnnounceInv, Awaiting
  <2>3. m.to # n \/ Deactivate(n)
    BY <1>4, <2>2
  <2>. QED
    BY <1>2, <2>1, <2>3
<1>. QED
  BY <1>3, <1>5, <1>6, NothingTaken

\* A node takes the announcement of another one's block.
LEMMA LoseTaken ==
  ASSUME IInv, IInv', NEW n \in Nodes,
         NEW m \in Receivable(n, "announce"), Lose(n, m)
  PROVE  \A l \in Nat : Taken(l)' => Taken(l)
<1>. Types /\ Types'
  BY DEF IInv
<1>1. m \in MsgsOf("announce") /\ m.to = n
  BY ReceivableFacts
<1>2. /\ chain' = chain /\ winner'[n] = m.content
      /\ \A x \in Nodes : x # n => pc'[x] = pc[x] /\ winner'[x] = winner[x]
  BY DEF Lose, Types
<1>3. MsgsOf("announce")' \subseteq MsgsOf("announce")
  BY <1>1 DEF Lose, MsgsOf
<1>4. ASSUME NEW l \in Nat, Taken(l)' PROVE Taken(l)
  <2>1. PICK v \in Nodes : Decided(l, v)'
    BY <1>4 DEF Taken
  <2>2. CASE \E x \in Nodes : Len(chain'[x]) > l /\ chain'[x][l + 1][1] = v
    BY <1>2, <2>2 DEF Decided, Taken
  <2>3. CASE \E x \in Nodes :
               pc'[x] = "await_block" /\ Len(chain'[x]) = l /\ winner'[x] = v
    <3>1. PICK x \in Nodes :
            pc'[x] = "await_block" /\ Len(chain'[x]) = l /\ winner'[x] = v
      BY <2>3
    <3>2. CASE x = n
      BY <1>1, <1>2, <3>1, <3>2 DEF Decided, Taken
    <3>3. CASE x # n
      BY <1>2, <3>1, <3>3 DEF Decided, Taken
    <3>. QED
      BY <3>2, <3>3
  <2>4. CASE \E o \in MsgsOf("announce")' : Len(chain'[o.to]) = l /\ o.content = v
    BY <1>2, <1>3, <2>4 DEF Decided, Taken
  <2>. QED
    BY <2>1, <2>2, <2>3, <2>4 DEF Decided
<1>. QED
  BY <1>4

\* The coordinator announces a winner.
LEMMA AnnounceTaken ==
  ASSUME IInv, IInv', NEW n \in Nodes, AnnounceWinner(n)
  PROVE  \A l \in Nat : Taken(l)' => Taken(l) \/ l = Len(chain[n])
<1>. Types /\ Types' /\ PeersInv /\ NumbersInv
  BY DEF IInv
<1>1. PICK w \in numbers[n] \cap ma_writer_list[n] :
        /\ winner' = [winner EXCEPT ![n] = w]
        /\ msgs' = msgs \cup Broadcast("announce", n, w)
  BY DEF AnnounceWinner
<1>2. /\ chain' = chain /\ pc[n] = "collect"
      /\ \A x \in Nodes : x # n => pc'[x] = pc[x] /\ winner'[x] = winner[x]
      /\ Cardinality(numbers[n]) >= RepliesNeeded(n)
  BY <1>1 DEF AnnounceWinner, Types
<1>3. numbers[n] = ma_writer_list[n] \ {n}
  BY <1>2, AllReplied
<1>4. MsgsOf("announce")' = MsgsOf("announce") \cup Broadcast("announce", n, w)
  BY <1>1 DEF MsgsOf, Broadcast, Msg
<1>5. PICK k \in Nat : k = Len(chain[n])
  BY ChainType
<1>6. ASSUME NEW l \in Nat, Taken(l)' PROVE Taken(l) \/ l = k
  <2>1. PICK v \in Nodes : Decided(l, v)'
    BY <1>6 DEF Taken
  <2>2. CASE \E x \in Nodes : Len(chain'[x]) > l /\ chain'[x][l + 1][1] = v
    BY <1>2, <2>2 DEF Decided, Taken
  <2>3. CASE \E x \in Nodes :
               pc'[x] = "await_block" /\ Len(chain'[x]) = l /\ winner'[x] = v
    <3>1. PICK x \in Nodes :
            pc'[x] = "await_block" /\ Len(chain'[x]) = l /\ winner'[x] = v
      BY <2>3
    <3>2. CASE x = n
      BY <1>2, <1>5, <3>1, <3>2
    <3>3. CASE x # n
      BY <1>2, <3>1, <3>3 DEF Decided, Taken
    <3>. QED
      BY <3>2, <3>3
  <2>4. CASE \E m \in MsgsOf("announce")' : Len(chain'[m.to]) = l /\ m.content = v
    <3>1. PICK m \in MsgsOf("announce")' : Len(chain'[m.to]) = l /\ m.content = v
      BY <2>4
    <3>2. CASE m \in MsgsOf("announce")
      BY <1>2, <3>1, <3>2 DEF Decided, Taken
    <3>3. CASE m \in Broadcast("announce", n, w)
      <4>1. m.to \in connected[n]
        BY <3>3 DEF Broadcast, Msg
      <4>2. m.to \in numbers[n]
        BY <1>3, <4>1 DEF PeersInv
      <4>3. Len(chain[m.to]) = k
        BY <1>2, <1>5, <4>2 DEF NumbersInv
      <4>. QED
        BY <1>2, <3>1, <4>3
    <3>. QED
      BY <1>4, <3>1, <3>2, <3>3
  <2>. QED
    BY <2>1, <2>2, <2>3, <2>4 DEF Decided
<1>. QED
  BY <1>5, <1>6

----------------------------------------------------------------------------
(* The lists of writers, while no request to the MA fails.                   *)

\* What a writer of the first configuration knows.
LEMMA WriterFacts ==
  ASSUME IInv, ListsInv, NEW x \in Genesis
  PROVE  /\ x \in Nodes /\ Len(chain[x]) \in Nat
         /\ ma_writer_list[x] \in {Genesis, Moved}
         /\ Due(x) => /\ current_version[x] = 1 /\ conf[x] = 2 /\ Latest = 2
                      /\ proposed_version[x] = 2
                      /\ ma_writer_list[x] = Genesis /\ ListsOf(x) = Moved
         /\ ma_writer_list[x] = Moved => NowList(x) = Moved /\ NextList(x) = Moved
         /\ NowList(x) = Moved => NextList(x) = Moved
         /\ ~Changes(x) => NowList(x) = ma_writer_list[x]
         /\ GetVersion(x) \in 1 .. Latest
         /\ NextList(x) = configs[GetVersion(x)]
         /\ current_version[x] \in 1 .. Latest
<1>. Types /\ ConfigInv /\ VersionInv
  BY DEF IInv
<1>1. x \in Nodes
  BY Ids
<1>2. /\ Latest \in {1, 2}
      /\ current_version[x] \in Nat /\ current_version[x] <= Latest
      /\ current_version[x] # 0 /\ ma_writer_list[x] = configs[current_version[x]]
      /\ proposed_version[x] \in Nat /\ proposed_version[x] <= Latest
      /\ VersionOf(x)
  BY <1>1, VersionNumbers DEF ListsInv, VersionInv
<1>3. configs[1] = Genesis /\ (Latest = 2 => configs[2] = Moved)
  BY DEF ConfigInv, Latest
<1>4. ASSUME Due(x)
      PROVE  /\ current_version[x] = 1 /\ conf[x] = 2 /\ Latest = 2
             /\ proposed_version[x] = 2
             /\ ma_writer_list[x] = Genesis /\ ListsOf(x) = Moved
  BY <1>2, <1>3, <1>4 DEF Due, VersionOf, ListsOf
<1>5. ma_writer_list[x] \in {Genesis, Moved}
  BY <1>2 DEF VersionOf
<1>6. GetVersion(x) = IF Due(x) THEN proposed_version[x] ELSE current_version[x]
  BY <1>1, <1>2, VersionNumbers DEF Due
<1>7. NextList(x) = configs[GetVersion(x)] /\ GetVersion(x) \in 1 .. Latest
  <2>1. CASE Due(x)
    BY <1>2, <1>3, <1>4, <1>6, <2>1 DEF NextList
  <2>2. CASE ~Due(x)
    BY <1>2, <1>6, <2>2 DEF NextList
  <2>. QED
    BY <2>1, <2>2
<1>8. ma_writer_list[x] = Moved => NowList(x) = Moved /\ NextList(x) = Moved
  BY <1>4 DEF NowList, NextList, Changes
<1>9. /\ NowList(x) = Moved => NextList(x) = Moved
      /\ ~Changes(x) => NowList(x) = ma_writer_list[x]
  BY <1>8 DEF NowList, NextList, Changes
<1>. QED
  BY <1>1, <1>2, <1>4, <1>5, <1>7, <1>8, <1>9, ChainType

\* A writer takes part in what is decided at its height or above, unless it
\* has left and the others know.
LEMMA WithoutWriter ==
  ASSUME IInv, NEW x \in Genesis, NEW l \in Nat, Taken(l), l >= Len(chain[x]),
         l = Len(chain[x]) => pc[x] \notin Awaiting
  PROVE  /\ x \in moving \cap Genesis
         /\ \A n \in Core : ma_writer_list[n] = Moved
<1>. Types /\ CoreInv /\ LeftInv
  BY DEF IInv
<1>1. x \in Nodes /\ Len(chain[x]) \in Nat
  BY Ids, ChainType
<1>2. x \notin Core
  BY <1>1 DEF CoreInv, UpToDate, Bound
<1>3. x \in moving \cap Genesis
  BY <1>2 DEF Core
<1>. QED
  BY <1>3 DEF LeftInv

----------------------------------------------------------------------------
\* A step that stores nothing at the nodes of the first configuration and in
\* which nothing is decided; who learns of a version is not behind a decision.
Quiet ==
  /\ moving' = moving
  /\ \A x \in Genesis :
       /\ chain'[x] = chain[x] /\ NowList(x)' = NowList(x)
       /\ \/ NextList(x)' = NextList(x)
          \/ \A l \in Nat : Taken(l) => l < Len(chain[x])
  /\ \A l \in Nat : Taken(l)' => Taken(l)

LEMMA QuietHeights ==
  ASSUME IInv, HeightInv, Quiet
  PROVE  HeightInv'
<1>. Types
  BY DEF IInv
<1>1. ASSUME NEW x \in Genesis PROVE x \in Nodes /\ Len(chain[x]) \in Nat
  BY Ids, ChainType
<1>2. ASSUME NEW x \in Genesis, Taken(Len(chain[x]))
      PROVE  NextList(x)' = NextList(x)
  BY <1>1, <1>2 DEF Quiet
<1>3. ASSUME NEW x \in Genesis
      PROVE  chain'[x] = chain[x] /\ NowList(x)' = NowList(x)
  BY DEF Quiet
<1>4. ASSUME NEW a \in Genesis, NEW b \in Genesis, Len(chain[b]) = Len(chain[a]) + 1
      PROVE  NextList(a)' = NowList(b)'
  <2>1. Taken(Len(chain[a]))
    BY <1>1, <1>4, StoredIsTaken
  <2>. QED
    BY <1>2, <1>3, <1>4, <2>1 DEF HeightInv
<1>5. ASSUME NEW a \in Genesis, NEW b \in Genesis, Len(chain[a]) = Len(chain[b]),
             Taken(Len(chain[a]))'
      PROVE  NextList(a)' = NextList(b)'
  <2>1. PICK l \in Nat : l = Len(chain[a]) /\ l = Len(chain[b]) /\ l = Len(chain'[a])
    BY <1>1, <1>3, <1>5
  <2>2. Taken(l)'
    BY <1>5, <2>1
  <2>3. Taken(Len(chain[a])) /\ Taken(Len(chain[b]))
    BY <2>1, <2>2 DEF Quiet
  <2>. QED
    BY <1>2, <1>5, <2>3 DEF HeightInv
<1>. QED
  BY <1>3, <1>4, <1>5 DEF HeightInv

\* What a writer was told stays what the coordinator told it.
Heard(x) ==
  \/ pc'[x] \notin {"collect", "await_announce"}
  \/ /\ pc'[x] = pc[x] /\ numbers'[x] \subseteq numbers[x]
     /\ NextList(x)' = NextList(x)
  \/ pc'[x] = "collect" /\ pc[x] # "collect" /\ numbers'[x] = {}

LEMMA ToldStays ==
  ASSUME IInv, IInv', ToldInv, \A x \in Genesis : Heard(x),
         \A m \in MsgsOf("reply")' : m \in MsgsOf("reply")
  PROVE  ToldInv'
<1>1. ASSUME NEW m \in MsgsOf("reply")', {m.from, m.to} \subseteq Genesis
      PROVE  NextList(m.from)' = NextList(m.to)'
  <2>1. PICK f \in Genesis, t \in Genesis : f = m.from /\ t = m.to
    BY <1>1
  <2>2. NextList(f) = NextList(t) /\ pc[f] = "await_announce" /\ pc[t] = "collect"
    BY <1>1, <2>1 DEF ToldInv, IInv, ReplyInv
  <2>3. pc'[f] = "await_announce" /\ pc'[t] = "collect"
    BY <1>1, <2>1 DEF IInv, ReplyInv
  <2>4. NextList(f)' = NextList(f) /\ NextList(t)' = NextList(t)
    BY <2>2, <2>3 DEF Heard
  <2>. QED
    BY <2>1, <2>2, <2>4
<1>2. ASSUME NEW c \in Genesis, NEW n \in (numbers'[c]) \cap Genesis,
             pc'[c] = "collect"
      PROVE  NextList(n)' = NextList(c)'
  <2>1. /\ pc[c] = "collect" /\ n \in numbers[c] /\ NextList(c)' = NextList(c)
    BY <1>2 DEF Heard
  <2>2. c \in Nodes
    BY Ids
  <2>3. pc'[n] = "await_announce"
    BY <1>2, <2>2 DEF IInv, NumbersInv
  <2>4. NextList(n)' = NextList(n)
    BY <2>3 DEF Heard
  <2>. QED
    BY <2>1, <2>4 DEF ToldInv
<1>. QED
  BY <1>1, <1>2 DEF ToldInv

\* Nobody's list changes, and what a writer that leaves knows stays.
LEMMA LeaverStays ==
  ASSUME LeaverInv, moving' = moving,
         \A x \in Genesis : ma_writer_list'[x] = ma_writer_list[x],
         \A h \in moving \cap Genesis :
           /\ NextList(h)' = NextList(h)
           /\ \/ pc'[h] = pc[h] \/ ma_writer_list[h] # Moved
              \/ pc'[h] \in {"rejoin", "ready", "await_request"}
  PROVE  LeaverInv'
<1>1. Core' = Core /\ Moved' = Moved /\ Core \subseteq Genesis
  BY DEF Core, Moved
<1>2. ASSUME NEW h \in moving \cap Genesis
      PROVE  /\ (\E n \in Core : ma_writer_list'[n] = Moved) => NextList(h)' = Moved
             /\ ma_writer_list'[h] = Moved =>
                  pc'[h] \in {"rejoin", "ready", "await_request"}
  <2>1. (\E n \in Core : ma_writer_list'[n] = Moved) => NextList(h)' = Moved
    BY <1>1 DEF LeaverInv
  <2>2. ma_writer_list'[h] = Moved => pc'[h] \in {"rejoin", "ready", "await_request"}
    BY DEF LeaverInv
  <2>. QED
    BY <2>1, <2>2
<1>. QED
  BY <1>1, <1>2 DEF LeaverInv

----------------------------------------------------------------------------
(* The steps between two rounds.                                            *)

\* Requests to the MA do not fail.
LEMMA Answered ==
  ASSUME MaxMAFailures = 0, ListsInv
  PROVE  ~MAFails /\ (MAAnswers => maFailures' = 0)
BY DEF MAFails, MAAnswers, ListsInv

\* A step of a node of the first configuration x or of another, that leaves
\* the lists and versions of all these alone.
LEMMA ListsStay ==
  ASSUME IInv, IInv', ListsInv, maFailures' = 0,
         \A x \in Genesis : /\ current_version'[x] = current_version[x]
                            /\ ma_writer_list'[x] = ma_writer_list[x],
         \A v \in 1 .. Latest : configs'[v] = configs[v]
  PROVE  ListsInv'
<1>1. ASSUME NEW x \in Genesis
      PROVE  /\ current_version'[x] # 0
             /\ ma_writer_list'[x] = configs'[current_version'[x]]
  BY WriterFacts DEF ListsInv
<1>. QED
  BY <1>1 DEF ListsInv

\* A node joins or leaves: the writers do not know yet.
LEMMA ConfigsEqual ==
  ASSUME IInv, IInv', EqualInv, MaxMAFailures = 0, NEW n \in Nodes,
         Fetching(n) \/ Deactivate(n)
  PROVE  EqualInv'
<1>. Types /\ Types' /\ ConfigInv
  BY DEF IInv
<1>1. /\ moving' = moving /\ maFailures' = 0 /\ winner' = winner /\ msgs' = msgs
      /\ numbers' = numbers /\ proposed_version' = proposed_version
  BY Answered DEF Fetching, StartNode, Activate, FetchAbandoned, Deactivate,
                  JoinPoll, maVars, roundVars,
                  memberVars, WaitingNodeGetConf, EqualInv, ListsInv
<1>2. Latest \in {1, 2} /\ \A v \in 1 .. Latest : configs'[v] = configs[v]
  <2>1. configs' = configs \/ \E S : configs' = Append(configs, S)
    BY DEF Fetching, StartNode, Activate, FetchAbandoned, Deactivate, JoinPoll, maVars
  <2>2. \A S : configs = <<Genesis>> => Append(configs, S)[1] = Genesis
    BY AppendToOne
  <2>3. configs = <<Genesis, Moved>> => \A S : Append(configs, S)[1] = Genesis
                                          /\ Append(configs, S)[2] = Moved
    OBVIOUS
  <2>4. Latest \in {1, 2}
    BY DEF ConfigInv, Latest
  <2>. QED
    BY <2>1, <2>2, <2>3, <2>4 DEF ConfigInv, Latest
<1>3. ASSUME NEW x \in Genesis PROVE Same(x)
  <2>1. x \in Nodes /\ x \notin Joiners /\ pc[x] \notin {"off", "fetch"}
    BY MembershipAssumption, Ids DEF ConfigInv
  <2>2. x = n => Deactivate(n)
    BY <2>1 DEF Fetching, StartNode, Activate, FetchAbandoned, JoinPoll
  <2>3. /\ pc'[x] = pc[x] /\ round' = round
        /\ conf'[x] = conf[x] /\ current_version'[x] = current_version[x]
        /\ ma_writer_list'[x] = ma_writer_list[x]
    <3>1. CASE Deactivate(n)
      BY <3>1 DEF Deactivate, memberVars, roundVars
    <3>2. CASE StartNode(n) /\ x # n
      BY <2>1, <3>2 DEF StartNode, roundVars, Types
    <3>3. CASE Activate(n) /\ x # n
      BY <2>1, <3>3 DEF Activate, roundVars, Types
    <3>4. CASE FetchAbandoned(n)
      BY <3>4 DEF FetchAbandoned, memberVars, roundVars
    <3>5. CASE JoinPoll(n) /\ x # n
      BY <2>1, <3>5 DEF JoinPoll, WaitingNodeGetConf, roundVars, Types
    <3>. QED
      BY <2>2, <3>1, <3>2, <3>3, <3>4, <3>5 DEF Fetching
  <2>5. chain'[x] = chain[x]
    <3>1. CASE x = n
      BY <2>2, <3>1 DEF Deactivate
    <3>2. CASE x # n /\ Fetching(n)
      BY <2>1, <3>2, FetchingFetches
    <3>3. CASE Deactivate(n)
      BY <3>3 DEF Deactivate
    <3>. QED
      BY <3>1, <3>2, <3>3
  <2>4. ListsOf(x)' = ListsOf(x)
    BY <1>2, <2>1, <2>3 DEF ListsOf, Types
  <2>. QED
    BY <1>1, <2>3, <2>4, <2>5 DEF Same
<1>4. Quiet
  <2>1. \A l \in Nat : Taken(l)' => Taken(l)
    BY ConfigsTaken
  <2>2. ASSUME NEW x \in Genesis
        PROVE  /\ chain'[x] = chain[x] /\ NowList(x)' = NowList(x)
               /\ NextList(x)' = NextList(x)
    BY <1>3, SameFacts DEF Same
  <2>. QED
    BY <1>1, <2>1, <2>2 DEF Quiet
<1>5. HeightInv'
  BY <1>4, QuietHeights DEF EqualInv
<1>6. ToldInv'
  <2>1. \A x \in Genesis : Heard(x)
    BY <1>3, SameFacts DEF Heard, Same
  <2>. QED
    BY <1>1, <2>1, ToldStays DEF EqualInv, MsgsOf
<1>7. LeaverInv'
  BY <1>1, <1>3, SameFacts, LeaverStays DEF EqualInv, Same
<1>8. ListsInv'
  BY <1>1, <1>2, <1>3, ListsStay DEF EqualInv, Same
<1>. QED
  BY <1>5, <1>6, <1>7, <1>8 DEF EqualInv

\* Steps that store nothing, and send and take no reply and no announcement.
LEMMA NothingStored ==
  ASSUME IInv, Types', UNCHANGED <<moving, chain, winner>>,
         MsgsOf("announce")' = MsgsOf("announce"),
         \A x \in Nodes : pc'[x] = "await_block" => pc[x] = "await_block",
         \A x \in Genesis : NowList(x)' = NowList(x),
         \A x \in Genesis : \/ NextList(x)' = NextList(x)
                            \/ \A l \in Nat : Taken(l) => l < Len(chain[x])
  PROVE  Quiet
<1>1. \A x \in Nodes : Copied(chain'[x])
  BY OwnIsCopied DEF IInv
<1>2. \A l \in Nat : Taken(l)' => Taken(l)
  BY <1>1, NothingTaken
<1>. QED
  BY <1>2 DEF Quiet

\* join_writer_set returns.
LEMMA JoinDoneEqual ==
  ASSUME IInv, IInv', EqualInv, NEW n \in Nodes, JoinDone(n)
  PROVE  EqualInv'
<1>. Types /\ Types' /\ ConfigInv /\ RoundInv
  BY DEF IInv
<1>1. /\ UNCHANGED <<moving, configs, maFailures, winner, chain, numbers, conf,
                     current_version, proposed_version, ma_writer_list, msgs>>
      /\ pc[n] \in {"join", "rejoin"}
      /\ pc'[n] = IF pc[n] = "join" THEN "loop" ELSE "ready"
      /\ \A x \in Nodes : x # n => pc'[x] = pc[x]
  BY DEF JoinDone, maVars, memberVars, Types
<1>2. ASSUME NEW x \in Genesis
      PROVE  NowList(x)' = NowList(x) /\ NextList(x)' = NextList(x)
  <2>1. x \in Nodes
    BY Ids
  <2>2. Changes(x)' <=> Changes(x)
    BY <1>1, <2>1 DEF Changes, RoundInv, RoundOf, Due
  <2>. QED
    BY <1>1, <2>2 DEF NowList, NextList, ListsOf, Due
<1>3. Quiet
  BY <1>1, <1>2, NothingStored DEF MsgsOf
<1>4. HeightInv'
  BY <1>3, QuietHeights DEF EqualInv
<1>5. ToldInv'
  <2>1. \A x \in Genesis : Heard(x)
    BY <1>1, <1>2, Ids DEF Heard
  <2>. QED
    BY <1>1, <2>1, ToldStays DEF EqualInv, MsgsOf
<1>6. LeaverInv'
  <2>1. ASSUME NEW h \in moving \cap Genesis
        PROVE  \/ pc'[h] = pc[h] \/ ma_writer_list[h] # Moved
               \/ pc'[h] \in {"rejoin", "ready", "await_request"}
    BY <1>1, Ids DEF EqualInv, LeaverInv
  <2>. QED
    BY <1>1, <1>2, <2>1, LeaverStays DEF EqualInv
<1>7. ListsInv'
  BY <1>1, ListsStay DEF EqualInv, ListsInv
<1>. QED
  BY <1>4, <1>5, <1>6, <1>7 DEF EqualInv

\* update_version and set_active_nodes.
LEMMA UpdateVersionEqual ==
  ASSUME IInv, IInv', EqualInv, NEW n \in Nodes, UpdateVersion(n)
  PROVE  EqualInv'
<1>. Types /\ Types' /\ ConfigInv /\ VersionInv
  BY DEF IInv
<1>. ListsInv /\ HeightInv /\ LeaverInv
  BY DEF EqualInv
<1>1. /\ UNCHANGED <<moving, configs, maFailures, winner, chain, numbers, conf,
                     proposed_version, msgs>>
      /\ pc[n] = "loop" /\ Due(n) /\ pc'[n] = "rejoin"
      /\ ma_writer_list'[n] = ListsOf(n)
      /\ current_version'[n] = proposed_version[n]
      /\ \A x \in Nodes : x # n => /\ pc'[x] = pc[x]
                                   /\ ma_writer_list'[x] = ma_writer_list[x]
                                   /\ current_version'[x] = current_version[x]
  BY DEF UpdateVersion, maVars, roundVars, Types, Due
<1>2. ASSUME NEW x \in Genesis
      PROVE  NowList(x)' = NowList(x) /\ NextList(x)' = NextList(x)
  <2>1. x \in Nodes /\ ListsOf(x)' = ListsOf(x)
    BY <1>1, Ids DEF ListsOf
  <2>2. CASE x = n
    <3>1. Changes(n) /\ ~Changes(n)' /\ ~Due(n)'
      BY <1>1 DEF Changes, Due, Types
    <3>. QED
      BY <1>1, <2>2, <3>1 DEF NowList, NextList
  <2>3. CASE x # n
    <3>1. (Due(x)' <=> Due(x)) /\ (Changes(x)' <=> Changes(x))
      BY <1>1, <2>1, <2>3 DEF Changes, Due
    <3>. QED
      BY <1>1, <2>1, <2>3, <3>1 DEF NowList, NextList
  <2>. QED
    BY <2>2, <2>3
<1>3. Quiet
  BY <1>1, <1>2, NothingStored DEF MsgsOf
<1>4. HeightInv'
  BY <1>3, QuietHeights
<1>5. ToldInv'
  <2>1. \A x \in Genesis : Heard(x)
    BY <1>1, <1>2, Ids DEF Heard
  <2>. QED
    BY <1>1, <2>1, ToldStays DEF EqualInv, MsgsOf
\* A writer that leaves has been told when the first of the others closes its
\* connection to it.
<1>6. ASSUME NEW h \in moving \cap Genesis, n \in Core PROVE NextList(h) = Moved
  <2>1. /\ n \in Genesis /\ n \notin moving /\ Len(chain[n]) \in Nat
        /\ Len(chain[h]) \in Nat /\ h \in Nodes
    BY <1>6, WriterFacts DEF Core
  <2>2. NowList(n) = Moved /\ Changes(n)
    BY <1>1, <2>1, WriterFacts DEF NowList, Changes
  <2>3. Len(chain[h]) <= Len(chain[n])
    <3>1. SUFFICES ASSUME Len(chain[h]) > Len(chain[n]) PROVE FALSE
      BY <2>1
    <3>2. Taken(Len(chain[n]))
      BY <2>1, <3>1, StoredIsTaken
    <3>. QED
      BY <1>1, <2>1, <3>2, WithoutWriter DEF Awaiting
  <2>4. CASE Len(chain[h]) = Len(chain[n])
    BY <2>1, <2>2, <2>4, WriterFacts DEF HeightInv
  <2>5. CASE Len(chain[n]) = Len(chain[h]) + 1
    BY <2>1, <2>2, <2>5 DEF HeightInv
  <2>6. CASE Len(chain[n]) > Len(chain[h]) + 1
    <3>1. PICK l \in Nat : l = Len(chain[h]) + 1
      BY <2>1
    <3>2. Taken(l)
      BY <2>6, <3>1, StoredIsTaken
    <3>3. ma_writer_list[n] = Moved
      BY <1>6, <2>1, <3>1, <3>2, WithoutWriter
    <3>. QED
      BY <1>6, <3>3 DEF LeaverInv
  <2>. QED
    BY <2>1, <2>3, <2>4, <2>5, <2>6
<1>7. LeaverInv'
  <2>1. Core' = Core /\ Moved' = Moved /\ Core \subseteq Nodes
    BY <1>1, CoreNotEmpty DEF Core, Moved
  <2>2. ASSUME NEW h \in moving \cap Genesis, NEW x \in Core,
               ma_writer_list'[x] = Moved
        PROVE  NextList(h)' = Moved
    <3>1. CASE x = n
      BY <1>2, <1>6, <2>2, <3>1
    <3>2. CASE x # n
      BY <1>1, <1>2, <2>1, <2>2, <3>2 DEF LeaverInv
    <3>. QED
      BY <3>1, <3>2
  <2>3. ASSUME NEW h \in moving \cap Genesis, ma_writer_list'[h] = Moved
        PROVE  pc'[h] \in {"rejoin", "ready", "await_request"}
    BY <1>1, <2>3, Ids DEF LeaverInv
  <2>. QED
    BY <1>1, <2>1, <2>2, <2>3 DEF LeaverInv
<1>8. ListsInv'
  <2>1. ASSUME NEW x \in Genesis
        PROVE  /\ current_version'[x] # 0
               /\ ma_writer_list'[x] = configs'[current_version'[x]]
    <3>1. CASE x = n
      BY <1>1, <3>1, WriterFacts DEF ListsOf
    <3>2. CASE x # n
      BY <1>1, <3>2, Ids DEF ListsInv
    <3>. QED
      BY <3>1, <3>2
  <2>. QED
    BY <1>1, <2>1 DEF ListsInv
<1>. QED
  BY <1>4, <1>5, <1>7, <1>8 DEF EqualInv

\* A writer waits for the request.
LEMMA StartWriterEqual ==
  ASSUME IInv, IInv', EqualInv, NEW n \in Nodes, StartWriter(n)
  PROVE  EqualInv'
<1>. Types /\ Types' /\ ConfigInv
  BY DEF IInv
<1>1. /\ UNCHANGED <<moving, configs, maFailures, winner, chain, numbers, conf,
                     current_version, proposed_version, ma_writer_list, msgs>>
      /\ pc'[n] = "await_request"
      /\ n \in Genesis => ~Changes(n)
      /\ \A x \in Nodes : x # n => pc'[x] = pc[x]
  BY TopFacts DEF StartWriter, maVars, roundVars, memberVars, Types
<1>2. ASSUME NEW x \in Genesis
      PROVE  NowList(x)' = NowList(x) /\ NextList(x)' = NextList(x)
  <2>1. Changes(x)' <=> Changes(x)
    BY <1>1, Ids DEF Changes, Due
  <2>. QED
    BY <1>1, <2>1 DEF NowList, NextList, ListsOf, Due
<1>3. Quiet
  BY <1>1, <1>2, NothingStored DEF MsgsOf
<1>4. HeightInv'
  BY <1>3, QuietHeights DEF EqualInv
<1>5. ToldInv'
  <2>1. \A x \in Genesis : Heard(x)
    BY <1>1, <1>2, Ids DEF Heard
  <2>. QED
    BY <1>1, <2>1, ToldStays DEF EqualInv, MsgsOf
<1>6. LeaverInv'
  <2>1. ASSUME NEW h \in moving \cap Genesis
        PROVE  \/ pc'[h] = pc[h]
               \/ pc'[h] \in {"rejoin", "ready", "await_request"}
    BY <1>1, Ids
  <2>. QED
    BY <1>1, <1>2, <2>1, LeaverStays DEF EqualInv
<1>7. ListsInv'
  BY <1>1, ListsStay DEF EqualInv, ListsInv
<1>. QED
  BY <1>4, <1>5, <1>6, <1>7 DEF EqualInv

\* A coordinator asks the MA, and begins to collect.
LEMMA StartCoordinatorEqual ==
  ASSUME IInv, IInv', EqualInv, MaxMAFailures = 0, NEW n \in Nodes,
         StartCoordinator(n)
  PROVE  EqualInv'
<1>. Types /\ Types' /\ ConfigInv /\ VersionInv
  BY DEF IInv
<1>. ListsInv /\ HeightInv /\ LeaverInv
  BY DEF EqualInv
<1>1. /\ UNCHANGED <<moving, configs, winner, chain, ma_writer_list>>
      /\ maFailures' = 0
      /\ pc[n] \in {"loop", "ready"} /\ pc'[n] = "collect" /\ numbers'[n] = {}
      /\ Coordinator(n) = n
      /\ n \in Genesis => ~Changes(n) /\ ~Due(n)
      /\ \A x \in Nodes : x # n => /\ pc'[x] = pc[x] /\ numbers'[x] = numbers[x]
                                   /\ conf'[x] = conf[x]
                                   /\ current_version'[x] = current_version[x]
                                   /\ proposed_version'[x] = proposed_version[x]
      /\ MsgsOf("reply")' = MsgsOf("reply")
      /\ MsgsOf("announce")' = MsgsOf("announce")
  <2>1. /\ UNCHANGED <<moving, configs, winner, chain, ma_writer_list>>
        /\ TopOfRound(n) /\ pc'[n] = "collect" /\ numbers'[n] = {}
        /\ Coordinator(n) = n /\ GetRemoteConf(n)
        /\ \A x \in Nodes : x # n => pc'[x] = pc[x] /\ numbers'[x] = numbers[x]
        /\ msgs' = msgs \cup Broadcast("request", n, GetVersion(n)')
    BY DEF StartCoordinator, Types
  <2>2. /\ MsgsOf("reply")' = MsgsOf("reply")
        /\ MsgsOf("announce")' = MsgsOf("announce")
    BY <2>1 DEF MsgsOf, Broadcast, Msg
  <2>3. maFailures' = 0
    BY <2>1, Answered DEF GetRemoteConf
  <2>4. /\ pc[n] \in {"loop", "ready"}
        /\ n \in Genesis => ~Changes(n) /\ ~Due(n)
    BY <2>1, TopFacts
  <2>5. \A x \in Nodes : x # n => /\ conf'[x] = conf[x]
                                  /\ current_version'[x] = current_version[x]
                                  /\ proposed_version'[x] = proposed_version[x]
    <3>1. /\ conf' = conf \/ conf' = [conf EXCEPT ![n] = Latest]
          /\ \/ current_version' = current_version
             \/ current_version' = [current_version EXCEPT ![n] = Latest]
             \/ current_version' = [current_version EXCEPT ![n] = 0]
          /\ \/ proposed_version' = proposed_version
             \/ proposed_version' = [proposed_version EXCEPT ![n] = Latest]
      BY <2>1, Zenon DEF GetRemoteConf
    <3>. HIDE DEF Latest
    <3>2. /\ conf \in [Nodes -> 1 .. Latest]
          /\ current_version \in [Nodes -> 0 .. Latest]
          /\ proposed_version \in [Nodes -> 0 .. Latest]
      BY DEF Types
    <3>. QED
      BY <3>1, <3>2
  <2>. QED
    BY <2>1, <2>2, <2>3, <2>4, <2>5
\* It is on its own list, so that it has not left.
<1>2. n \in moving \cap Genesis =>
        /\ ma_writer_list[n] # Moved
        /\ \A x \in Core : ma_writer_list[x] # Moved
  <2>. SUFFICES ASSUME n \in moving \cap Genesis
                PROVE  /\ ma_writer_list[n] # Moved
                       /\ \A x \in Core : ma_writer_list[x] # Moved
    OBVIOUS
  <2>1. n \in ma_writer_list[n] /\ n \notin Moved
    BY <1>1, Lists, OneMover
  <2>2. NextList(n) = ma_writer_list[n]
    BY <1>1 DEF NextList
  <2>. QED
    BY <2>1, <2>2 DEF LeaverInv
<1>3. ASSUME NEW x \in Genesis, x # n
      PROVE  NowList(x)' = NowList(x) /\ NextList(x)' = NextList(x)
  <2>1. x \in Nodes
    BY Ids
  <2>2. (Due(x)' <=> Due(x)) /\ (Changes(x)' <=> Changes(x))
    BY <1>1, <1>3, <2>1 DEF Changes, Due
  <2>. QED
    BY <1>1, <1>3, <2>1, <2>2 DEF NowList, NextList, ListsOf
<1>4. n \in Genesis => NowList(n)' = NowList(n)
  BY <1>1 DEF NowList, Changes
<1>5. ASSUME n \in Genesis, NEW l \in Nat, Taken(l) PROVE l < Len(chain[n])
  <2>1. Len(chain[n]) \in Nat /\ Core # {}
    BY ChainType, CoreNotEmpty
  <2>2. SUFFICES ASSUME l >= Len(chain[n]) PROVE FALSE
    BY <2>1
  <2>. QED
    BY <1>1, <1>2, <1>5, <2>1, <2>2, WithoutWriter DEF Awaiting
<1>6. Quiet
  <2>1. \A x \in Nodes : pc'[x] = "await_block" => pc[x] = "await_block"
    BY <1>1
  <2>2. \A x \in Genesis : NowList(x)' = NowList(x)
    BY <1>3, <1>4
  <2>3. \A x \in Genesis : \/ NextList(x)' = NextList(x)
                           \/ \A l \in Nat : Taken(l) => l < Len(chain[x])
    BY <1>3, <1>5
  <2>. QED
    BY <1>1, <2>1, <2>2, <2>3, NothingStored
<1>7. HeightInv'
  BY <1>6, QuietHeights
<1>8. ToldInv'
  <2>1. \A x \in Genesis : Heard(x)
    BY <1>1, <1>3, Ids DEF Heard
  <2>. QED
    BY <1>1, <2>1, ToldStays DEF EqualInv
<1>9. LeaverInv'
  <2>1. Core' = Core /\ Moved' = Moved
    BY <1>1 DEF Core, Moved
  <2>2. ASSUME NEW h \in moving \cap Genesis
        PROVE  /\ (\E x \in Core : ma_writer_list[x] = Moved) => NextList(h)' = Moved
               /\ ma_writer_list[h] = Moved =>
                    pc'[h] \in {"rejoin", "ready", "await_request"}
    <3>1. CASE h = n
      BY <1>2, <3>1
    <3>2. CASE h # n
      BY <1>1, <1>3, <3>2, Ids DEF LeaverInv
    <3>. QED
      BY <3>1, <3>2
  <2>. QED
    BY <1>1, <2>1, <2>2 DEF LeaverInv
<1>10. ListsInv'
  <2>1. n \in Genesis => current_version'[n] = current_version[n]
    <3>1. SUFFICES ASSUME n \in Genesis PROVE current_version'[n] = current_version[n]
      OBVIOUS
    <3>2. current_version[n] # 0 /\ current_version[n] <= Latest /\ Latest \in Nat
          /\ current_version[n] \in Nat
      BY <3>1, VersionNumbers DEF ListsInv
    <3>3. GetRemoteConf(n) /\ ~MAFails
      BY Answered DEF StartCoordinator
    <3>. QED
      BY <3>2, <3>3 DEF GetRemoteConf, Types
  <2>2. \A x \in Genesis : current_version'[x] = current_version[x]
    BY <1>1, <2>1, Ids
  <2>. QED
    BY <1>1, <2>2, ListsStay
<1>. QED
  BY <1>7, <1>8, <1>9, <1>10 DEF EqualInv

\* Connections made and lost, and nothing done.
LEMMA ComEqual ==
  ASSUME IInv, IInv', EqualInv,
         \/ \E a, b \in Nodes : Dial(a, b) \/ Accept(a, b) \/ ReadClosed(a, b)
         \/ UNCHANGED vars
  PROVE  EqualInv'
<1>. Types /\ Types'
  BY DEF IInv
<1>1. UNCHANGED <<moving, configs, maFailures, pc, round, winner, chain, numbers,
                  conf, current_version, proposed_version, ma_writer_list, msgs>>
  BY DEF Dial, Accept, ReadClosed, vars, maVars, roundVars, memberVars
<1>2. ASSUME NEW x PROVE NowList(x)' = NowList(x) /\ NextList(x)' = NextList(x)
  <2>1. (Due(x)' <=> Due(x)) /\ (Changes(x)' <=> Changes(x))
    BY <1>1 DEF Due, Changes
  <2>. QED
    BY <1>1, <2>1 DEF NowList, NextList, ListsOf
<1>3. Quiet
  BY <1>1, <1>2, NothingStored DEF MsgsOf
<1>4. HeightInv'
  BY <1>3, QuietHeights DEF EqualInv
<1>5. ToldInv'
  <2>1. \A x \in Genesis : Heard(x)
    BY <1>1, <1>2 DEF Heard
  <2>. QED
    BY <1>1, <2>1, ToldStays DEF EqualInv, MsgsOf
<1>6. LeaverInv'
  BY <1>1, <1>2, LeaverStays DEF EqualInv
<1>7. ListsInv'
  BY <1>1, ListsStay DEF EqualInv, ListsInv
<1>. QED
  BY <1>4, <1>5, <1>6, <1>7 DEF EqualInv

----------------------------------------------------------------------------
(* The steps of a round.                                                    *)

\* A writer and a coordinator it takes a request of are at the same height,
\* unless one of them leaves.
LEMMA OneHeight ==
  ASSUME IInv, NEW a \in Genesis, NEW b \in Genesis,
         pc[a] \notin Awaiting, a \notin moving, Len(chain[a]) < Len(chain[b])
  PROVE  FALSE
<1>. Types
  BY DEF IInv
<1>1. Len(chain[a]) \in Nat /\ b \in Nodes
  BY Ids, ChainType
<1>2. Taken(Len(chain[a]))
  BY <1>1, StoredIsTaken
<1>. QED
  BY <1>1, <1>2, WithoutWriter

\* A request reaches no writer that has left.
LEMMA NotLeft ==
  ASSUME IInv, EqualInv, NEW n \in moving \cap Genesis,
         pc[n] = "await_request", NEW m \in Requests(n)
  PROVE  ma_writer_list[n] # Moved /\ \A x \in Core : ma_writer_list[x] # Moved
<1>. Types /\ ConfigInv /\ VersionInv /\ LeftInv
  BY DEF IInv
<1>. ListsInv /\ HeightInv /\ LeaverInv
  BY DEF EqualInv
<1>1. PICK c : c = m.from
  OBVIOUS
<1>2. n \in Nodes /\ Moved = Core /\ n \notin Core
  BY OneMover, Ids
<1>3. c \in Core /\ pc[c] = "collect" /\ n \in ma_writer_list[c]
  <2>1. c \in Nodes /\ pc[c] = "collect" /\ n \in ma_writer_list[c] /\ c # n
    BY <1>1, <1>2, RequestFacts
  <2>2. c \in Genesis
    <3>1. c \in Genesis \/ c \in moving \cap Joiners
      BY <2>1, Running
    <3>. QED
      BY <3>1, <2>1 DEF ConfigInv
  <2>. QED
    BY <2>1, <2>2, OneMover
<1>4. c \in Genesis /\ c \notin moving
  BY <1>3 DEF Core
<1>5. ~Due(n) /\ NextList(n) = ma_writer_list[n] /\ NowList(n) = ma_writer_list[n]
  <2>1. ~Due(n)
    BY DEF VersionInv, VersionOf
  <2>. QED
    BY <2>1 DEF NextList, NowList, Changes
<1>6. NowList(c) = ma_writer_list[c] /\ ma_writer_list[c] # Moved
  BY <1>2, <1>3 DEF NowList, Changes
<1>7. Len(chain[n]) \in Nat /\ Len(chain[c]) \in Nat
  BY <1>4, WriterFacts
<1>8. ma_writer_list[n] # Moved
  <2>. SUFFICES ASSUME ma_writer_list[n] = Moved PROVE FALSE
    OBVIOUS
  <2>1. CASE Len(chain[n]) = Len(chain[c])
    BY <1>4, <1>5, <1>6, <2>1 DEF HeightInv
  <2>2. CASE Len(chain[c]) < Len(chain[n])
    BY <1>3, <1>4, <2>2, OneHeight DEF Awaiting
  <2>3. CASE Len(chain[c]) = Len(chain[n]) + 1
    BY <1>4, <1>5, <1>6, <2>3 DEF HeightInv
  <2>4. CASE Len(chain[c]) > Len(chain[n]) + 1
    <3>1. PICK l \in Nat : l = Len(chain[n]) + 1
      BY <1>7
    <3>2. Taken(l)
      BY <1>4, <2>4, <3>1, Ids, StoredIsTaken
    <3>. QED
      BY <1>3, <1>6, <1>7, <3>1, <3>2, WithoutWriter
  <2>. QED
    BY <1>7, <2>1, <2>2, <2>3, <2>4
<1>. QED
  BY <1>5, <1>8 DEF LeaverInv

\* What a writer knows after its answer is what the coordinator knows.
LEMMA TellsVersion ==
  ASSUME IInv, IInv', EqualInv, MaxMAFailures = 0, NEW n \in Genesis,
         pc[n] = "await_request", NEW m \in Requests(n), CheckVersion(n, m.content),
         UNCHANGED <<configs, current_version, ma_writer_list>>,
         m.from \in Genesis
  PROVE  NextList(n)' = NextList(m.from)
<1>. Types /\ Types' /\ ConfigInv /\ VersionInv
  BY DEF IInv
<1>. ListsInv /\ HeightInv /\ LeaverInv
  BY DEF EqualInv
<1>1. PICK c \in Genesis : c = m.from
  OBVIOUS
<1>2. /\ c \in Nodes /\ n \in Nodes /\ c # n /\ pc[c] = "collect"
      /\ m.content = GetVersion(c) /\ n \in ma_writer_list[c]
  BY <1>1, Ids, RequestFacts
<1>3. ~Due(n)
  BY DEF VersionInv, VersionOf
<1>4. /\ GetVersion(c) \in 1 .. Latest /\ NextList(c) = configs[GetVersion(c)]
      /\ current_version[n] \in 1 .. Latest /\ Latest \in {1, 2}
      /\ ma_writer_list[n] = configs[current_version[n]]
  BY <1>2, WriterFacts, VersionNumbers DEF ListsInv
<1>5. CASE GetVersion(c) > current_version[n]
  <2>1. conf'[n] = GetVersion(c) /\ proposed_version'[n] = GetVersion(c)
    <3>1. ~(m.content <= current_version[n])
      BY <1>2, <1>4, <1>5
    <3>2. GetMembershipVersion(n, m.content)
      BY <3>1 DEF CheckVersion
    <3>3. /\ conf' = [conf EXCEPT ![n] = m.content]
          /\ proposed_version' = [proposed_version EXCEPT ![n] = m.content]
      BY <3>2, Answered DEF GetMembershipVersion
    <3>. QED
      BY <1>2, <3>3 DEF Types
  <2>2. Due(n)'
    BY <1>5, <2>1 DEF Due
  <2>. QED
    BY <1>1, <1>4, <2>1, <2>2 DEF NextList, ListsOf
<1>6. CASE GetVersion(c) <= current_version[n]
  <2>1. conf' = conf /\ proposed_version' = proposed_version
    BY <1>2, <1>4, <1>6 DEF CheckVersion
  <2>2. NextList(n)' = ma_writer_list[n]
    BY <1>3, <2>1 DEF NextList, Due
  <2>3. CASE GetVersion(c) = current_version[n]
    BY <1>1, <1>4, <2>2, <2>3
  <2>4. CASE GetVersion(c) # current_version[n]
    <3>1. current_version[n] = 2 /\ Latest = 2
      BY <1>4, <1>6, <2>4
    <3>2. ma_writer_list[n] = Moved
      BY <1>4, <3>1 DEF ConfigInv, Latest
    <3>3. n \notin moving
      BY <3>2, NotLeft
    <3>4. CASE c \in moving
      <4>1. n \in Core
        BY <3>3 DEF Core
      <4>. QED
        BY <1>1, <2>2, <3>2, <3>4, <4>1 DEF LeaverInv
    <3>5. CASE c \notin moving
      <4>1. Len(chain[n]) \in Nat /\ Len(chain[c]) \in Nat
        BY WriterFacts
      <4>2. Len(chain[n]) = Len(chain[c])
        BY <1>2, <3>3, <3>5, <4>1, OneHeight DEF Awaiting
      <4>3. NowList(n) = Moved
        BY <3>2, WriterFacts
      <4>4. NextList(c) = Moved
        BY <4>2, <4>3, WriterFacts DEF HeightInv
      <4>. QED
        BY <1>1, <2>2, <3>2, <4>4
    <3>. QED
      BY <3>4, <3>5
  <2>. QED
    BY <2>3, <2>4
<1>. QED
  BY <1>4, <1>5, <1>6


\* A writer answers the request, after it has looked at the version.
LEMMA AnswerRequestEqual ==
  ASSUME IInv, IInv', EqualInv, MaxMAFailures = 0, NEW n \in Nodes,
         AnswerRequest(n)
  PROVE  EqualInv'
<1>. Types /\ Types' /\ ConfigInv /\ ReplyInv /\ NumbersInv
  BY DEF IInv
<1>. ListsInv /\ HeightInv /\ ToldInv /\ LeaverInv
  BY DEF EqualInv
<1>1. PICK m \in Requests(n) :
        /\ CheckVersion(n, m.content)
        /\ msgs' = (msgs \ {m}) \cup
                   {Msg("reply", n, c, 0) : c \in {m.from} \cap connected[n]}
  BY DEF AnswerRequest
<1>2. /\ UNCHANGED <<moving, configs, winner, chain, numbers, current_version,
                     ma_writer_list>>
      /\ pc[n] = "await_request" /\ pc'[n] = "await_announce"
      /\ \A x \in Nodes : x # n => pc'[x] = pc[x]
  BY DEF AnswerRequest, roundVars, Types
<1>3. PICK c \in Nodes :
        /\ c = m.from /\ m \in MsgsOf("request") /\ c # n /\ pc[c] = "collect"
  BY <1>2, RequestFacts
<1>4. \A x \in Nodes : x # n =>
        conf'[x] = conf[x] /\ proposed_version'[x] = proposed_version[x]
  BY <1>1, <1>2, CheckVersionFacts
<1>5. /\ MsgsOf("announce")' = MsgsOf("announce")
      /\ \A o \in MsgsOf("reply")' :
           o \in MsgsOf("reply") \/ o = Msg("reply", n, c, 0)
  BY <1>1, <1>3 DEF MsgsOf, Msg
<1>6. ASSUME NEW x \in Genesis, x # n
      PROVE  /\ x \in Nodes
             /\ NowList(x)' = NowList(x) /\ NextList(x)' = NextList(x)
  <2>1. x \in Nodes
    BY Ids
  <2>2. (Due(x)' <=> Due(x)) /\ (Changes(x)' <=> Changes(x))
    BY <1>2, <1>4, <1>6, <2>1 DEF Changes, Due
  <2>. QED
    BY <1>2, <1>4, <1>6, <2>1, <2>2 DEF NowList, NextList, ListsOf
<1>7. NowList(n)' = NowList(n)
  BY <1>2 DEF NowList, Changes
<1>8. n \in moving \cap Genesis =>
        ma_writer_list[n] # Moved /\ \A x \in Core : ma_writer_list[x] # Moved
  BY <1>2, NotLeft
<1>9. ASSUME n \in Genesis, NEW l \in Nat, Taken(l) PROVE l < Len(chain[n])
  <2>1. Len(chain[n]) \in Nat /\ Core # {}
    BY ChainType, CoreNotEmpty
  <2>2. SUFFICES ASSUME l >= Len(chain[n]) PROVE FALSE
    BY <2>1
  <2>. QED
    BY <1>2, <1>8, <1>9, <2>1, <2>2, WithoutWriter DEF Awaiting
<1>10. HeightInv'
  <2>1. \A x \in Nodes : pc'[x] = "await_block" => pc[x] = "await_block"
    BY <1>2
  <2>2. \A x \in Genesis : NowList(x)' = NowList(x)
    BY <1>6, <1>7
  <2>3. \A x \in Genesis : \/ NextList(x)' = NextList(x)
                           \/ \A l \in Nat : Taken(l) => l < Len(chain[x])
    BY <1>6, <1>9
  <2>4. Quiet
    BY <1>2, <1>5, <2>1, <2>2, <2>3, NothingStored
  <2>. QED
    BY <2>4, QuietHeights
<1>11. ToldInv'
  <2>1. ASSUME NEW o \in MsgsOf("reply"), {o.from, o.to} \subseteq Genesis
        PROVE  NextList(o.from)' = NextList(o.to)'
    <3>1. PICK f \in Genesis, t \in Genesis : f = o.from /\ t = o.to
      BY <2>1
    <3>2. f # n /\ t # n
      BY <1>2, <2>1, <3>1 DEF ReplyInv
    <3>. QED
      BY <1>6, <2>1, <3>1, <3>2 DEF ToldInv
  <2>2. n \in Genesis /\ c \in Genesis => NextList(n)' = NextList(c)'
    BY <1>1, <1>2, <1>3, <1>6, TellsVersion
  <2>3. ASSUME NEW o \in MsgsOf("reply")', {o.from, o.to} \subseteq Genesis
        PROVE  NextList(o.from)' = NextList(o.to)'
    <3>1. CASE o \in MsgsOf("reply")
      BY <2>1, <2>3, <3>1
    <3>2. CASE o = Msg("reply", n, c, 0)
      <4>1. o.from = n /\ o.to = c
        BY <3>2 DEF Msg
      <4>. QED
        BY <2>2, <2>3, <4>1
    <3>. QED
      BY <1>5, <3>1, <3>2
  <2>4. ASSUME NEW d \in Genesis, NEW x \in (numbers'[d]) \cap Genesis,
               pc'[d] = "collect"
        PROVE  NextList(x)' = NextList(d)'
    <3>1. d # n /\ d \in Nodes /\ pc[d] = "collect" /\ x \in numbers[d]
      BY <1>2, <2>4, Ids
    <3>2. x # n
      BY <1>2, <3>1 DEF NumbersInv
    <3>. QED
      BY <1>6, <3>1, <3>2 DEF ToldInv
  <2>. QED
    BY <2>3, <2>4 DEF ToldInv
<1>12. LeaverInv'
  <2>1. Core' = Core /\ Moved' = Moved
    BY <1>2 DEF Core, Moved
  <2>2. ASSUME NEW h \in moving \cap Genesis
        PROVE  /\ (\E x \in Core : ma_writer_list[x] = Moved) => NextList(h)' = Moved
               /\ ma_writer_list[h] = Moved =>
                    pc'[h] \in {"rejoin", "ready", "await_request"}
    <3>1. CASE h = n
      BY <1>8, <3>1
    <3>2. CASE h # n
      BY <1>2, <1>6, <3>2 DEF LeaverInv
    <3>. QED
      BY <3>1, <3>2
  <2>. QED
    BY <1>2, <2>1, <2>2 DEF LeaverInv
<1>13. ListsInv'
  <2>1. maFailures' = 0
    BY <1>1, Answered DEF CheckVersion, GetMembershipVersion, ListsInv
  <2>. QED
    BY <1>2, <2>1, ListsStay
<1>. QED
  BY <1>10, <1>11, <1>12, <1>13 DEF EqualInv

\* The coordinator takes a reply.
LEMMA CollectReplyEqual ==
  ASSUME IInv, IInv', EqualInv, NEW n \in Nodes, CollectReply(n)
  PROVE  EqualInv'
<1>. Types /\ Types' /\ ConfigInv
  BY DEF IInv
<1>. ListsInv /\ HeightInv /\ ToldInv /\ LeaverInv
  BY DEF EqualInv
<1>1. PICK m \in Receivable(n, "reply") :
        /\ numbers' = [numbers EXCEPT ![n] = @ \cup {m.from}]
        /\ msgs' = msgs \ {m}
  BY DEF CollectReply
<1>2. UNCHANGED <<moving, configs, maFailures, pc, winner, chain, conf,
                  current_version, proposed_version, ma_writer_list>>
  BY DEF CollectReply, maVars, memberVars
<1>3. m \in MsgsOf("reply") /\ m.to = n
  BY ReceivableFacts
<1>4. /\ MsgsOf("announce")' = MsgsOf("announce")
      /\ MsgsOf("reply")' \subseteq MsgsOf("reply")
  BY <1>1, <1>3 DEF MsgsOf
<1>5. ASSUME NEW x PROVE NowList(x)' = NowList(x) /\ NextList(x)' = NextList(x)
  <2>1. (Due(x)' <=> Due(x)) /\ (Changes(x)' <=> Changes(x))
    BY <1>2 DEF Due, Changes
  <2>. QED
    BY <1>2, <2>1 DEF NowList, NextList, ListsOf
<1>6. HeightInv'
  <2>1. Quiet
    BY <1>2, <1>4, <1>5, NothingStored
  <2>. QED
    BY <2>1, QuietHeights
<1>7. ToldInv'
  <2>1. ASSUME NEW o \in MsgsOf("reply")', {o.from, o.to} \subseteq Genesis
        PROVE  NextList(o.from)' = NextList(o.to)'
    <3>1. PICK f \in Genesis, t \in Genesis : f = o.from /\ t = o.to
      BY <2>1
    <3>. QED
      BY <1>4, <1>5, <2>1, <3>1 DEF ToldInv
  <2>2. ASSUME NEW d \in Genesis, NEW x \in (numbers'[d]) \cap Genesis,
               pc'[d] = "collect"
        PROVE  NextList(x)' = NextList(d)'
    <3>1. CASE x \in numbers[d]
      BY <1>2, <1>5, <2>2, <3>1 DEF ToldInv
    <3>2. CASE x \notin numbers[d]
      <4>1. d = n /\ x = m.from
        BY <1>1, <2>2, <3>2, Ids DEF Types
      <4>2. NextList(m.from) = NextList(m.to)
        BY <1>3, <2>2, <4>1 DEF ToldInv
      <4>3. NextList(x) = NextList(d)
        BY <1>3, <4>1, <4>2
      <4>. QED
        BY <1>5, <4>3
    <3>. QED
      BY <3>1, <3>2
  <2>. QED
    BY <2>1, <2>2 DEF ToldInv
<1>8. LeaverInv'
  BY <1>2, <1>5, LeaverStays
<1>9. ListsInv'
  BY <1>2, ListsStay DEF ListsInv
<1>. QED
  BY <1>6, <1>7, <1>8, <1>9 DEF EqualInv


\* The coordinator has every number it needs, and announces a winner.
LEMMA AnnounceWinnerEqual ==
  ASSUME IInv, IInv', EqualInv, NEW n \in Nodes, AnnounceWinner(n)
  PROVE  EqualInv'
<1>. Types /\ Types' /\ ConfigInv /\ PeersInv /\ NumbersInv /\ VersionInv
  BY DEF IInv
<1>. ListsInv /\ HeightInv /\ ToldInv /\ LeaverInv
  BY DEF EqualInv
<1>1. PICK w \in numbers[n] \cap ma_writer_list[n] :
        /\ winner' = [winner EXCEPT ![n] = w]
        /\ msgs' = msgs \cup Broadcast("announce", n, w)
  BY DEF AnnounceWinner
<1>2. /\ UNCHANGED <<moving, configs, maFailures, chain, numbers, conf,
                     current_version, proposed_version, ma_writer_list>>
      /\ pc[n] = "collect" /\ pc'[n] = "await_block"
      /\ \A x \in Nodes : x # n => pc'[x] = pc[x] /\ winner'[x] = winner[x]
      /\ Cardinality(numbers[n]) >= RepliesNeeded(n)
  BY <1>1 DEF AnnounceWinner, maVars, memberVars, Types
<1>3. numbers[n] = ma_writer_list[n] \ {n} /\ n \in ma_writer_list[n]
  BY <1>2, AllReplied
<1>4. /\ MsgsOf("reply")' = MsgsOf("reply")
      /\ MsgsOf("announce")' =
           MsgsOf("announce") \cup Broadcast("announce", n, w)
  BY <1>1 DEF MsgsOf, Broadcast, Msg
<1>5. ASSUME NEW x \in Genesis
      PROVE  /\ x \in Nodes /\ Len(chain[x]) \in Nat
             /\ NowList(x)' = NowList(x) /\ NextList(x)' = NextList(x)
  <2>1. x \in Nodes /\ Len(chain[x]) \in Nat
    BY Ids, ChainType
  <2>2. (Due(x)' <=> Due(x)) /\ (Changes(x)' <=> Changes(x))
    BY <1>2, <2>1 DEF Changes, Due
  <2>. QED
    BY <1>2, <2>1, <2>2 DEF NowList, NextList, ListsOf
<1>6. PICK k \in Nat : k = Len(chain[n])
  BY ChainType
<1>7. \A l \in Nat : Taken(l)' => Taken(l) \/ l = k
  BY <1>6, AnnounceTaken
\* All whose block is decided will have the same list.
<1>8. ASSUME NEW a \in Genesis, NEW b \in Genesis,
             Len(chain[a]) = k, Len(chain[b]) = k
      PROVE  NextList(a) = NextList(b)
  <2>1. CASE n \notin Genesis
    <3>1. n \in Joiners
      BY <2>1 DEF Nodes
    <3>2. ma_writer_list[a] = Moved /\ ma_writer_list[b] = Moved
      BY <1>2, <3>1 DEF PeersInv
    <3>. QED
      BY <3>2, WriterFacts
  <2>2. CASE n \in Genesis
    <3>1. ASSUME NEW x \in Genesis, Len(chain[x]) = k
          PROVE  NextList(x) = NextList(n)
      <4>1. CASE x = n
        BY <4>1
      <4>2. CASE x # n /\ x \in ma_writer_list[n]
        BY <1>2, <1>3, <2>2, <4>2 DEF ToldInv
      <4>3. CASE x \notin ma_writer_list[n]
        <5>1. ma_writer_list[n] = Moved
          BY <4>3, Lists
        <5>2. NowList(n) = Moved /\ NextList(n) = Moved
          BY <2>2, <5>1, WriterFacts
        <5>3. NowList(x) = Moved
          BY <1>6, <2>2, <3>1, <5>2 DEF HeightInv
        <5>. QED
          BY <5>2, <5>3, WriterFacts
      <4>. QED
        BY <4>1, <4>2, <4>3
    <3>. QED
      BY <1>8, <3>1
  <2>. QED
    BY <2>1, <2>2
<1>9. HeightInv'
  <2>1. ASSUME NEW a \in Genesis, NEW b \in Genesis,
               Len(chain[a]) = Len(chain[b]), Taken(Len(chain[a]))'
        PROVE  NextList(a)' = NextList(b)'
    <3>1. PICK l \in Nat : l = Len(chain[a]) /\ l = Len(chain'[a])
      BY <1>2, <1>5
    <3>2. Taken(l)'
      BY <2>1, <3>1
    <3>3. CASE Taken(l)
      BY <1>5, <2>1, <3>1, <3>3 DEF HeightInv
    <3>4. CASE l = k
      BY <1>5, <1>8, <2>1, <3>1, <3>4
    <3>. QED
      BY <1>7, <3>2, <3>3, <3>4
  <2>2. ASSUME NEW a \in Genesis, NEW b \in Genesis
        PROVE  /\ Len(chain[a]) = Len(chain[b]) => NowList(a)' = NowList(b)'
               /\ Len(chain[b]) = Len(chain[a]) + 1 => NextList(a)' = NowList(b)'
    BY <1>5 DEF HeightInv
  <2>. QED
    BY <1>2, <2>1, <2>2 DEF HeightInv
<1>10. ToldInv'
  <2>1. \A x \in Genesis : Heard(x)
    BY <1>2, <1>5 DEF Heard
  <2>. QED
    BY <1>4, <2>1, ToldStays
<1>11. LeaverInv'
  <2>1. ASSUME NEW h \in moving \cap Genesis
        PROVE  pc'[h] = pc[h] \/ ma_writer_list[h] # Moved
    BY <1>2, Ids DEF LeaverInv
  <2>. QED
    BY <1>2, <1>5, <2>1, LeaverStays
<1>12. ListsInv'
  BY <1>2, ListsStay DEF ListsInv
<1>. QED
  BY <1>9, <1>10, <1>11, <1>12 DEF EqualInv

\* A node takes the announcement of another one's block.
LEMMA LoseEqual ==
  ASSUME IInv, IInv', EqualInv, NEW n \in Nodes, pc[n] = "await_announce",
         NEW m \in Receivable(n, "announce"), Lose(n, m),
         UNCHANGED <<maVars, numbers, memberVars, comVars, in_sync>>
  PROVE  EqualInv'
<1>. Types /\ Types' /\ ConfigInv
  BY DEF IInv
<1>. ListsInv /\ HeightInv /\ ToldInv /\ LeaverInv
  BY DEF EqualInv
<1>1. m \in MsgsOf("announce") /\ m.to = n
  BY ReceivableFacts
<1>2. /\ UNCHANGED <<moving, configs, maFailures, chain, numbers, conf,
                     current_version, proposed_version, ma_writer_list>>
      /\ pc'[n] = "await_block" /\ winner'[n] = m.content
      /\ \A x \in Nodes : x # n => pc'[x] = pc[x] /\ winner'[x] = winner[x]
  BY DEF Lose, maVars, memberVars, Types
<1>3. /\ MsgsOf("reply")' = MsgsOf("reply")
      /\ MsgsOf("announce")' \subseteq MsgsOf("announce")
  BY <1>1 DEF Lose, MsgsOf
<1>4. ASSUME NEW x \in Genesis
      PROVE  /\ x \in Nodes
             /\ NowList(x)' = NowList(x) /\ NextList(x)' = NextList(x)
  <2>1. x \in Nodes
    BY Ids
  <2>2. (Due(x)' <=> Due(x)) /\ (Changes(x)' <=> Changes(x))
    BY <1>2, <2>1 DEF Changes, Due
  <2>. QED
    BY <1>2, <2>1, <2>2 DEF NowList, NextList, ListsOf
<1>5. \A l \in Nat : Taken(l)' => Taken(l)
  BY LoseTaken
<1>6. HeightInv'
  <2>1. Quiet
    BY <1>2, <1>4, <1>5 DEF Quiet
  <2>. QED
    BY <2>1, QuietHeights
<1>7. ToldInv'
  <2>1. \A x \in Genesis : Heard(x)
    BY <1>2, <1>4 DEF Heard
  <2>. QED
    BY <1>3, <2>1, ToldStays
<1>8. LeaverInv'
  <2>1. ASSUME NEW h \in moving \cap Genesis
        PROVE  pc'[h] = pc[h] \/ ma_writer_list[h] # Moved
    BY <1>2, Ids DEF LeaverInv
  <2>. QED
    BY <1>2, <1>4, <2>1, LeaverStays
<1>9. ListsInv'
  BY <1>2, ListsStay DEF ListsInv
<1>. QED
  BY <1>6, <1>7, <1>8, <1>9 DEF EqualInv

\* The next round of a writer that stores a block has come.
LEMMA StoringHeights ==
  ASSUME IInv, Types', ListsInv, HeightInv, LeaverInv,
         NEW n \in Genesis, NEW w \in Nodes, Settled(n, w), Stores(n, w)
  PROVE  HeightInv'
<1>. Types /\ ConfigInv
  BY DEF IInv
<1>1. n \in Nodes
  BY Ids
<1>2. PICK k \in Nat : k = Len(chain[n])
  BY <1>1, ChainType
<1>3. /\ Len(chain'[n]) = k + 1 /\ Taken(k)
      /\ \A l \in Nat : Taken(l)' <=> Taken(l)
  BY <1>1, <1>2, StoringFacts DEF Settled, Taken
<1>4. NowList(n)' = NextList(n) /\ NextList(n)' = NextList(n)
  <2>1. /\ Due(n)' <=> Due(n)
        /\ ListsOf(n)' = ListsOf(n)
        /\ ma_writer_list'[n] = ma_writer_list[n]
        /\ pc'[n] \in {"loop", "done"}
    BY <1>1 DEF Stores, Due, ListsOf
  <2>. QED
    BY <2>1 DEF NowList, NextList, Changes
<1>5. ASSUME NEW x \in Genesis, x # n
      PROVE  /\ x \in Nodes /\ chain'[x] = chain[x] /\ Len(chain[x]) \in Nat
             /\ NowList(x)' = NowList(x) /\ NextList(x)' = NextList(x)
  BY <1>5, Ids, SameFacts, ChainType DEF Stores, Same
<1>6. ASSUME NEW x \in Genesis PROVE Taken(Len(chain[x]))' <=> Taken(Len(chain'[x]))
  <2>1. PICK l \in Nat : l = Len(chain'[x])
    BY <1>3, <1>5
  <2>2. Taken(l)' <=> Taken(l)
    BY <1>3
  <2>. QED
    BY <2>1, <2>2
\* When more has been decided without it, it leaves, and all know.
<1>7. CASE \E l \in Nat : Taken(l) /\ l > k
  <2>1. PICK l \in Nat : Taken(l) /\ l > k
    BY <1>7
  <2>2. n \in moving \cap Genesis /\ \A x \in Core : ma_writer_list[x] = Moved
    BY <1>2, <2>1, WithoutWriter
  <2>3. NextList(n) = Moved
    <3>1. Core # {}
      BY CoreNotEmpty
    <3>. QED
      BY <2>2, <3>1 DEF LeaverInv
  <2>4. ASSUME NEW x \in Genesis, x # n
        PROVE  NowList(x) = Moved /\ NextList(x) = Moved
    <3>1. x \in Core
      BY <2>2, <2>4, OneMover
    <3>. QED
      BY <2>2, <3>1, WriterFacts
  <2>5. ASSUME NEW x \in Genesis
        PROVE  NowList(x)' = Moved /\ NextList(x)' = Moved
    BY <1>4, <1>5, <2>3, <2>4
  <2>. QED
    BY <2>5 DEF HeightInv
<1>8. CASE \A l \in Nat : Taken(l) => l <= k
  <2>0. ~Taken(k + 1)
    BY <1>8
  <2>1. ASSUME NEW a \in Genesis, NEW b \in Genesis,
               Len(chain'[a]) = Len(chain'[b])
        PROVE  NowList(a)' = NowList(b)'
    <3>1. CASE a = n /\ b # n
      BY <1>2, <1>3, <1>4, <1>5, <2>1, <3>1 DEF HeightInv
    <3>2. CASE b = n /\ a # n
      BY <1>2, <1>3, <1>4, <1>5, <2>1, <3>2 DEF HeightInv
    <3>3. CASE a # n /\ b # n
      BY <1>5, <2>1, <3>3 DEF HeightInv
    <3>. QED
      BY <3>1, <3>2, <3>3
  <2>2. ASSUME NEW a \in Genesis, NEW b \in Genesis,
               Len(chain'[b]) = Len(chain'[a]) + 1
        PROVE  NextList(a)' = NowList(b)'
    <3>1. a # b
      <4>1. Len(chain'[a]) \in Nat
        BY <1>3, <1>5
      <4>. QED
        BY <2>2, <4>1
    <3>2. CASE a = n
      <4>1. b \in Nodes /\ Len(chain[b]) = k + 2
        BY <1>3, <1>5, <2>2, <3>1, <3>2
      <4>2. Taken(k + 1)
        BY <4>1, StoredIsTaken
      <4>. QED
        BY <2>0, <4>2
    <3>3. CASE b = n
      <4>1. Len(chain[a]) = k
        BY <1>3, <1>5, <2>2, <3>1, <3>3
      <4>2. NextList(a) = NextList(n)
        BY <1>2, <1>3, <4>1 DEF HeightInv
      <4>. QED
        BY <1>4, <1>5, <3>1, <3>3, <4>2
    <3>4. CASE a # n /\ b # n
      BY <1>5, <2>2, <3>4 DEF HeightInv
    <3>. QED
      BY <3>2, <3>3, <3>4
  <2>3. ASSUME NEW a \in Genesis, NEW b \in Genesis,
               Len(chain'[a]) = Len(chain'[b]), Taken(Len(chain'[a]))
        PROVE  NextList(a)' = NextList(b)'
    <3>1. CASE a = n \/ b = n
      BY <1>3, <2>0, <2>3, <3>1
    <3>2. CASE a # n /\ b # n
      BY <1>5, <2>3, <3>2 DEF HeightInv
    <3>. QED
      BY <3>1, <3>2
  <2>. QED
    BY <1>6, <2>1, <2>2, <2>3 DEF HeightInv
<1>. QED
  BY <1>2, <1>7, <1>8

\* A node stores a block, its own or the one it has received.
LEMMA StoringEqual ==
  ASSUME IInv, IInv', EqualInv, NEW n \in Nodes, NEW w \in Nodes,
         Settled(n, w), Stores(n, w), maFailures' = maFailures
  PROVE  EqualInv'
<1>. Types /\ Types' /\ ConfigInv
  BY DEF IInv
<1>. ListsInv /\ HeightInv /\ ToldInv /\ LeaverInv
  BY DEF EqualInv
<1>1. ASSUME NEW x \in Genesis PROVE NextList(x)' = NextList(x)
  BY DEF Stores, NextList, Due, ListsOf
<1>2. HeightInv'
  <2>1. CASE n \in Genesis
    BY <2>1, StoringHeights
  <2>2. CASE n \notin Genesis
    <3>1. \A l \in Nat : Taken(l)' => Taken(l)
      BY StoringFacts DEF Taken
    <3>2. ASSUME NEW x \in Genesis
          PROVE  chain'[x] = chain[x] /\ NowList(x)' = NowList(x)
      BY <2>2, Ids, SameFacts DEF Stores, Same
    <3>3. Quiet
      BY <1>1, <3>1, <3>2 DEF Quiet, Stores
    <3>. QED
      BY <3>3, QuietHeights
  <2>. QED
    BY <2>1, <2>2
<1>3. ASSUME NEW x \in Genesis
      PROVE  \/ pc'[x] = pc[x]
             \/ pc[x] \in Awaiting /\ pc'[x] \in {"loop", "done"}
  BY Ids DEF Stores, Same, Settled
<1>4. ToldInv'
  <2>1. \A x \in Genesis : Heard(x)
    BY <1>1, <1>3 DEF Heard, Stores
  <2>. QED
    BY <2>1, ToldStays DEF Stores
<1>5. LeaverInv'
  <2>1. ASSUME NEW h \in moving \cap Genesis
        PROVE  pc'[h] = pc[h] \/ ma_writer_list[h] # Moved
    BY <1>3 DEF LeaverInv, Awaiting
  <2>. QED
    BY <1>1, <2>1, LeaverStays DEF Stores
<1>6. ListsInv'
  BY ListsStay DEF ListsInv, Stores
<1>. QED
  BY <1>2, <1>4, <1>5, <1>6 DEF EqualInv


\* An announcement taken by the winner or by another node.
LEMMA TakeAnnouncementEqual ==
  ASSUME IInv, IInv', EqualInv, NEW n \in Nodes, TakeAnnouncement(n)
  PROVE  EqualInv'
<1>1. Types'
  BY DEF IInv
<1>2. /\ pc[n] = "await_announce" /\ maFailures' = maFailures
      /\ UNCHANGED <<maVars, numbers, memberVars, comVars, in_sync>>
  BY DEF TakeAnnouncement, maVars
<1>3. PICK m \in Receivable(n, "announce") :
        /\ winner' = [winner EXCEPT ![n] = m.content]
        /\ \/ /\ m.content = n
              /\ StoreBlock(n, <<n, Len(chain[n])>>)
              /\ msgs' = (msgs \ {m}) \cup
                         Broadcast("block", n, <<n, Len(chain[n])>>)
           \/ /\ msgs' = msgs \ {m}
              /\ pc' = [pc EXCEPT ![n] = "await_block"]
              /\ UNCHANGED <<chain, round>>
  BY DEF TakeAnnouncement, IsWinner
<1>4. CASE /\ m.content = n
           /\ StoreBlock(n, <<n, Len(chain[n])>>)
           /\ msgs' = (msgs \ {m}) \cup
                      Broadcast("block", n, <<n, Len(chain[n])>>)
  <2>1. Settled(n, n) /\ Stores(n, n)
    BY <1>1, <1>2, <1>3, <1>4, WinKeeps
  <2>. QED
    BY <1>2, <2>1, StoringEqual
<1>5. CASE /\ msgs' = msgs \ {m}
           /\ pc' = [pc EXCEPT ![n] = "await_block"]
           /\ UNCHANGED <<chain, round>>
  <2>1. Lose(n, m)
    BY <1>3, <1>5 DEF Lose
  <2>. QED
    BY <1>2, <2>1, LoseEqual
<1>. QED
  BY <1>3, <1>4, <1>5

\* The block of the winner is received.
LEMMA ReceiveBlockEqual ==
  ASSUME IInv, IInv', EqualInv, NEW n \in Nodes, ReceiveBlock(n)
  PROVE  EqualInv'
<1>1. PICK w \in Nodes : Settled(n, w) /\ Stores(n, w)
  BY ReceiveBlockKeeps
<1>2. maFailures' = maFailures
  BY DEF ReceiveBlock, maVars
<1>. QED
  BY <1>1, <1>2, StoringEqual

\* In the first state all have the first list.
LEMMA InitEqual ==
  ASSUME Init
  PROVE  EqualInv
<1>1. ASSUME NEW x \in Genesis
      PROVE  /\ x \in Nodes /\ pc[x] = "join" /\ chain[x] = <<>>
             /\ numbers[x] = {} /\ ma_writer_list[x] = Genesis
             /\ current_version[x] = 1 /\ proposed_version[x] = 0
  BY Ids DEF Init
<1>2. ASSUME NEW x \in Genesis
      PROVE  NowList(x) = Genesis /\ NextList(x) = Genesis
  <2>1. ~Due(x)
    BY <1>1 DEF Due
  <2>. QED
    BY <1>1, <2>1 DEF NowList, NextList, Changes
<1>3. ListsInv
  <2>1. configs[1] = Genesis /\ maFailures = 0
    BY DEF Init
  <2>. QED
    BY <1>1, <2>1 DEF ListsInv
<1>4. HeightInv
  BY <1>2 DEF HeightInv
<1>5. ToldInv
  BY <1>1 DEF ToldInv, MsgsOf, Init
<1>6. LeaverInv
  <2>1. ASSUME NEW h \in moving \cap Genesis PROVE Genesis # Moved
    <3>1. h \notin Moved
      BY MembershipAssumption DEF Moved, Core
    <3>. QED
      BY <3>1
  <2>2. \A n \in Core : ma_writer_list[n] = Genesis
    BY <1>1 DEF Core
  <2>. QED
    BY <1>1, <2>1, <2>2 DEF LeaverInv
<1>. QED
  BY <1>3, <1>4, <1>5, <1>6 DEF EqualInv

\* Every step of the code keeps the lists equal.
LEMMA NextEqual ==
  ASSUME IInv, IInv', EqualInv, MaxMAFailures = 0, [Next]_vars
  PROVE  EqualInv'
<1>1. CASE UNCHANGED vars
  BY <1>1, ComEqual
<1>2. CASE Next
  <2>1. CASE Terminated
    BY <2>1, ComEqual DEF Terminated
  <2>2. ASSUME NEW n \in Nodes,
               Fetching(n) \/ Deactivate(n) \/ EngineStep(n) \/ ComStep(n)
        PROVE  EqualInv'
    <3>1. CASE Fetching(n) \/ Deactivate(n)
      BY <3>1, ConfigsEqual
    <3>2. CASE EngineStep(n)
      <4>1. CASE JoinPoll(n)
        BY <4>1, ConfigsEqual DEF Fetching
      <4>2. CASE JoinDone(n)
        BY <4>2, JoinDoneEqual
      <4>3. CASE UpdateVersion(n)
        BY <4>3, UpdateVersionEqual
      <4>4. CASE StartCoordinator(n)
        BY <4>4, StartCoordinatorEqual
      <4>5. CASE StartWriter(n)
        BY <4>5, StartWriterEqual
      <4>6. CASE AnswerRequest(n)
        BY <4>6, AnswerRequestEqual
      <4>7. CASE CollectReply(n)
        BY <4>7, CollectReplyEqual
      <4>8. CASE AnnounceWinner(n)
        BY <4>8, AnnounceWinnerEqual
      <4>9. CASE TakeAnnouncement(n)
        BY <4>9, TakeAnnouncementEqual
      <4>10. CASE ReceiveBlock(n)
        BY <4>10, ReceiveBlockEqual
      <4>. QED
        BY <3>2, <4>1, <4>2, <4>3, <4>4, <4>5, <4>6, <4>7, <4>8, <4>9, <4>10
           DEF EngineStep
    <3>3. CASE ComStep(n)
      BY <3>3, ComEqual DEF ComStep
    <3>. QED
      BY <2>2, <3>1, <3>2, <3>3
  <2>. QED
    BY <1>2, <2>1, <2>2 DEF Next, Fetching
<1>. QED
  BY <1>1, <1>2

\* When one node joins or leaves and every request to the MA is answered, the
\* lists of all nodes go through the same configurations at the same heights.
THEOREM ListsInvariant ==
  OneMoves /\ MaxMAFailures = 0 => (Spec => [](IInv /\ EqualInv))
<1>. SUFFICES ASSUME OneMoves, MaxMAFailures = 0
              PROVE  Spec => [](IInv /\ EqualInv)
  OBVIOUS
<1>1. Init => IInv /\ EqualInv
  BY InitInv, InitEqual
<1>2. (IInv /\ EqualInv) /\ [Next]_vars => (IInv /\ EqualInv)'
  BY NextKeeps, NextEqual
<1>. QED
  BY <1>1, <1>2, PTL DEF Spec

\* What the lists have to do with one another while nodes work on a block.
LEMMA EqualLists ==
  ASSUME IInv, EqualInv
  PROVE  SameMembers
<1>. Types /\ ConfigInv /\ VersionInv /\ PeersInv
  BY DEF IInv
<1>1. ASSUME NEW h \in Joiners, InRound(h)
      PROVE  \A x \in Genesis \cup {h} : ma_writer_list[x] = Moved
  BY <1>1 DEF InRound, PeersInv, VersionInv, ListOf
<1>2. ASSUME NEW n \in Nodes, NEW m \in Nodes, InRound(n), InRound(m),
             Len(chain[n]) = Len(chain[m])
      PROVE  ma_writer_list[n] = ma_writer_list[m]
  <2>1. CASE n \in Genesis /\ m \in Genesis
    <3>1. ~Changes(n) /\ ~Changes(m)
      BY <1>2 DEF InRound, Changes
    <3>2. NowList(n) = NowList(m)
      BY <1>2, <2>1 DEF EqualInv, HeightInv
    <3>. QED
      BY <3>1, <3>2 DEF NowList
  <2>2. CASE n \in Joiners \/ m \in Joiners
    BY <1>1, <1>2, <2>2 DEF Nodes
  <2>. QED
    BY <2>1, <2>2 DEF Nodes
<1>. QED
  BY <1>2 DEF SameMembers

\* SameMembers for any number of writers and rounds, when one node joins or
\* leaves and every request to the MA is answered: two nodes that work on the
\* same block have the same list of writers.
THEOREM SameMembersHolds ==
  OneMoves /\ MaxMAFailures = 0 => (Spec => []SameMembers)
<1>. SUFFICES ASSUME OneMoves, MaxMAFailures = 0
              PROVE  Spec => []SameMembers
  OBVIOUS
<1>1. IInv /\ EqualInv => SameMembers
  BY EqualLists
<1>2. Spec => [](IInv /\ EqualInv)
  BY ListsInvariant
<1>. QED
  BY <1>1, <1>2, PTL

----------------------------------------------------------------------------
(* Calls to a node that lists the caller.                                   *)

\* A step that makes and loses no connection but those that break.
LEMMA ListenStays ==
  ASSUME ListenInv, UNCHANGED <<moving, peers, accepting, listening>>,
         in_sync' \in [Nodes -> BOOLEAN],
         \A n \in Nodes : pc'[n] = "off" <=> pc[n] = "off"
  PROVE  ListenInv'
<1>1. Core' = Core
  BY DEF Core
<1>. QED
  BY <1>1 DEF ListenInv

LEMMA StartNodeListens ==
  ASSUME IInv, IInv', ListenInv, NEW n \in Nodes, StartNode(n)
  PROVE  ListenInv'
<1>. Types /\ Types' /\ ConfigInv
  BY DEF IInv
<1>1. /\ UNCHANGED <<moving, configs, accepting, in_sync>>
      /\ pc[n] = "off" /\ pc'[n] = "fetch" /\ listening'[n]
      /\ peers'[n] = configs[Latest]
      /\ \A x \in Nodes : x # n => /\ pc'[x] = pc[x] /\ peers'[x] = peers[x]
                                   /\ (listening'[x] <=> listening[x])
      /\ listening' \in [Nodes -> BOOLEAN]
  BY DEF StartNode, maVars, Types, ListenInv
<1>2. Core' = Core /\ Core \subseteq peers'[n]
  <2>1. configs[Latest] \in {Genesis, Moved}
    BY DEF ConfigInv, Latest
  <2>. QED
    BY <1>1, <2>1, CoreNotEmpty DEF Core
<1>3. ASSUME NEW x \in Nodes
      PROVE  /\ listening'[x] <=> pc'[x] # "off"
             /\ listening'[x] => Core \ {x} \subseteq peers'[x]
  BY <1>1, <1>2 DEF ListenInv
<1>4. ASSUME NEW p \in accepting
      PROVE  p[1] \in Core /\ p[1] # p[2] /\ listening'[p[2]]
  <2>1. p[2] \in Nodes
    BY DEF Types
  <2>. QED
    BY <1>1, <2>1 DEF ListenInv
<1>5. (\A h \in moving', x \in Genesis : x <= h)
      /\ \A p, q \in accepting' : p[2] = q[2] => p = q
  BY <1>1 DEF ListenInv
<1>. QED
  BY <1>1, <1>2, <1>3, <1>4, <1>5 DEF ListenInv

LEMMA UpdateListens ==
  ASSUME IInv, IInv', ListenInv, NEW n \in Nodes, UpdateVersion(n)
  PROVE  ListenInv'
<1>. Types /\ Types' /\ ConfigInv
  BY DEF IInv
<1>1. /\ UNCHANGED <<moving, accepting, in_sync, listening>>
      /\ pc[n] = "loop" /\ pc'[n] = "rejoin"
      /\ peers'[n] = Remaining(n) \cup PeersOf(n)
      /\ \A x \in Nodes : x # n => pc'[x] = pc[x] /\ peers'[x] = peers[x]
  BY DEF UpdateVersion, maVars, Types
<1>2. Core' = Core /\ Core \ {n} \subseteq peers'[n]
  <2>1. ListsOf(n) \in {Genesis, Moved}
    BY VersionNumbers DEF ConfigInv, Latest, ListsOf
  <2>. QED
    BY <1>1, <2>1, CoreNotEmpty DEF Core, PeersOf
<1>3. ASSUME NEW x \in Nodes
      PROVE  /\ listening[x] <=> pc'[x] # "off"
             /\ listening[x] => Core \ {x} \subseteq peers'[x]
  BY <1>1, <1>2 DEF ListenInv
<1>. QED
  BY <1>1, <1>2, <1>3 DEF ListenInv

\* Only writers that stay call, and whom they call lists them.
LEMMA CallersKnown ==
  ASSUME IInv, ListenInv, NEW a \in Nodes, NEW b \in Nodes, Dial(a, b)
  PROVE  a \in Core /\ a # b /\ a \in peers[b]
<1>. Types /\ ConfigInv /\ VersionInv /\ PeersInv
  BY DEF IInv
<1>1. /\ listening[a] /\ listening[b] /\ a < b /\ b \in peers[a]
  BY DEF Dial, Dials
<1>2. b \in ma_writer_list[a] /\ ma_writer_list[a] \in {Genesis, Moved}
  BY <1>1, Lists DEF PeersInv
<1>3. a \notin moving
  <2>1. SUFFICES ASSUME a \in moving PROVE FALSE
    OBVIOUS
  <2>2. b \in Genesis \/ b = a
    BY <1>2, <2>1 DEF Moved, Core, ConfigInv
  <2>3. a \in Nat /\ b \in Nat /\ a # b
    BY <1>1, Ids
  <2>4. b <= a
    BY <2>1, <2>2, <2>3 DEF ListenInv
  <2>. QED
    BY <1>1, <2>3, <2>4
<1>4. a \in Genesis
  <2>1. pc[a] # "off"
    BY <1>1 DEF ListenInv
  <2>. QED
    BY <1>3, <2>1, Running
<1>5. a \in Core /\ a # b
  BY <1>1, <1>3, <1>4, Ids DEF Core
<1>. QED
  BY <1>1, <1>5 DEF ListenInv

LEMMA ComListens ==
  ASSUME IInv, IInv', ListenInv, NEW a \in Nodes, NEW b \in Nodes,
         Dial(a, b) \/ Accept(a, b) \/ ReadClosed(a, b)
  PROVE  ListenInv'
<1>. Types /\ Types' /\ ConfigInv
  BY DEF IInv
<1>0. UNCHANGED <<moving, pc, peers>> /\ Core' = Core
  BY DEF Dial, Accept, ReadClosed, maVars, Core
<1>1. CASE Dial(a, b)
  <2>1. a \in Core /\ a # b /\ a \in peers[b] /\ listening[b] /\ ~Busy(b)
    BY <1>1, CallersKnown DEF Dial
  <2>2. /\ listening' = listening /\ accepting' = accepting \cup {<<a, b>>}
        /\ in_sync' = [in_sync EXCEPT ![b] = FALSE]
    BY <1>1, <2>1 DEF Dial
  <2>3. in_sync' \in [Nodes -> BOOLEAN]
    BY <2>2 DEF ListenInv
  <2>4. ASSUME NEW p \in accepting' PROVE p[1] \in Core /\ p[1] # p[2] /\ listening[p[2]]
    BY <2>1, <2>2 DEF ListenInv
  <2>5. ASSUME NEW p \in accepting', NEW q \in accepting', p[2] = q[2]
        PROVE  p = q
    BY <2>1, <2>2, <2>5 DEF ListenInv, Busy
  <2>. QED
    BY <1>0, <2>2, <2>3, <2>4, <2>5 DEF ListenInv
<1>2. CASE Accept(a, b)
  <2>1. a \in peers[b]
    <3>1. <<a, b>>[1] \in Core /\ <<a, b>>[1] # <<a, b>>[2] /\ listening[<<a, b>>[2]]
      BY <1>2 DEF Accept, ListenInv
    <3>. QED
      BY <3>1 DEF ListenInv
  <2>2. /\ listening' = listening /\ in_sync' = in_sync
        /\ accepting' \subseteq accepting
    BY <1>2, <2>1 DEF Accept
  <2>. QED
    BY <1>0, <2>2 DEF ListenInv
<1>3. CASE ReadClosed(a, b)
  BY <1>0, <1>3, ListenStays DEF ReadClosed, ListenInv
<1>. QED
  BY <1>1, <1>2, <1>3

LEMMA NextListens ==
  ASSUME IInv, IInv', ListenInv, [Next]_vars
  PROVE  ListenInv'
<1>. Types
  BY DEF IInv
<1>1. CASE UNCHANGED vars
  BY <1>1, ListenStays DEF vars, maVars, comVars, ListenInv
<1>2. CASE Terminated
  BY <1>2, ListenStays DEF Terminated, vars, maVars, comVars, ListenInv
<1>3. ASSUME NEW n \in Nodes, StartNode(n)
      PROVE  ListenInv'
  BY <1>3, StartNodeListens
<1>4. ASSUME NEW n \in Nodes,
             Activate(n) \/ FetchAbandoned(n) \/ Deactivate(n) \/ JoinPoll(n)
      PROVE  ListenInv'
  <2>1. /\ UNCHANGED <<moving, peers, accepting, listening>>
        /\ \A x \in Nodes : pc'[x] = "off" <=> pc[x] = "off"
    BY <1>4 DEF Activate, FetchAbandoned, Deactivate, JoinPoll, maVars, comVars, Types
  <2>2. in_sync' \in [Nodes -> BOOLEAN]
    BY <1>4 DEF Activate, FetchAbandoned, Deactivate, JoinPoll, ListenInv
  <2>. QED
    BY <2>1, <2>2, ListenStays
<1>5. ASSUME NEW n \in Nodes, UpdateVersion(n)
      PROVE  ListenInv'
  BY <1>5, UpdateListens
<1>6. ASSUME NEW n \in Nodes,
             JoinDone(n) \/ StartCoordinator(n) \/ StartWriter(n)
             \/ AnswerRequest(n) \/ CollectReply(n) \/ AnnounceWinner(n)
      PROVE  ListenInv'
  <2>1. UNCHANGED <<moving, peers, accepting, listening, in_sync>>
    BY <1>6 DEF JoinDone, StartCoordinator, StartWriter, AnswerRequest,
                CollectReply, AnnounceWinner, maVars, comVars
  <2>2. \A x \in Nodes : pc'[x] = "off" <=> pc[x] = "off"
    BY <1>6 DEF JoinDone, StartCoordinator, StartWriter, AnswerRequest, Types,
                CollectReply, AnnounceWinner, TopOfRound
  <2>. QED
    BY <2>1, <2>2, ListenStays DEF ListenInv
<1>7. ASSUME NEW n \in Nodes, TakeAnnouncement(n) \/ ReceiveBlock(n)
      PROVE  ListenInv'
  <2>1. UNCHANGED <<moving, peers, accepting, listening, in_sync>>
    BY <1>7 DEF TakeAnnouncement, ReceiveBlock, maVars, comVars
  <2>2. pc[n] # "off" /\ \E v : v # "off" /\ pc' = [pc EXCEPT ![n] = v]
    <3>1. pc[n] # "off"
      BY <1>7 DEF TakeAnnouncement, ReceiveBlock
    <3>2. ASSUME NEW b, StoreBlock(n, b)
          PROVE  \E v : v # "off" /\ pc' = [pc EXCEPT ![n] = v]
      <4>1. CASE round'[n] > Rounds
        BY <3>2, <4>1 DEF StoreBlock
      <4>2. CASE ~(round'[n] > Rounds)
        BY <3>2, <4>2 DEF StoreBlock
      <4>. QED
        BY <4>1, <4>2
    <3>3. CASE ReceiveBlock(n)
      BY <3>1, <3>2, <3>3 DEF ReceiveBlock
    <3>4. CASE TakeAnnouncement(n)
      <4>1. \/ \E b : StoreBlock(n, b)
            \/ pc' = [pc EXCEPT ![n] = "await_block"]
        BY <3>4 DEF TakeAnnouncement
      <4>. QED
        BY <3>1, <3>2, <4>1
    <3>. QED
      BY <1>7, <3>3, <3>4
  <2>3. \A x \in Nodes : pc'[x] = "off" <=> pc[x] = "off"
    BY <2>2 DEF Types
  <2>. QED
    BY <2>1, <2>3, ListenStays DEF ListenInv
<1>8. ASSUME NEW n \in Nodes, ComStep(n)
      PROVE  ListenInv'
  BY <1>8, ComListens DEF ComStep
<1>. QED
  BY <1>1, <1>2, <1>3, <1>4, <1>5, <1>6, <1>7, <1>8 DEF Next, EngineStep

----------------------------------------------------------------------------
(* Writers that wait for the node that joins.                               *)

\* Writers whose lists have the node that is still waiting decide nothing, so
\* that all of them have the same blocks.
LEMMA WritersWait ==
  ASSUME IInv, WaitInv, NEW h \in Joiners, pc[h] = "join",
         \A a \in Genesis : a \in connected[h] \/ <<a, h>> \in accepting
  PROVE  /\ \A a \in Genesis :
              ma_writer_list[a] = Moved /\ ~Taken(Len(chain[a]))
         /\ \A a, b \in Genesis : Len(chain[a]) = Len(chain[b])
<1>. Types /\ PeersInv
  BY DEF IInv
<1>1. ASSUME NEW a \in Genesis
      PROVE  /\ a \in Nodes /\ Len(chain[a]) \in Nat
             /\ ma_writer_list[a] = Moved /\ ~Taken(Len(chain[a]))
  <2>1. a \in Nodes /\ Len(chain[a]) \in Nat
    BY Ids, ChainType
  <2>2. ma_writer_list[a] = Moved
    BY DEF PeersInv
  <2>. QED
    BY <2>1, <2>2 DEF WaitInv
<1>2. ASSUME NEW a \in Genesis, NEW b \in Genesis
      PROVE  ~(Len(chain[a]) < Len(chain[b]))
  BY <1>1, StoredIsTaken
<1>. QED
  BY <1>1, <1>2

LEMMA CalledFacts ==
  ASSUME NEW h \in Joiners, Called(h)
  PROVE  \A a \in Genesis : a \in connected[h] \/ <<a, h>> \in accepting
BY DEF Called

\* The lists of the writers do not change, and nothing is decided.
LEMMA WaitStays ==
  ASSUME IInv, IInv', WaitInv, moving' = moving,
         \A h \in Joiners :
           pc'[h] = "join" => pc[h] = "join",
         \A a \in Genesis :
           /\ ma_writer_list'[a] = Moved => ma_writer_list[a] = Moved
           /\ Len(chain'[a]) >= Len(chain[a]),
         \A l \in Nat : Taken(l)' => Taken(l)
  PROVE  WaitInv'
<1>1. Moved' = Moved
  BY DEF Moved, Core
<1>2. ASSUME NEW a \in Genesis
      PROVE  Len(chain[a]) \in Nat /\ Len(chain'[a]) \in Nat
  <2>1. a \in Nodes /\ Types /\ Types'
    BY Ids DEF IInv
  <2>2. chain[a] \in Seq(Nodes \X Nat) /\ chain'[a] \in Seq(Nodes \X Nat)
    BY <2>1 DEF Types
  <2>. QED
    BY <2>2
<1>3. ASSUME NEW h \in Joiners, NEW a \in Genesis, NEW l \in Nat,
             pc'[h] = "join", ma_writer_list'[a] = Moved', Taken(l)'
      PROVE  l < Len(chain'[a])
  BY <1>1, <1>2, <1>3 DEF WaitInv
<1>. QED
  BY <1>3 DEF WaitInv

\* No connection to the node that waits is made.
LEMMA PollStays ==
  ASSUME PollInv,
         \A h \in Joiners : pc'[h] = "join" =>
           /\ pc[h] = "join" /\ chain'[h] = chain[h]
           /\ connected'[h] \subseteq connected[h]
           /\ in_sync'[h] => in_sync[h]
           /\ \A a \in Genesis : in_sync'[h] /\ <<a, h>> \in accepting' =>
                <<a, h>> \in accepting,
         \A h \in Joiners : pc[h] = "join" /\ Called(h) =>
           \A m \in Genesis : chain'[m] = chain[m]
  PROVE  PollInv'
<1>1. ASSUME NEW h \in Joiners, pc'[h] = "join", in_sync'[h], Called(h)'
      PROVE  in_sync[h] /\ Called(h)
  BY <1>1 DEF Called
<1>. QED
  BY <1>1 DEF PollInv

----------------------------------------------------------------------------
(* The steps of the node that joins.                                        *)

\* While it has not fetched the chain nobody lists it.
LEMMA NobodyMoved ==
  ASSUME IInv, NEW h \in Joiners, pc[h] \in {"off", "fetch"}, h \in moving
  PROVE  /\ \A a \in Genesis : ma_writer_list[a] # Moved
         /\ Core = Genesis
<1>. Types /\ ConfigInv /\ VersionInv
  BY DEF IInv
<1>1. Core = Genesis /\ Moved # Genesis
  BY MembershipAssumption, OneMover
<1>2. Latest # 2
  BY DEF ConfigInv
<1>3. ASSUME NEW a \in Genesis PROVE ma_writer_list[a] # Moved
  <2>1. VersionOf(a) /\ a \in Nodes
    BY Ids DEF VersionInv
  <2>2. proposed_version[a] # 2
    BY <1>2, <2>1, VersionNumbers
  <2>. QED
    BY <1>1, <2>1, <2>2 DEF VersionOf
<1>. QED
  BY <1>1, <1>3

LEMMA ActivateWaits ==
  ASSUME IInv, IInv', WaitInv, PollInv, NEW n \in Nodes,
         StartNode(n) \/ Activate(n) \/ FetchAbandoned(n) \/ Deactivate(n)
  PROVE  WaitInv' /\ PollInv'
<1>. Types /\ Types' /\ ConfigInv /\ PeersInv
  BY DEF IInv
<1>1. /\ moving' = moving /\ connected' = connected /\ accepting' = accepting
      /\ in_sync' = in_sync
      /\ \A x \in Nodes : x # n =>
           pc'[x] = pc[x] /\ ma_writer_list'[x] = ma_writer_list[x]
  <2>1. CASE StartNode(n)
    BY <2>1 DEF StartNode, maVars, Types
  <2>2. CASE Activate(n)
    BY <2>2 DEF Activate, comVars, Types
  <2>3. CASE FetchAbandoned(n)
    BY <2>3 DEF FetchAbandoned, maVars, comVars, memberVars
  <2>4. CASE Deactivate(n)
    BY <2>4 DEF Deactivate, comVars, memberVars
  <2>. QED
    BY <2>1, <2>2, <2>3, <2>4
<1>2. \A l \in Nat : Taken(l)' => Taken(l)
  BY ConfigsTaken DEF Fetching
<1>3. CASE Deactivate(n)
  <2>1. pc' = pc /\ chain' = chain /\ ma_writer_list' = ma_writer_list
    BY <1>3 DEF Deactivate, memberVars
  <2>2. \A a \in Genesis : Len(chain[a]) \in Nat
    BY Ids, ChainType
  <2>. QED
    BY <1>1, <1>2, <2>1, <2>2, WaitStays, PollStays
<1>4. CASE StartNode(n) \/ Activate(n) \/ FetchAbandoned(n)
  <2>1. n \in Joiners /\ n \in moving /\ pc[n] \in {"off", "fetch"}
    BY <1>4 DEF StartNode, Activate, FetchAbandoned, ConfigInv, Nodes
  <2>2. \A a \in Genesis : ma_writer_list[a] # Moved
    BY <2>1, NobodyMoved
  <2>3. ASSUME NEW x \in Genesis
        PROVE  /\ x \in Nodes /\ x # n /\ chain'[x] = chain[x]
               /\ ma_writer_list'[x] # Moved'
    <3>1. x \in Nodes /\ x # n
      BY <2>1, MembershipAssumption, Ids
    <3>2. chain'[x] = chain[x]
      BY <1>4, <3>1, FetchingFetches DEF Fetching
    <3>. QED
      BY <1>1, <2>2, <3>1, <3>2 DEF Moved, Core
  <2>4. Genesis # {}
    BY CoreNotEmpty
  <2>7. ASSUME NEW h \in Joiners, Called(h)' PROVE FALSE
    <3>1. \A a \in Genesis : a \in connected[h] \/ <<a, h>> \in accepting
      BY <1>1, <2>7 DEF Called
    <3>. QED
      BY <2>2, <2>4, <3>1 DEF PeersInv
  <2>. QED
    BY <2>3, <2>7 DEF WaitInv, PollInv
<1>. QED
  BY <1>3, <1>4

\* A poll fetches what the writers have.
LEMMA JoinPollWaits ==
  ASSUME IInv, IInv', ListenInv, WaitInv, PollInv, NEW n \in Nodes, JoinPoll(n)
  PROVE  WaitInv' /\ PollInv'
<1>. Types /\ Types' /\ ConfigInv /\ PeersInv /\ VersionInv
  BY DEF IInv
<1>1. /\ UNCHANGED <<moving, configs, pc, connected, accepting>>
      /\ n \in Joiners /\ pc[n] \in {"join", "rejoin"}
      /\ WaitingNodeGetConf(n)
      /\ \A x \in Nodes : x # n => in_sync'[x] = in_sync[x]
      /\ InSync(n, ma_writer_list'[n]) \/ in_sync' = in_sync
  <2>1. /\ UNCHANGED <<moving, configs, pc, connected, accepting>>
        /\ n \in Joiners /\ pc[n] \in {"join", "rejoin"}
        /\ WaitingNodeGetConf(n)
    BY DEF JoinPoll, comVars, Nodes
  <2>2. \/ /\ InSync(n, ma_writer_list'[n])
           /\ in_sync' = [in_sync EXCEPT ![n] = TRUE]
        \/ in_sync' = in_sync
    BY DEF JoinPoll
  <2>3. in_sync \in [Nodes -> BOOLEAN]
    BY DEF ListenInv
  <2>4. \A x \in Nodes : x # n => in_sync'[x] = in_sync[x]
    BY <2>2, <2>3
  <2>. QED
    BY <2>1, <2>2, <2>4
<1>6. /\ \A x \in Nodes : x # n => chain'[x] = chain[x]
      /\ Len(chain'[n]) >= Len(chain[n])
  BY FetchingFetches DEF Fetching
<1>2. /\ \A x \in Nodes : x # n => ma_writer_list'[x] = ma_writer_list[x]
      /\ ma_writer_list'[n] = Moved
  <2>1. ma_writer_list[n] = Moved /\ n \in moving /\ Latest = 2
    BY <1>1 DEF ConfigInv, VersionInv, ListOf
  <2>2. configs[Latest] = Moved
    BY <2>1 DEF ConfigInv, Latest
  <2>. QED
    BY <1>1, <2>1, <2>2 DEF WaitingNodeGetConf, Types
<1>3. ASSUME NEW x \in Genesis
      PROVE  /\ x \in Nodes /\ x # n /\ chain'[x] = chain[x]
             /\ Len(chain[x]) \in Nat
             /\ ma_writer_list'[x] = ma_writer_list[x]
  <2>1. x \in Nodes /\ x # n
    BY <1>1, MembershipAssumption, Ids
  <2>. QED
    BY <1>2, <1>6, <2>1, ChainType
<1>4. WaitInv'
  <2>1. \A l \in Nat : Taken(l)' => Taken(l)
    BY ConfigsTaken DEF Fetching
  <2>2. ASSUME NEW h \in Joiners
        PROVE  pc'[h] = "join" => pc[h] = "join"
    BY <1>1, Ids
  <2>3. ASSUME NEW a \in Genesis
        PROVE  /\ ma_writer_list'[a] = Moved => ma_writer_list[a] = Moved
               /\ Len(chain'[a]) >= Len(chain[a])
    BY <1>3
  <2>. QED
    BY <1>1, <2>1, <2>2, <2>3, WaitStays
<1>5. PollInv'
  <2>1. ASSUME NEW h \in Joiners, pc'[h] = "join", in_sync'[h], Called(h)',
               NEW m \in Genesis
        PROVE  Len(chain'[m]) <= Len(chain'[h])
    <3>1. h \in Nodes /\ pc[h] = "join" /\ Called(h) /\ Len(chain[h]) \in Nat
      BY <1>1, <2>1, Ids, ChainType DEF Called
    <3>2. CASE h # n \/ in_sync' = in_sync
      <4>1. in_sync[h]
        BY <1>1, <2>1, <3>1, <3>2
      <4>2. Len(chain[m]) <= Len(chain[h])
        BY <2>1, <3>1, <4>1 DEF PollInv
      <4>3. Len(chain'[h]) >= Len(chain[h]) /\ Len(chain'[h]) \in Nat
        <5>1. chain'[h] \in Seq(Nodes \X Nat)
          BY <3>1 DEF Types
        <5>2. Len(chain'[h]) \in Nat
          BY <5>1
        <5>3. Len(chain'[h]) >= Len(chain[h])
          BY <1>6, <3>1
        <5>. QED
          BY <5>2, <5>3
      <4>. QED
        BY <1>3, <3>1, <4>2, <4>3
    <3>3. CASE h = n /\ InSync(n, ma_writer_list'[n])
      <4>1. \A a, b \in Genesis : Len(chain[a]) = Len(chain[b])
        BY <3>1, CalledFacts, WritersWait
      <4>2. Moved = Genesis \cup {n}
        <5>1. n \in moving
          BY <1>1 DEF ConfigInv
        <5>. QED
          BY <1>1, <5>1, OneMover
      <4>3. PICK x \in Moved \ {n} :
              /\ Knows(x, n)
              /\ chain' = [chain EXCEPT ![n] = @ \o Missing(n, x)]
        BY <1>2, <3>3 DEF InSync
      <4>4. x \in Genesis /\ Len(chain[n]) <= Len(chain[x])
        BY <4>2, <4>3 DEF Knows
      <4>5. chain'[n] = chain[n] \o SubSeq(chain[x], Len(chain[n]) + 1, Len(chain[x]))
        BY <1>1, <4>3, Ids DEF Missing, Types
      <4>6. Len(chain'[n]) = Len(chain[x])
        <5>1. x \in Nodes /\ n \in Nodes
          BY <1>3, <4>4
        <5>2. PICK k \in Nat : k = Len(chain[x])
          BY <1>3, <4>4
        <5>3. chain'[n] = More(n, x, k)
          BY <4>5, <5>2 DEF More
        <5>4. Len(chain[n]) <= k /\ k <= Len(chain[x])
          BY <1>3, <4>4, <5>2
        <5>5. Len(More(n, x, k)) = k
          BY <5>1, <5>4, MoreOfChain
        <5>. QED
          BY <5>2, <5>3, <5>5
      <4>. QED
        BY <1>3, <3>3, <4>1, <4>4, <4>6
    <3>. QED
      BY <1>1, <3>2, <3>3
  <2>. QED
    BY <2>1 DEF PollInv
<1>. QED
  BY <1>4, <1>5

----------------------------------------------------------------------------
(* The steps of the writers.                                                *)

\* A step of n that leaves the chains alone.
Onwards(n) ==
  /\ UNCHANGED <<moving, chain, accepting, in_sync>>
  /\ \A x \in Nodes : x # n =>
       pc'[x] = pc[x] /\ connected'[x] = connected[x]
  /\ pc'[n] \notin {"off", "join"}

LEMMA OnwardsPoll ==
  ASSUME PollInv, NEW n \in Nodes, Onwards(n)
  PROVE  PollInv'
<1>1. ASSUME NEW h \in Joiners, pc'[h] = "join"
      PROVE  /\ pc[h] = "join" /\ connected'[h] = connected[h]
  BY <1>1, Ids DEF Onwards
<1>. QED
  BY <1>1, PollStays DEF Onwards

LEMMA OnwardsWait ==
  ASSUME IInv, IInv', WaitInv, NEW n \in Nodes, Onwards(n),
         ma_writer_list' = ma_writer_list,
         \A l \in Nat : Taken(l)' => Taken(l)
  PROVE  WaitInv'
<1>1. ASSUME NEW h \in Joiners
      PROVE  pc'[h] = "join" => pc[h] = "join"
  BY Ids DEF Onwards
<1>2. ASSUME NEW a \in Genesis PROVE Len(chain'[a]) >= Len(chain[a])
  <2>1. Len(chain[a]) \in Nat
    BY Ids, ChainType DEF IInv
  <2>. QED
    BY <2>1 DEF Onwards
<1>. QED
  BY <1>1, <1>2, WaitStays DEF Onwards

\* What is taken is nothing new when the announcements stay.
LEMMA OnwardsTaken ==
  ASSUME IInv, IInv', NEW n \in Nodes, Onwards(n), pc'[n] # "await_block",
         winner' = winner, MsgsOf("announce")' = MsgsOf("announce")
  PROVE  \A l \in Nat : Taken(l)' => Taken(l)
<1>. Types'
  BY DEF IInv
<1>1. ASSUME NEW x \in Nodes, pc'[x] = "await_block"
      PROVE  pc[x] = "await_block" /\ chain'[x] = chain[x] /\ winner'[x] = winner[x]
  BY <1>1 DEF Onwards
<1>2. /\ \A x \in Nodes : Copied(chain'[x])
      /\ \A m \in MsgsOf("announce")' :
           m \in MsgsOf("announce") /\ chain'[m.to] = chain[m.to]
  BY OwnIsCopied DEF Onwards, IInv
<1>. QED
  BY <1>1, <1>2, NothingTaken

\* Steps at the top of a round and in it that decide and store nothing.
LEMMA RoundWaits ==
  ASSUME IInv, IInv', WaitInv, PollInv, NEW n \in Nodes,
         JoinDone(n) \/ StartCoordinator(n) \/ StartWriter(n)
         \/ AnswerRequest(n) \/ CollectReply(n)
  PROVE  WaitInv' /\ PollInv'
<1>. Types
  BY DEF IInv
<1>1. /\ UNCHANGED <<moving, chain, accepting, in_sync, connected,
                     ma_writer_list, winner>>
      /\ \A x \in Nodes : x # n => pc'[x] = pc[x]
      /\ pc'[n] \in {"loop", "ready", "collect", "await_request", "await_announce"}
  BY DEF JoinDone, StartCoordinator, StartWriter, AnswerRequest, CollectReply,
         maVars, comVars, roundVars, memberVars, Types
<1>2. MsgsOf("announce")' = MsgsOf("announce")
  <2>1. CASE JoinDone(n) \/ StartWriter(n)
    BY <2>1 DEF JoinDone, StartWriter, MsgsOf
  <2>2. CASE StartCoordinator(n)
    BY <2>2 DEF StartCoordinator, MsgsOf, Broadcast, Msg
  <2>3. CASE AnswerRequest(n)
    <3>1. PICK m \in Requests(n) :
            msgs' = (msgs \ {m}) \cup
                    {Msg("reply", n, c, 0) : c \in {m.from} \cap connected[n]}
      BY <2>3 DEF AnswerRequest
    <3>2. m.type = "request"
      BY DEF Requests, Receivable
    <3>. QED
      BY <3>1, <3>2 DEF MsgsOf, Msg
  <2>4. CASE CollectReply(n)
    <3>1. PICK m \in Receivable(n, "reply") : msgs' = msgs \ {m}
      BY <2>4 DEF CollectReply
    <3>2. m.type = "reply"
      BY DEF Receivable
    <3>. QED
      BY <3>1, <3>2 DEF MsgsOf
  <2>. QED
    BY <2>1, <2>2, <2>3, <2>4
<1>3. Onwards(n)
  BY <1>1 DEF Onwards
<1>. QED
  BY <1>1, <1>2, <1>3, OnwardsTaken, OnwardsWait, OnwardsPoll

\* A writer changes to a new list when all that was decided is in its chain.
LEMMA UpdateWaits ==
  ASSUME IInv, IInv', WaitInv, PollInv, NEW n \in Nodes, UpdateVersion(n)
  PROVE  WaitInv' /\ PollInv'
<1>. Types /\ ConfigInv /\ CoreInv
  BY DEF IInv
<1>1. /\ UNCHANGED <<moving, chain, accepting, in_sync, winner, msgs>>
      /\ pc[n] = "loop" /\ pc'[n] = "rejoin"
      /\ \A x \in Nodes : x # n => /\ pc'[x] = pc[x]
                                   /\ connected'[x] = connected[x]
                                   /\ ma_writer_list'[x] = ma_writer_list[x]
  BY DEF UpdateVersion, maVars, roundVars, Types
<1>2. Onwards(n) /\ Moved' = Moved
  BY <1>1 DEF Onwards, Moved, Core
<1>3. \A l \in Nat : Taken(l)' => Taken(l)
  BY <1>1, <1>2, OnwardsTaken DEF MsgsOf
<1>4. ASSUME NEW h \in Joiners
      PROVE  pc'[h] = "join" => pc[h] = "join" /\ h # n
  BY <1>1, Ids
<1>5. ASSUME NEW h \in Joiners, NEW a \in Genesis, NEW l \in Nat,
             pc'[h] = "join", ma_writer_list'[a] = Moved', Taken(l)'
      PROVE  l < Len(chain'[a])
  <2>1. a \in Nodes /\ Taken(l) /\ Len(chain[a]) \in Nat
    BY <1>3, <1>5, Ids, ChainType
  <2>2. CASE a # n
    BY <1>1, <1>2, <1>4, <1>5, <2>1, <2>2 DEF WaitInv
  <2>3. CASE a = n
    <3>1. h \in moving
      BY <1>4, <1>5 DEF ConfigInv
    <3>2. a \in Core
      BY <3>1, OneMover
    <3>3. l <= Len(chain[a]) /\ (l = Len(chain[a]) => Bound(a))
      BY <2>1, <3>2 DEF CoreInv, UpToDate
    <3>4. ~Bound(a)
      BY <1>1, <2>3 DEF Bound, Awaiting
    <3>. QED
      BY <1>1, <2>1, <3>3, <3>4
  <2>. QED
    BY <2>2, <2>3
<1>. QED
  BY <1>2, <1>4, <1>5, OnwardsPoll DEF WaitInv

\* A coordinator that lists the node that waits lacks its number, and one that
\* does not has numbers of writers that do not list it either.
LEMMA AnnounceWaits ==
  ASSUME IInv, IInv', WaitInv, PollInv, NEW n \in Nodes, AnnounceWinner(n)
  PROVE  WaitInv' /\ PollInv'
<1>. Types /\ ConfigInv /\ VersionInv /\ NumbersInv
  BY DEF IInv
<1>1. /\ UNCHANGED <<moving, chain, accepting, in_sync, connected, ma_writer_list>>
      /\ pc[n] = "collect" /\ pc'[n] = "await_block"
      /\ \A x \in Nodes : x # n => pc'[x] = pc[x]
      /\ Cardinality(numbers[n]) >= RepliesNeeded(n)
  BY DEF AnnounceWinner, maVars, comVars, memberVars, Types
<1>2. Onwards(n) /\ Moved' = Moved
  BY <1>1 DEF Onwards, Moved, Core
<1>3. numbers[n] = ma_writer_list[n] \ {n}
  BY <1>1, AllReplied
<1>4. ASSUME NEW h \in Joiners
      PROVE  pc'[h] = "join" => pc[h] = "join" /\ h # n
  BY <1>1, Ids
<1>5. ASSUME NEW h \in Joiners, NEW a \in Genesis, pc[h] = "join",
             ma_writer_list[a] = Moved
      PROVE  FALSE
  <2>1. h \in moving /\ Core = Genesis /\ h \notin Genesis /\ h \in Moved
    BY <1>5, OneMover DEF ConfigInv
  <2>2. h \notin ma_writer_list[n]
    BY <1>1, <1>3, <1>5 DEF NumbersInv
  <2>3. a \in ma_writer_list[n]
    BY <2>1, Lists
  <2>4. a = n \/ a \in numbers[n]
    BY <1>3, <2>3
  <2>5. a # n
    BY <1>5, <2>1, <2>2
  <2>6. ma_writer_list[a] \subseteq ma_writer_list[n]
    BY <1>1, <2>4, <2>5, RepliersLists
  <2>. QED
    BY <1>5, <2>1, <2>2, <2>6
<1>6. WaitInv'
  BY <1>1, <1>2, <1>4, <1>5 DEF WaitInv
<1>. QED
  BY <1>2, <1>6, OnwardsPoll

\* Nobody stores a block that the node that waits could lack.
LEMMA StoringWaits ==
  ASSUME IInv, IInv', WaitInv, PollInv, NEW n \in Nodes, NEW w \in Nodes,
         Settled(n, w), Stores(n, w), in_sync' = in_sync
  PROVE  WaitInv' /\ PollInv'
<1>. Types
  BY DEF IInv
<1>1. /\ UNCHANGED <<moving, accepting, connected, ma_writer_list>>
      /\ pc[n] \in Awaiting /\ pc'[n] \in {"loop", "done"}
      /\ \A x \in Nodes : x # n => pc'[x] = pc[x] /\ chain'[x] = chain[x]
  BY DEF Stores, Same, Settled
<1>2. \A l \in Nat : Taken(l)' => Taken(l)
  BY StoringFacts DEF Taken
<1>3. Taken(Len(chain[n]))
  BY DEF Settled, Taken
<1>4. ASSUME NEW h \in Joiners
      PROVE  /\ pc'[h] = "join" => pc[h] = "join" /\ chain'[h] = chain[h]
  BY <1>1, Ids
<1>5. ASSUME NEW a \in Genesis
      PROVE  Len(chain'[a]) >= Len(chain[a])
  <2>1. a \in Nodes /\ Len(chain[a]) \in Nat
    BY Ids, ChainType
  <2>2. Len(chain'[n]) = Len(chain[n]) + 1
    BY StoringFacts
  <2>. QED
    BY <1>1, <2>1, <2>2
<1>6. WaitInv'
  BY <1>1, <1>2, <1>4, <1>5, WaitStays
<1>7. ASSUME NEW h \in Joiners, pc[h] = "join", Called(h), NEW m \in Genesis
      PROVE  chain'[m] = chain[m]
  <2>1. ~Taken(Len(chain[m]))
    BY <1>7, CalledFacts, WritersWait
  <2>2. m # n
    BY <1>3, <2>1
  <2>. QED
    BY <1>1, <2>2, Ids
<1>8. PollInv'
  BY <1>1, <1>4, <1>7, PollStays
<1>. QED
  BY <1>6, <1>8

LEMMA BlockWaits ==
  ASSUME IInv, IInv', WaitInv, PollInv, NEW n \in Nodes,
         TakeAnnouncement(n) \/ ReceiveBlock(n)
  PROVE  WaitInv' /\ PollInv'
<1>. Types
  BY DEF IInv
<1>1. CASE TakeAnnouncement(n)
  <2>1. Types'
    BY DEF IInv
  <2>2. /\ pc[n] = "await_announce" /\ in_sync' = in_sync
        /\ UNCHANGED <<maVars, numbers, memberVars, comVars, in_sync>>
    BY <1>1 DEF TakeAnnouncement
  <2>3. PICK m \in Receivable(n, "announce") :
          /\ winner' = [winner EXCEPT ![n] = m.content]
          /\ \/ /\ m.content = n
                /\ StoreBlock(n, <<n, Len(chain[n])>>)
                /\ msgs' = (msgs \ {m}) \cup
                           Broadcast("block", n, <<n, Len(chain[n])>>)
             \/ /\ msgs' = msgs \ {m}
                /\ pc' = [pc EXCEPT ![n] = "await_block"]
                /\ UNCHANGED <<chain, round>>
    BY <1>1 DEF TakeAnnouncement, IsWinner
  <2>4. CASE /\ m.content = n
             /\ StoreBlock(n, <<n, Len(chain[n])>>)
             /\ msgs' = (msgs \ {m}) \cup
                        Broadcast("block", n, <<n, Len(chain[n])>>)
    <3>1. Settled(n, n) /\ Stores(n, n)
      BY <2>1, <2>2, <2>3, <2>4, WinKeeps
    <3>. QED
      BY <2>2, <3>1, StoringWaits
  <2>5. CASE /\ msgs' = msgs \ {m}
             /\ pc' = [pc EXCEPT ![n] = "await_block"]
             /\ UNCHANGED <<chain, round>>
    <3>1. Lose(n, m)
      BY <2>3, <2>5 DEF Lose
    <3>2. \A l \in Nat : Taken(l)' => Taken(l)
      BY <3>1, LoseTaken
    <3>3. Onwards(n) /\ ma_writer_list' = ma_writer_list
      BY <2>2, <2>5 DEF Onwards, maVars, comVars, memberVars, Types
    <3>. QED
      BY <3>2, <3>3, OnwardsWait, OnwardsPoll
  <2>. QED
    BY <2>3, <2>4, <2>5
<1>2. CASE ReceiveBlock(n)
  <2>1. PICK w \in Nodes : Settled(n, w) /\ Stores(n, w)
    BY <1>2, ReceiveBlockKeeps
  <2>2. in_sync' = in_sync
    BY <1>2 DEF ReceiveBlock
  <2>. QED
    BY <2>1, <2>2, StoringWaits
<1>. QED
  BY <1>1, <1>2

----------------------------------------------------------------------------
(* The connections.                                                         *)

\* A node that has joined or is about to has a connection to every writer.
LEMMA AllConnected ==
  ASSUME IInv, NEW h \in Joiners, pc[h] = "join"
  PROVE  /\ ~(Genesis \subseteq connected[h]) => ~Joined(h)
         /\ Joined(h) => Genesis \subseteq connected[h]
<1>. Types /\ ConfigInv /\ VersionInv /\ PeersInv
  BY DEF IInv
<1>1. h \in moving /\ h \in Nodes /\ h \notin Genesis
  BY OneMover DEF ConfigInv
<1>2. ma_writer_list[h] = Genesis \cup {h}
  BY <1>1, OneMover DEF VersionInv, ListOf
<1>3. connected[h] \subseteq Genesis
  BY <1>1, <1>2 DEF PeersInv
<1>4. IsFiniteSet(Genesis) /\ Cardinality(Genesis) \in Nat
  BY Ids
<1>5. Cardinality(ma_writer_list[h]) = Cardinality(Genesis) + 1
  BY <1>1, <1>2, <1>4, FS_AddElement
<1>6. /\ IsFiniteSet(connected[h]) /\ Cardinality(connected[h]) \in Nat
      /\ Cardinality(connected[h]) <= Cardinality(Genesis)
      /\ Cardinality(connected[h]) = Cardinality(Genesis) => connected[h] = Genesis
  BY <1>3, <1>4, FS_Subset, FS_CardinalityType
<1>7. Joined(h) => connected[h] = Genesis
  BY <1>4, <1>5, <1>6 DEF Joined, ExpectedPeers
<1>. QED
  BY <1>7

LEMMA ComWaits ==
  ASSUME IInv, IInv', ListenInv, WaitInv, PollInv,
         NEW a \in Nodes, NEW b \in Nodes,
         Dial(a, b) \/ Accept(a, b) \/ ReadClosed(a, b)
  PROVE  WaitInv' /\ PollInv'
<1>. Types /\ ConfigInv /\ VersionInv
  BY DEF IInv
<1>1. UNCHANGED <<moving, pc, winner, chain, ma_writer_list, msgs>>
  BY DEF Dial, Accept, ReadClosed, maVars, roundVars, memberVars
<1>2. WaitInv'
  <2>1. \A l \in Nat : Taken(l)' => Taken(l)
    BY <1>1 DEF Taken, Decided, MsgsOf
  <2>2. \A x \in Genesis : Len(chain[x]) \in Nat
    BY Ids, ChainType
  <2>. QED
    BY <1>1, <2>1, <2>2, WaitStays
\* It calls nobody.
<1>3. ASSUME NEW h \in Joiners, pc[h] = "join", Dial(a, b) PROVE a # h
  <2>1. a \in Core
    BY <1>3, CallersKnown
  <2>. QED
    BY <1>3, <2>1, MembershipAssumption DEF Core
<1>4. CASE Dial(a, b)
  <2>1. a \in peers[b]
    BY <1>4, CallersKnown
  <2>2. /\ connected' = [connected EXCEPT ![a] = @ \cup {b}]
        /\ accepting' = accepting \cup {<<a, b>>}
        /\ in_sync' = [in_sync EXCEPT ![b] = FALSE]
    BY <1>4, <2>1 DEF Dial
  <2>3. ASSUME NEW h \in Joiners, pc'[h] = "join"
        PROVE  /\ pc[h] = "join" /\ chain'[h] = chain[h]
               /\ connected'[h] \subseteq connected[h]
               /\ in_sync'[h] => in_sync[h]
               /\ \A x \in Genesis : in_sync'[h] /\ <<x, h>> \in accepting' =>
                    <<x, h>> \in accepting
    <3>1. a # h /\ h \in Nodes
      BY <1>1, <1>3, <1>4, <2>3, Ids
    <3>2. connected'[h] = connected[h]
      BY <2>2, <3>1 DEF Types
    <3>3. CASE h = b
      BY <1>1, <2>2, <2>3, <3>1, <3>2, <3>3 DEF ListenInv
    <3>4. CASE h # b
      BY <1>1, <2>2, <2>3, <3>1, <3>2, <3>4 DEF ListenInv
    <3>. QED
      BY <3>3, <3>4
  <2>. QED
    BY <1>1, <1>2, <2>3, PollStays
<1>5. CASE ReadClosed(a, b)
  <2>1. /\ UNCHANGED <<accepting, in_sync>>
        /\ \A x \in Nodes : connected'[x] \subseteq connected[x]
    BY <1>5 DEF ReadClosed, Types
  <2>. QED
    BY <1>1, <1>2, <2>1, Ids, PollStays
<1>6. CASE Accept(a, b)
  <2>1. /\ <<a, b>> \in accepting /\ in_sync' = in_sync
        /\ accepting' = accepting \ {<<a, b>>}
        /\ connected' = [connected EXCEPT ![b] = @ \cup {a}] \/ connected' = connected
    BY <1>6 DEF Accept
  <2>2. ASSUME NEW h \in Joiners, pc'[h] = "join", Called(h)'
        PROVE  Called(h)
    <3>1. h \in Nodes /\ h \notin Genesis /\ pc[h] = "join"
      BY <1>1, <2>2, Ids, MembershipAssumption
    <3>2. CASE h # b
      <4>1. connected'[h] = connected[h]
        BY <2>1, <3>1, <3>2 DEF Types
      <4>. QED
        BY <2>1, <2>2, <4>1 DEF Called
    <3>3. CASE h = b
      <4>1. \A x \in Genesis : <<x, h>> \notin accepting'
        <5>. SUFFICES ASSUME NEW x \in Genesis, <<x, h>> \in accepting'
                      PROVE  FALSE
          OBVIOUS
        <5>1. \A p, q \in accepting : p[2] = q[2] => p = q
          BY DEF ListenInv
        <5>2. <<x, h>> \in accepting /\ <<x, h>> # <<a, b>>
          BY <2>1
        <5>3. <<x, h>>[2] = <<a, b>>[2]
          BY <3>3
        <5>. QED
          BY <2>1, <5>1, <5>2, <5>3
      <4>2. Genesis \subseteq connected'[h]
        BY <2>2, <4>1 DEF Called
      <4>3. Genesis \ {a} \subseteq connected[h]
        BY <2>1, <3>1, <3>3, <4>2 DEF Types
      <4>4. CASE Genesis \subseteq connected[h]
        BY <4>4 DEF Called
      <4>5. CASE ~(Genesis \subseteq connected[h])
        <5>1. a \in Genesis
          BY <4>3, <4>5
        <5>. QED
          BY <2>1, <3>3, <4>3, <5>1 DEF Called
      <4>. QED
        BY <4>4, <4>5
    <3>. QED
      BY <3>2, <3>3
  <2>3. ASSUME NEW h \in Joiners, pc'[h] = "join", in_sync'[h], Called(h)',
               NEW m \in Genesis
        PROVE  Len(chain'[m]) <= Len(chain'[h])
    <3>1. pc[h] = "join" /\ in_sync[h] /\ Called(h)
      BY <1>1, <2>1, <2>2, <2>3
    <3>. QED
      BY <1>1, <2>3, <3>1 DEF PollInv
  <2>. QED
    BY <1>2, <2>3 DEF PollInv
<1>. QED
  BY <1>4, <1>5, <1>6

----------------------------------------------------------------------------
(* The node that joins has every block.                                     *)

LEMMA InitJoin ==
  ASSUME HighestMoves, Init
  PROVE  JoinInv
<1>1. /\ moving \in Scenarios
      /\ pc = [n \in Nodes |-> IF n \in Genesis THEN "join" ELSE "off"]
      /\ chain = [n \in Nodes |-> <<>>]
      /\ peers = [n \in Nodes |-> IF n \in Genesis THEN Genesis \ {n} ELSE {}]
      /\ accepting = {}
      /\ in_sync = [n \in Nodes |-> FALSE]
      /\ listening = [n \in Nodes |-> n \in Genesis]
  BY DEF Init
<1>2. ListenInv
  <2>1. listening \in [Nodes -> BOOLEAN] /\ in_sync \in [Nodes -> BOOLEAN]
    <3>1. listening \in [Nodes -> BOOLEAN]
      BY <1>1
    <3>2. in_sync \in [Nodes -> BOOLEAN]
      BY <1>1, Zenon
    <3>. QED
      BY <3>1, <3>2
  <2>2. \A h \in moving, n \in Genesis : n <= h
    BY <1>1 DEF HighestMoves
  <2>3. ASSUME NEW n \in Nodes
        PROVE  /\ listening[n] <=> pc[n] # "off"
               /\ listening[n] => Core \ {n} \subseteq peers[n]
    <3>1. listening[n] <=> n \in Genesis
      BY <1>1, Zenon
    <3>2. pc[n] # "off" <=> n \in Genesis
      BY <1>1
    <3>3. n \in Genesis => peers[n] = Genesis \ {n}
      BY <1>1
    <3>. QED
      BY <3>1, <3>2, <3>3 DEF Core
  <2>. QED
    BY <1>1, <2>1, <2>2, <2>3 DEF ListenInv
<1>3. ASSUME NEW h \in Joiners
      PROVE  pc[h] = "off"
  BY <1>1, Ids, MembershipAssumption
<1>4. WaitInv
  BY <1>3 DEF WaitInv
<1>5. PollInv
  BY <1>3 DEF PollInv
<1>. QED
  BY <1>2, <1>4, <1>5 DEF JoinInv

LEMMA NextJoin ==
  ASSUME IInv, IInv', JoinInv, [Next]_vars
  PROVE  JoinInv'
<1>. Types /\ ListenInv /\ WaitInv /\ PollInv
  BY DEF IInv, JoinInv
<1>1. ListenInv'
  BY NextListens
<1>2. ASSUME UNCHANGED vars \/ Terminated
      PROVE  WaitInv' /\ PollInv'
  <2>1. UNCHANGED <<moving, pc, winner, chain, ma_writer_list, connected,
                    accepting, in_sync, msgs>>
    BY <1>2 DEF Terminated, vars, maVars, roundVars, memberVars, comVars
  <2>2. \A l \in Nat : Taken(l)' => Taken(l)
    BY <2>1 DEF Taken, Decided, MsgsOf
  <2>3. \A x \in Genesis : Len(chain[x]) \in Nat
    BY Ids, ChainType
  <2>4. WaitInv'
    BY <2>1, <2>2, <2>3, WaitStays
  <2>5. PollInv'
    BY <2>1, PollStays
  <2>. QED
    BY <2>4, <2>5
<1>3. ASSUME NEW n \in Nodes,
             StartNode(n) \/ Activate(n) \/ FetchAbandoned(n) \/ Deactivate(n)
      PROVE  WaitInv' /\ PollInv'
  BY <1>3, ActivateWaits
<1>4. ASSUME NEW n \in Nodes, JoinPoll(n)
      PROVE  WaitInv' /\ PollInv'
  BY <1>4, JoinPollWaits
<1>5. ASSUME NEW n \in Nodes,
             JoinDone(n) \/ StartCoordinator(n) \/ StartWriter(n)
             \/ AnswerRequest(n) \/ CollectReply(n)
      PROVE  WaitInv' /\ PollInv'
  BY <1>5, RoundWaits
<1>6. ASSUME NEW n \in Nodes, UpdateVersion(n)
      PROVE  WaitInv' /\ PollInv'
  BY <1>6, UpdateWaits
<1>7. ASSUME NEW n \in Nodes, AnnounceWinner(n)
      PROVE  WaitInv' /\ PollInv'
  BY <1>7, AnnounceWaits
<1>8. ASSUME NEW n \in Nodes, TakeAnnouncement(n) \/ ReceiveBlock(n)
      PROVE  WaitInv' /\ PollInv'
  BY <1>8, BlockWaits
<1>9. ASSUME NEW n \in Nodes, ComStep(n)
      PROVE  WaitInv' /\ PollInv'
  BY <1>9, ComWaits DEF ComStep
<1>10. WaitInv' /\ PollInv'
  BY <1>2, <1>3, <1>4, <1>5, <1>6, <1>7, <1>8, <1>9 DEF Next, EngineStep
<1>. QED
  BY <1>1, <1>10 DEF JoinInv

\* When a single node moves and no writer has a higher id, that node calls no
\* writer, and every writer that calls it is on its list; a writer with the
\* new list decides nothing before it has joined; and once all writers call it, a
\* download of it that ended in sync has brought it every block.
THEOREM JoinInvariant ==
  OneMoves /\ HighestMoves => (Spec => [](IInv /\ JoinInv))
<1>. SUFFICES ASSUME OneMoves, HighestMoves PROVE Spec => [](IInv /\ JoinInv)
  OBVIOUS
<1>1. Init => JoinInv
  BY InitJoin
<1>2. IInv /\ IInv' /\ JoinInv /\ [Next]_vars => JoinInv'
  BY NextJoin
<1>. QED
  BY <1>1, <1>2, MembershipInvariant, PTL DEF Spec

\* No ProtoCom thread dies of a call from a node that its own does not list, as
\* long as a single node moves and no writer has a higher id.
THEOREM EveryoneListensHolds ==
  OneMoves /\ HighestMoves => (Spec => []EveryoneListens)
<1>. SUFFICES ASSUME OneMoves, HighestMoves PROVE Spec => []EveryoneListens
  OBVIOUS
<1>1. JoinInv => EveryoneListens
  BY DEF JoinInv, ListenInv, EveryoneListens
<1>. QED
  BY <1>1, JoinInvariant, PTL

\* What a node that goes to its first round has.
LEMMA JoinedHasAll ==
  ASSUME IInv, JoinInv, [Next]_vars, NEW n \in Joiners,
         pc[n] = "join", pc'[n] = "loop", in_sync[n], NEW m \in Nodes
  PROVE  Len(chain[m]) <= Len(chain[n])
<1>. Types /\ ConfigInv
  BY DEF IInv
<1>0. n \in Nodes /\ n \in moving /\ Len(chain[n]) \in Nat
  BY Ids, ChainType DEF ConfigInv
<1>1. Joined(n)
  <2>1. ~(UNCHANGED vars \/ Terminated)
    BY DEF vars, Terminated
  <2>2. ASSUME NEW x \in Nodes,
               StartNode(x) \/ Activate(x) \/ FetchAbandoned(x) \/ Deactivate(x)
               \/ ComStep(x)
        PROVE  FALSE
    BY <1>0, <2>2 DEF StartNode, Activate, FetchAbandoned, Deactivate, ComStep,
                      Dial, Accept, ReadClosed, Types
  <2>3. ASSUME NEW x \in Nodes,
               JoinPoll(x) \/ UpdateVersion(x) \/ StartCoordinator(x)
               \/ StartWriter(x) \/ AnswerRequest(x)
               \/ CollectReply(x) \/ AnnounceWinner(x)
        PROVE  FALSE
    BY <1>0, <2>3 DEF JoinPoll, UpdateVersion, StartCoordinator, StartWriter,
                      AnswerRequest, CollectReply, AnnounceWinner, Types
  <2>4. ASSUME NEW x \in Nodes, TakeAnnouncement(x) \/ ReceiveBlock(x)
        PROVE  FALSE
    <3>1. x # n
      BY <2>4 DEF TakeAnnouncement, ReceiveBlock
    <3>2. \E v : pc' = [pc EXCEPT ![x] = v]
      BY <2>4 DEF TakeAnnouncement, ReceiveBlock, StoreBlock
    <3>. QED
      BY <1>0, <3>1, <3>2 DEF Types
  <2>5. PICK x \in Nodes : JoinDone(x)
    BY <2>1, <2>2, <2>3, <2>4 DEF Next, EngineStep
  <2>6. x = n
    BY <1>0, <2>5 DEF JoinDone, Types
  <2>. QED
    BY <2>5, <2>6 DEF JoinDone
<1>2. Called(n)
  BY <1>1, AllConnected DEF Called
<1>3. CASE m \in Genesis
  BY <1>2, <1>3 DEF JoinInv, PollInv
<1>4. CASE m \in Joiners /\ m # n
  <2>1. pc[m] = "off"
    BY <1>0, <1>4 DEF ConfigInv
  <2>2. Len(chain[m]) = 0
    BY <1>4, <2>1, Ids DEF IInv, RoundInv, RoundOf
  <2>. QED
    BY <1>0, <2>2
<1>5. CASE m = n
  BY <1>0, <1>5
<1>. QED
  BY <1>3, <1>4, <1>5 DEF Nodes

\* Under the same conditions a node that goes to its first round has every block
\* that anybody has stored, if a call of download_db has ended in sync since the
\* last writer began to call it.
THEOREM JoinedUpToDateHolds ==
  OneMoves /\ HighestMoves => (Spec => JoinedUpToDate)
<1>. SUFFICES ASSUME OneMoves, HighestMoves PROVE Spec => JoinedUpToDate
  OBVIOUS
<1>1. IInv /\ JoinInv /\ [Next]_vars =>
        [\A n \in Joiners :
           pc[n] = "join" /\ pc'[n] = "loop" /\ in_sync[n]
             => \A m \in Nodes : Len(chain[m]) <= Len(chain[n])]_vars
  BY JoinedHasAll
<1>. QED
  BY <1>1, JoinInvariant, PTL DEF Spec, JoinedUpToDate
=============================================================================
