--------------------------- MODULE MembershipInv ---------------------------
(***************************************************************************)
(* The inductive invariants behind ChainsAgree of Membership, for the      *)
(* behaviours in which one node joins or leaves and any number of requests *)
(* to the MA fail, behind SameMembers, for those in which none fails, and  *)
(* behind EveryoneListens and JoinedUpToDate, for those in which no node   *)
(* has a higher id than the one that moves.                                *)
(*                                                                         *)
(* Neither the round number nor the list of writers is the same at all     *)
(* nodes that work on a block: one that could not fetch a version goes on  *)
(* with the old list, and a change of the list repeats a round number.     *)
(* What holds is that a block is decided with every node that stays, the   *)
(* Core, and that nodes of the core with the same round number and length  *)
(* have the same list.                                                     *)
(***************************************************************************)
EXTENDS Membership

\* The nodes of the first configuration that stay.
Core == Genesis \ moving

\* The second configuration, once there is one.
Moved == Core \cup (moving \cap Joiners)

MsgsOf(type) == {m \in msgs : m.type = type}

----------------------------------------------------------------------------
(* What has been decided about the block at height l, the blocks before it  *)
(* being l: the id of its winner.                                           *)

Decided(l, w) ==
  \/ \E n \in Nodes : Len(chain[n]) > l /\ chain[n][l + 1][1] = w
  \/ \E n \in Nodes :
       pc[n] = "await_block" /\ Len(chain[n]) = l /\ winner[n] = w
  \/ \E m \in MsgsOf("announce") : Len(chain[m.to]) = l /\ m.content = w

Awaiting == {"await_announce", "await_block"}

Taken(l) == \E w \in Nodes : Decided(l, w)

\* The coordinator still collects, and n's number is among those it has or
\* will have.
Engaged(n) ==
  LET c == Coordinator(n) IN
  /\ pc[n] = "await_announce" /\ pc[c] = "collect"
  /\ \/ n \in numbers[c]
     \/ \E m \in MsgsOf("reply") : m.from = n /\ m.to = c

\* n has taken part in a decision and waits to be told of it.
Bound(n) == pc[n] \in Awaiting /\ ~Engaged(n)

\* Nothing was decided at n's height or above without n.
UpToDate(n) ==
  \A l \in Nat :
    Taken(l) => l <= Len(chain[n]) /\ (l = Len(chain[n]) => Bound(n))

----------------------------------------------------------------------------
(* Types.                                                                   *)

Phases == {"off", "fetch", "join", "rejoin", "loop", "ready", "collect",
           "await_request", "await_announce", "await_block", "done"}

IsMsg(m) ==
  /\ m.type \in {"request", "reply", "announce", "block"}
  /\ m.round \in Nat /\ m.from \in Nodes /\ m.to \in Nodes
  /\ m = [type |-> m.type, round |-> m.round, from |-> m.from, to |-> m.to,
          content |-> m.content]

Types ==
  /\ pc \in [Nodes -> Phases]
  /\ round \in [Nodes -> Nat]
  /\ chain \in [Nodes -> Seq(Nodes \X Nat)]
  /\ numbers \in [Nodes -> SUBSET Nodes]
  /\ winner \in [Nodes -> Nodes \cup {0}]
  /\ conf \in [Nodes -> 1 .. Latest]
  /\ current_version \in [Nodes -> 0 .. Latest]
  /\ proposed_version \in [Nodes -> 0 .. Latest]
  /\ ma_writer_list \in [Nodes -> SUBSET Nodes]
  /\ peers \in [Nodes -> SUBSET Nodes]
  /\ connected \in [Nodes -> SUBSET Nodes]
  /\ accepting \subseteq Nodes \X Nodes
  /\ \A m \in msgs : IsMsg(m)

----------------------------------------------------------------------------
(* Configurations, versions and lists.                                      *)

\* update_version has something to change.
Due(n) == proposed_version[n] > current_version[n]

ConfigInv ==
  /\ \A a, b \in moving : a = b
  /\ moving \subseteq Nodes
  /\ configs = <<Genesis>> \/ configs = <<Genesis, Moved>>
  /\ \A n \in Genesis : pc[n] \notin {"off", "fetch"}
  /\ \A n \in Joiners :
       /\ pc[n] # "off" => n \in moving
       /\ pc[n] \notin {"off", "fetch"} <=> n \in moving /\ Latest = 2

\* A node of the first configuration never goes back to an older version.
VersionOf(n) ==
  /\ proposed_version[n] # 0 =>
       conf[n] = proposed_version[n] /\ current_version[n] <= proposed_version[n]
  /\ \/ ma_writer_list[n] = Genesis
     \/ ma_writer_list[n] = Moved /\ proposed_version[n] = 2
  /\ pc[n] \in {"rejoin", "ready", "await_request"} => ~Due(n)

ListOf(h) ==
  IF pc[h] \in {"off", "fetch"}
  THEN ma_writer_list[h] = Genesis
  ELSE ma_writer_list[h] = Moved /\ conf[h] = 2

VersionInv ==
  /\ \A n \in Genesis : VersionOf(n)
  /\ \A h \in Joiners : ListOf(h)

\* A joining node is connected to nodes that have it on their lists, so that
\* all have once it has joined.
PeersInv ==
  /\ \A n \in Nodes :
       peers[n] \subseteq ma_writer_list[n] \ {n} /\ connected[n] \subseteq peers[n]
  /\ \A h \in Joiners, n \in Genesis :
       /\ n \in connected[h] \/ <<n, h>> \in accepting => ma_writer_list[n] = Moved
       /\ pc[h] \notin {"off", "fetch", "join"} => ma_writer_list[n] = Moved

----------------------------------------------------------------------------
(* Rounds, and the messages of a round up to its decision.                  *)

Counting == {"loop", "ready", "collect", "await_request", "await_announce",
             "await_block", "done"}

\* A round is numbered by the length of the chain when it follows a change of
\* the list, and by one more when it follows a block.
RoundOf(n) ==
  /\ pc[n] \in Counting =>
       IF chain[n] = <<>> THEN round[n] = 0
                          ELSE round[n] \in {Len(chain[n]), Len(chain[n]) + 1}
  /\ pc[n] = "ready" => round[n] = Len(chain[n])
  /\ pc[n] = "join" /\ n \in Genesis => chain[n] = <<>> /\ ~Due(n)
  /\ pc[n] = "off" => chain[n] = <<>>
  /\ pc[n] = "collect" => Coordinator(n) = n
  /\ pc[n] \in {"await_request", "await_announce"} => Coordinator(n) # n

RoundInv == \A n \in Nodes : RoundOf(n)

RequestInv ==
  \A m \in MsgsOf("request") :
    /\ pc[m.from] = "collect"
    /\ m.round = round[m.from]
    /\ m.content = GetVersion(m.from)
    /\ m.to \in ma_writer_list[m.from] \ {m.from}
    /\ m.to \notin numbers[m.from]
    /\ \A o \in MsgsOf("reply") : ~(o.from = m.to /\ o.to = m.from)

\* What n does next is what c asked it to do.
Follows(n, c) == n \in Core /\ Due(n) => conf[n] = GetVersion(c)

Unannounced(n) == \A m \in MsgsOf("announce") : m.to # n

ReplyInv ==
  \A m \in MsgsOf("reply") :
    /\ pc[m.to] = "collect"
    /\ pc[m.from] = "await_announce" /\ Coordinator(m.from) = m.to
    /\ m.round = round[m.from] /\ m.content = 0
    /\ m.from \in ma_writer_list[m.to] \ {m.to}
    /\ m.from \notin numbers[m.to]
    /\ Unannounced(m.from)
    /\ Follows(m.from, m.to)
    /\ round[m.to] = 0 => m.round = 0
    /\ round[m.to] = m.round => Len(chain[m.from]) = Len(chain[m.to])

NumbersInv ==
  \A c \in Nodes :
    pc[c] = "collect" =>
      /\ Follows(c, c)
      /\ \A n \in numbers[c] :
           /\ n \in ma_writer_list[c] \ {c}
           /\ pc[n] = "await_announce" /\ Coordinator(n) = c
           /\ round[n] = round[c]
           /\ Len(chain[n]) = Len(chain[c])
           /\ Unannounced(n)
           /\ Follows(n, c)

----------------------------------------------------------------------------
(* Announcements and blocks.                                                *)

AnnounceInv ==
  \A m \in MsgsOf("announce") :
    /\ pc[m.to] = "await_announce" /\ Coordinator(m.to) = m.from
    /\ m.round = round[m.to]
    /\ m.content \in Nodes
    /\ ~Engaged(m.to)
    /\ m.content = m.to =>
         \A n \in ma_writer_list[m.to] \ {m.to} :
           /\ pc[n] \in Awaiting /\ ~Engaged(n)
           /\ round[n] = round[m.to]
           /\ Len(chain[n]) = Len(chain[m.to])

BlockInv ==
  \A m \in MsgsOf("block") :
    /\ pc[m.to] \in Awaiting
    /\ m.round = round[m.to]
    /\ m.from # m.to
    /\ m.content = <<m.from, Len(chain[m.to])>>
    /\ Decided(Len(chain[m.to]), m.from)
    /\ Len(chain[m.from]) > Len(chain[m.to])

----------------------------------------------------------------------------
(* Decisions.                                                               *)

ChainInv ==
  \A n \in Nodes : \A i \in 1 .. Len(chain[n]) : chain[n][i][2] = i - 1

Agreement ==
  \A l \in Nat, v, w \in Nodes : Decided(l, v) /\ Decided(l, w) => v = w

\* Nothing is decided without the nodes that stay,
CoreInv == \A n \in Core : UpToDate(n)

\* nor without a node that has joined and taken part in a round,
JoinedInv ==
  \A h \in Joiners :
    /\ pc[h] \in Counting
    /\ \/ round[h] # Len(chain[h])
       \/ pc[h] = "await_block"
       \/ ~Unannounced(h)
    => UpToDate(h)

\* and without one that leaves only when the others do not list it any more.
LeftInv ==
  \A h \in moving \cap Genesis, l \in Nat :
    /\ Taken(l)
    /\ l >= Len(chain[h])
    /\ l = Len(chain[h]) => pc[h] \notin Awaiting
    => \A n \in Core : ma_writer_list[n] = Moved

----------------------------------------------------------------------------
(* The number and the list a node has in the round at its height, and those *)
(* it will have in the next.                                                *)

Changes(n) == pc[n] \in {"loop", "done"} /\ Due(n)

NowRound(n) ==
  IF Changes(n) \/ pc[n] \in {"join", "rejoin"} THEN Len(chain[n]) ELSE round[n]

NowList(n) == IF Changes(n) THEN ListsOf(n) ELSE ma_writer_list[n]

NextRound(n) == Len(chain[n]) + (IF Due(n) THEN 1 ELSE 2)

NextList(n) == IF Due(n) THEN ListsOf(n) ELSE ma_writer_list[n]

SameListInv ==
  \A a, b \in Core :
    /\ Len(chain[a]) = Len(chain[b]) /\ NowRound(a) = NowRound(b)
         => NowList(a) = NowList(b)
    /\ Len(chain[b]) = Len(chain[a]) + 1 /\ NextRound(a) = NowRound(b)
         => NextList(a) = NowList(b)
    /\ /\ Len(chain[a]) = Len(chain[b]) /\ NextRound(a) = NextRound(b)
       /\ Taken(Len(chain[a]))
       => NextList(a) = NextList(b)

----------------------------------------------------------------------------
IInv ==
  /\ Types /\ ConfigInv /\ VersionInv /\ PeersInv
  /\ RoundInv /\ RequestInv /\ ReplyInv /\ NumbersInv
  /\ AnnounceInv /\ BlockInv
  /\ ChainInv /\ Agreement /\ CoreInv /\ JoinedInv /\ LeftInv
  /\ SameListInv

----------------------------------------------------------------------------
(* The lists of writers, while no request to the MA fails: the nodes of the  *)
(* first configuration go through the same lists at the same heights.        *)

\* With every request answered, the lists are those of the current version.
ListsInv ==
  /\ maFailures = 0
  /\ \A n \in Genesis :
       current_version[n] # 0 /\ ma_writer_list[n] = configs[current_version[n]]

\* A list belongs to a height, and it is known when the block before is decided.
HeightInv ==
  \A a, b \in Genesis :
    /\ Len(chain[a]) = Len(chain[b]) => NowList(a) = NowList(b)
    /\ Len(chain[b]) = Len(chain[a]) + 1 => NextList(a) = NowList(b)
    /\ Len(chain[a]) = Len(chain[b]) /\ Taken(Len(chain[a]))
         => NextList(a) = NextList(b)

\* A writer whose number the coordinator has or will have knows the same version.
ToldInv ==
  /\ \A m \in MsgsOf("reply") :
       {m.from, m.to} \subseteq Genesis => NextList(m.from) = NextList(m.to)
  /\ \A c \in Genesis : \A n \in numbers[c] \cap Genesis :
       pc[c] = "collect" => NextList(n) = NextList(c)

\* A writer that leaves knows it before anybody closes its connection, and
\* waits for ever once it has left.
LeaverInv ==
  \A h \in moving \cap Genesis :
    /\ (\E n \in Core : ma_writer_list[n] = Moved) => NextList(h) = Moved
    /\ ma_writer_list[h] = Moved => pc[h] \in {"rejoin", "ready", "await_request"}

EqualInv == ListsInv /\ HeightInv /\ ToldInv /\ LeaverInv

----------------------------------------------------------------------------
(* Connections to the node that moves, when no writer has a higher id, so    *)
(* that it calls nobody.                                                     *)

\* Whoever is called knows the caller.
ListenInv ==
  /\ listening \in [Nodes -> BOOLEAN] /\ in_sync \in [Nodes -> BOOLEAN]
  /\ \A h \in moving, n \in Genesis : n <= h
  /\ \A n \in Nodes :
       /\ listening[n] <=> pc[n] # "off"
       /\ listening[n] => Core \ {n} \subseteq peers[n]
  /\ \A p \in accepting : p[1] \in Core /\ p[1] # p[2] /\ listening[p[2]]
  /\ \A p, q \in accepting : p[2] = q[2] => p = q

\* No block is decided at the height of a writer that waits for h.
WaitInv ==
  \A h \in Joiners, a \in Genesis, l \in Nat :
    pc[h] = "join" /\ ma_writer_list[a] = Moved /\ Taken(l) => l < Len(chain[a])

\* All writers have called h; the last of them may still wait for it.
Called(h) ==
  \/ Genesis \subseteq connected[h]
  \/ \E a \in Genesis :
       <<a, h>> \in accepting /\ Genesis \ {a} \subseteq connected[h]

PollInv ==
  \A h \in Joiners :
    pc[h] = "join" /\ in_sync[h] /\ Called(h) =>
      \A m \in Genesis : Len(chain[m]) <= Len(chain[h])

JoinInv == ListenInv /\ WaitInv /\ PollInv
=============================================================================
