------------------------- MODULE ConnectionsProofs -------------------------
(***************************************************************************)
(* Proofs about Connections, for any nodes and any number of faults.       *)
(***************************************************************************)
EXTENDS Connections, TLAPS, SequenceTheorems

----------------------------------------------------------------------------
(* The invariant.                                                           *)

Live(c) == conns[c] # Free

\* The other node of c.
Other(c, n) == IF n = conns[c].from THEN conns[c].to ELSE conns[c].from

\* n has an open end of c, and not just in its backlog.
Taken(n, c) ==
  n \in conns[c].open /\ (n = conns[c].from \/ conns[c].accepted)

Waits(n) == at[n].step \in {"reply", "ack"}

\* What n has taken is the socket of that peer: the connection is active, or
\* the thread waits for an answer on it, or has ended.
HeldInv ==
  \A c \in Conns, n \in Nodes :
    Taken(n, c) =>
      /\ socket[n][Other(c, n)] = c
      /\ \/ Other(c, n) \in is_active[n]
         \/ Waits(n) /\ at[n].peer = Other(c, n) /\ at[n].conn = c
         \/ ~running[n]

\* Whoever waits does so on an end it has, for a peer that is not active.
WaitInv ==
  \A n \in Nodes :
    Waits(n) =>
      /\ running[n] /\ at[n].conn \in Conns /\ at[n].peer \in Nodes
      /\ Taken(n, at[n].conn) /\ Other(at[n].conn, n) = at[n].peer
      /\ socket[n][at[n].peer] = at[n].conn
      /\ at[n].step = "reply" <=> n = conns[at[n].conn].from
      /\ at[n].peer \notin is_active[n]

ActiveInv ==
  \A n \in Nodes : \A m \in is_active[n] :
    /\ socket[n][m] \in Conns
    /\ Taken(n, socket[n][m]) /\ Other(socket[n][m], n) = m

UpInv ==
  \A n \in Nodes :
    /\ running[n] => up[n]
    /\ ~up[n] => /\ is_active[n] = {} /\ at[n].step = "select"
                 /\ \A c \in Conns : n \notin conns[c].open

\* Before it is accepted a connection carries its request.
PendingInv ==
  \A c \in Conns :
    ~conns[c].accepted =>
      /\ conns[c].inbox[conns[c].from] = <<>>
      /\ conns[c].inbox[conns[c].to] \in {<<>>, <<Request>>}
      /\ conns[c].from \in conns[c].open => conns[c].to \notin is_active[conns[c].from]

\* The dialler has, or is about to read, a reply; the acceptor an ack.
Answered(c) ==
  LET n == conns[c].from IN
  n \in conns[c].open /\ (conns[c].inbox[n] # <<>> \/ conns[c].to \in is_active[n])

Acked(c) ==
  LET n == conns[c].to IN
  /\ n \in conns[c].open /\ conns[c].accepted
  /\ conns[c].inbox[n] # <<>> \/ conns[c].from \in is_active[n]

\* No dialler goes by the reply on one connection while the acceptor goes by
\* the ack on another.
CrossInv ==
  \A c, d \in Conns :
    /\ Live(c) /\ Live(d) /\ conns[c].from = conns[d].from /\ conns[c].to = conns[d].to
    /\ Answered(c) /\ Acked(d)
    => c = d

EndsInv ==
  TypeOK /\ HeldInv /\ WaitInv /\ ActiveInv /\ UpInv /\ PendingInv /\ CrossInv

\* All n has received.
Got(n) == received[n] \o msg_queue[n]

IsData(q, i) == i \in 1 .. Len(q) /\ q[i].type = "DATA"

\* What n has not read of q is from m, newer than what it got, and in order.
Newer(n, m, q) ==
  /\ \A i \in 1 .. Len(q) : IsData(q, i) =>
       /\ q[i].from = m /\ q[i].no \in 1 .. sent[m][n]
       /\ \A k \in 1 .. Len(Got(n)) : Got(n)[k].from = m => Got(n)[k].no < q[i].no
  /\ \A i, j \in 1 .. Len(q) :
       IsData(q, i) /\ IsData(q, j) /\ i < j => q[i].no < q[j].no

UnreadInv ==
  \A c \in Conns : \A n \in conns[c].open : Newer(n, Other(c, n), conns[c].inbox[n])

GotInv ==
  \A n \in Nodes : \A i, j \in 1 .. Len(Got(n)) :
    /\ Got(n)[i].no \in 1 .. sent[Got(n)[i].from][n]
    /\ i < j /\ Got(n)[i].from = Got(n)[j].from => Got(n)[i].no < Got(n)[j].no

OrderInv == UnreadInv /\ GotInv

----------------------------------------------------------------------------
(* Connections.                                                             *)

\* A connection does not become another one.
Same(k, l) == l.from = k.from /\ l.to = k.to

LEMMA FreeIs == Free.open = {} /\ Free.accepted = TRUE
BY DEF Free

LEMMA WholeOrFree ==
  ASSUME NEW k, k = Free \/ IsConnection(k), NEW n, n \in k.open
  PROVE  IsConnection(k) /\ n \in {k.from, k.to} /\ n \in Nodes
BY FreeIs DEF IsConnection

LEMMA NotFree ==
  ASSUME NEW k, IsConnection(k) PROVE k # Free
BY FreeIs DEF IsConnection

LEMMA ClosedIs ==
  ASSUME NEW k, IsConnection(k), NEW n \in k.open, NEW l, l = Closed(k, n)
  PROVE  \/ l = Free /\ k.open = {n}
         \/ /\ IsConnection(l) /\ Same(k, l) /\ l.open = k.open \ {n}
            /\ l.accepted = (k.accepted \/ n = k.to)
            /\ l.inbox[n] = <<>>
            /\ \A x \in {k.from, k.to} \ {n} : l.inbox[x] = k.inbox[x]
<1>. DEFINE box == [k.inbox EXCEPT ![n] = <<>>]
<1>1. CASE k.open = {n}
  BY <1>1 DEF Closed
<1>2. CASE k.open # {n}
  <2>1. n \in {k.from, k.to} /\ k.inbox \in [{k.from, k.to} -> Seq(Messages)]
    BY DEF IsConnection
  <2>2. <<>> \in Seq(Messages)
    OBVIOUS
  <2>3. /\ box \in [{k.from, k.to} -> Seq(Messages)] /\ box[n] = <<>>
        /\ \A x \in {k.from, k.to} \ {n} : box[x] = k.inbox[x]
    BY <2>1, <2>2
  <2>. HIDE DEF box
  <2>. DEFINE acc == k.accepted \/ n = k.to
  <2>a. acc \in BOOLEAN
    OBVIOUS
  <2>. HIDE DEF acc
  <2>4. l = [k EXCEPT !.open = @ \ {n}, !.inbox = box, !.accepted = acc]
    BY <1>2 DEF Closed, box, acc
  <2>6. /\ l.from = k.from /\ l.to = k.to /\ l.open = k.open \ {n} /\ l.inbox = box
        /\ l.accepted = acc /\ l.cut = k.cut
    BY <2>4 DEF IsConnection
  <2>7. l \in [from : Nodes, to : Nodes, open : SUBSET Nodes,
                accepted : BOOLEAN, cut : BOOLEAN,
                inbox : [{k.from, k.to} -> Seq(Messages)]]
    BY <2>3, <2>4, <2>a DEF IsConnection
  <2>8. /\ l.from < l.to /\ l.open # {} /\ l.open \subseteq {l.from, l.to}
        /\ l.inbox \in [{l.from, l.to} -> Seq(Messages)]
    BY <2>3, <2>6, <1>2 DEF IsConnection
  <2>9. IsConnection(l)
    BY <2>7, <2>8 DEF IsConnection
  <2>. QED
    BY <2>3, <2>6, <2>9 DEF Same, acc
<1>. QED
  BY <1>1, <1>2

WithInbox(k, box) == [k EXCEPT !.inbox = box]

\* Only what is not read yet changes.
LEMMA InboxChanged ==
  ASSUME NEW k, IsConnection(k), NEW box \in [{k.from, k.to} -> Seq(Messages)]
  PROVE  /\ IsConnection(WithInbox(k, box)) /\ Same(k, WithInbox(k, box))
         /\ WithInbox(k, box).open = k.open
         /\ WithInbox(k, box).accepted = k.accepted /\ WithInbox(k, box).inbox = box
<1>. DEFINE l == WithInbox(k, box)
<1>2. l \in [from : Nodes, to : Nodes, open : SUBSET Nodes,
             accepted : BOOLEAN, cut : BOOLEAN,
             inbox : [{k.from, k.to} -> Seq(Messages)]]
  BY DEF IsConnection, WithInbox
<1>3. /\ l.from = k.from /\ l.to = k.to /\ l.open = k.open /\ l.inbox = box
      /\ l.accepted = k.accepted
  BY DEF IsConnection, WithInbox
<1>5. l.from < l.to /\ l.open # {} /\ l.open \subseteq {l.from, l.to}
  BY <1>3 DEF IsConnection, WithInbox
<1>. QED
  BY <1>2, <1>3, <1>5 DEF IsConnection, WithInbox, Same

Longer(q, msg) == Append(q, msg)

LEMMA PushedIs ==
  ASSUME NEW k, IsConnection(k), NEW n \in k.open, NEW msg \in Messages,
         NEW l, l = Pushed(k, n, msg)
  PROVE  /\ IsConnection(l) /\ Same(k, l) /\ l.open = k.open /\ l.accepted = k.accepted
         /\ l.inbox[n] = k.inbox[n]
         /\ \A x \in {k.from, k.to} \ {n} :
              l.inbox[x] \in {k.inbox[x], Longer(k.inbox[x], msg)}
<1>. DEFINE rest == [x \in DOMAIN k.inbox |->
                      IF x = n THEN k.inbox[x] ELSE Append(k.inbox[x], msg)]
<1>1. n \in {k.from, k.to} /\ k.inbox \in [{k.from, k.to} -> Seq(Messages)]
  BY DEF IsConnection
<1>2. rest \in [{k.from, k.to} -> Seq(Messages)]
  BY <1>1
<1>3. /\ rest[n] = k.inbox[n]
      /\ \A x \in {k.from, k.to} \ {n} : rest[x] = Longer(k.inbox[x], msg)
  BY <1>1 DEF Longer
<1>. HIDE DEF rest
<1>5. /\ IsConnection(WithInbox(k, rest)) /\ Same(k, WithInbox(k, rest))
      /\ WithInbox(k, rest).open = k.open
      /\ WithInbox(k, rest).accepted = k.accepted /\ WithInbox(k, rest).inbox = rest
  BY <1>2, InboxChanged
<1>7. CASE l = k
  BY <1>7 DEF Same
<1>6. CASE l = WithInbox(k, rest)
  BY <1>3, <1>5, <1>6
<1>. QED
  BY <1>6, <1>7 DEF Pushed, WithInbox, rest

LEMMA PoppedIs ==
  ASSUME NEW k, IsConnection(k), NEW n \in k.open, k.inbox[n] # <<>>,
         NEW l, l = Popped(k, n)
  PROVE  /\ IsConnection(l) /\ Same(k, l) /\ l.open = k.open /\ l.accepted = k.accepted
         /\ l.inbox[n] = Tail(k.inbox[n])
         /\ \A x \in {k.from, k.to} \ {n} : l.inbox[x] = k.inbox[x]
<1>. DEFINE rest == [k.inbox EXCEPT ![n] = Tail(@)]
<1>1. n \in {k.from, k.to} /\ k.inbox \in [{k.from, k.to} -> Seq(Messages)]
  BY DEF IsConnection
<1>2. Tail(k.inbox[n]) \in Seq(Messages)
  BY <1>1
<1>3. /\ rest \in [{k.from, k.to} -> Seq(Messages)] /\ rest[n] = Tail(k.inbox[n])
      /\ \A x \in {k.from, k.to} \ {n} : rest[x] = k.inbox[x]
  BY <1>1, <1>2
<1>. HIDE DEF rest
<1>4. l = WithInbox(k, rest)
  BY DEF Popped, WithInbox, rest
<1>5. /\ IsConnection(WithInbox(k, rest)) /\ Same(k, WithInbox(k, rest))
      /\ WithInbox(k, rest).open = k.open
      /\ WithInbox(k, rest).accepted = k.accepted /\ WithInbox(k, rest).inbox = rest
  BY <1>3, InboxChanged
<1>. QED
  BY <1>3, <1>4, <1>5

----------------------------------------------------------------------------
(* What the invariant gives, and that it holds at first.                    *)

LEMMA OpenIs ==
  ASSUME TypeOK, NEW c \in Conns, NEW n \in conns[c].open
  PROVE  /\ IsConnection(conns[c]) /\ n \in Nodes /\ Live(c)
         /\ n \in {conns[c].from, conns[c].to} /\ conns[c].from < conns[c].to
         /\ conns[c].from \in Nodes /\ conns[c].to \in Nodes
         /\ Nodes \subseteq Nat
<1>1. IsConnection(conns[c]) /\ n \in {conns[c].from, conns[c].to} /\ n \in Nodes
  BY WholeOrFree DEF TypeOK
<1>. QED
  BY <1>1, NotFree, ConnectionsAssumption DEF IsConnection, Live

LEMMA EndsGive == ASSUME EndsInv PROVE OneConnectionPerPair
<1>. SUFFICES ASSUME NEW n \in Nodes, NEW m \in is_active[n]
              PROVE  /\ socket[n][m] # None /\ n \in conns[socket[n][m]].open
                     /\ n \in is_active[m] => socket[m][n] = socket[n][m]
  BY DEF OneConnectionPerPair
<1>1. m \in Nodes
  BY DEF EndsInv, TypeOK
<1>2. /\ socket[n][m] \in Conns
      /\ Taken(n, socket[n][m]) /\ Other(socket[n][m], n) = m
  BY DEF EndsInv, ActiveInv
<1>3. socket[n][m] # None /\ n \in conns[socket[n][m]].open
  BY <1>2, ConnectionsAssumption DEF Taken, None
<1>4. ASSUME n \in is_active[m] PROVE socket[m][n] = socket[n][m]
  <2>1. /\ socket[m][n] \in Conns
        /\ Taken(m, socket[m][n]) /\ Other(socket[m][n], m) = n
    BY <1>1, <1>4 DEF EndsInv, ActiveInv
  <2>. DEFINE c == socket[n][m]  d == socket[m][n]
  <2>2. n \in conns[c].open /\ m \in conns[d].open
    BY <1>2, <2>1 DEF Taken
  <2>3. /\ Live(c) /\ Live(d)
        /\ n \in {conns[c].from, conns[c].to} /\ conns[c].from < conns[c].to
        /\ m \in {conns[d].from, conns[d].to} /\ conns[d].from < conns[d].to
        /\ {conns[c].from, conns[c].to, conns[d].from, conns[d].to} \subseteq Nat
    BY <1>2, <2>1, <2>2, OpenIs DEF EndsInv
  <2>. HIDE DEF c, d
  <2>4. CASE n = conns[c].from
    <3>1. conns[c].to = m /\ conns[d].from = n /\ conns[d].to = m
      BY <1>2, <2>1, <2>3, <2>4 DEF Other, c, d
    <3>2. Answered(c) /\ Acked(d)
      BY <1>2, <1>4, <2>1, <2>2, <2>3, <2>4, <3>1 DEF Answered, Acked, Taken, c, d
    <3>. QED
      BY <1>2, <2>1, <2>3, <2>4, <3>1, <3>2 DEF EndsInv, CrossInv, c, d
  <2>5. CASE n = conns[c].to
    <3>1. conns[c].from = m /\ conns[d].to = n /\ conns[d].from = m
      BY <1>2, <2>1, <2>3, <2>5 DEF Other, c, d
    <3>2. Answered(d) /\ Acked(c)
      BY <1>2, <1>4, <2>1, <2>2, <2>3, <2>5, <3>1 DEF Answered, Acked, Taken, c, d
    <3>. QED
      BY <1>2, <2>1, <2>3, <2>5, <3>1, <3>2 DEF EndsInv, CrossInv, c, d
  <2>. QED
    BY <2>3, <2>4, <2>5
<1>. QED
  BY <1>3, <1>4

LEMMA OrderGives == ASSUME TypeOK, OrderInv PROVE ReceivedInOrder
<1>. SUFFICES ASSUME NEW n \in Nodes, NEW i \in DOMAIN Got(n), NEW j \in DOMAIN Got(n)
              PROVE  /\ Got(n)[i].no \in 1 .. sent[Got(n)[i].from][n]
                     /\ i < j /\ Got(n)[i].from = Got(n)[j].from
                          => Got(n)[i].no < Got(n)[j].no
  BY DEF ReceivedInOrder, Got
<1>1. Got(n) \in Seq(Entries)
  BY DEF TypeOK, Got
<1>2. DOMAIN Got(n) = 1 .. Len(Got(n))
  BY <1>1
<1>. QED
  BY <1>2 DEF OrderInv, GotInv

LEMMA InitEnds == ASSUME Init PROVE EndsInv
<1>1. \A c \in Conns : conns[c] = Free /\ conns[c].open = {} /\ conns[c].accepted
  BY FreeIs DEF Init
<1>2. at = [n \in Nodes |-> [step |-> "select", peer |-> Nobody, conn |-> None]]
  BY DEF Init, Idle, At
<1>3. TypeOK
  <2>1. /\ up \in [Nodes -> BOOLEAN] /\ running \in [Nodes -> BOOLEAN]
        /\ {todo, peers, is_active} \subseteq [Nodes -> SUBSET Nodes]
        /\ socket \in [Nodes -> [Nodes -> Conns \cup {None}]]
        /\ DOMAIN conns = Conns
        /\ sent \in [Nodes -> [Nodes -> Nat]]
    BY DEF Init
  <2>2. at \in [Nodes -> [step : Steps, peer : Nodes \cup {Nobody}, conn : Conns \cup {None}]]
    BY <1>2 DEF Steps
  <2>3. msg_queue \in [Nodes -> Seq(Entries)] /\ received \in [Nodes -> Seq(Entries)]
    BY DEF Init
  <2>. QED
    BY <1>1, <2>1, <2>2, <2>3 DEF TypeOK
<1>4. HeldInv /\ PendingInv
  BY <1>1 DEF HeldInv, PendingInv, Taken
<1>5. WaitInv
  BY <1>2 DEF WaitInv, Waits
<1>6. ActiveInv /\ UpInv
  BY DEF Init, ActiveInv, UpInv
<1>7. CrossInv
  BY <1>1 DEF CrossInv, Live
<1>. QED
  BY <1>3, <1>4, <1>5, <1>6, <1>7 DEF EndsInv

LEMMA InitOrder == ASSUME Init PROVE OrderInv
<1>1. \A c \in Conns : conns[c].open = {}
  BY FreeIs DEF Init
<1>2. \A n \in Nodes : Got(n) = <<>>
  BY DEF Init, Got
<1>. QED
  BY <1>1, <1>2 DEF OrderInv, UnreadInv, GotInv

----------------------------------------------------------------------------
(* Steps that open, close and activate nothing.                             *)

\* Nobody begins to wait or stops doing so.
QuietThreads ==
  \A n \in Nodes :
    /\ running'[n] => running[n]
    /\ Waits(n) => at'[n] = at[n] /\ running'[n] = running[n]
    /\ Waits(n)' => Waits(n)
    /\ ~up[n] => at'[n].step = "select"

\* Only what is not read yet changes, and there is only more of it from a node
\* to which the connection is active.
QuietConns ==
  \A c \in Conns :
    \/ conns'[c] = conns[c]
    \/ /\ IsConnection(conns[c]) /\ IsConnection(conns'[c])
       /\ Same(conns[c], conns'[c]) /\ conns'[c].open = conns[c].open
       /\ conns'[c].accepted = conns[c].accepted
       /\ \A x \in {conns[c].from, conns[c].to} :
            /\ conns'[c].inbox[x] # <<>> =>
                 \/ conns[c].inbox[x] # <<>>
                 \/ Other(c, x) \in conns[c].open /\ x \in is_active[Other(c, x)]
            /\ ~conns[c].accepted => conns'[c].inbox[x] \in {conns[c].inbox[x], <<>>}

\* Such a step leaves the ends as they are.
LEMMA QuietStep ==
  ASSUME EndsInv, TypeOK', QuietThreads, QuietConns, UNCHANGED <<up, socket, is_active>>
  PROVE  EndsInv'
<1>1. \A c \in Conns :
        /\ conns'[c].open = conns[c].open /\ conns'[c].accepted = conns[c].accepted
        /\ Live(c)' <=> Live(c)
        /\ Live(c) => IsConnection(conns[c]) /\ IsConnection(conns'[c])
                      /\ conns'[c].from = conns[c].from /\ conns'[c].to = conns[c].to
  BY NotFree DEF QuietConns, Live, EndsInv, TypeOK, Same
<1>2. \A c \in Conns : \A n \in conns[c].open : Other(c, n)' = Other(c, n)
  BY <1>1, OpenIs DEF Other, EndsInv
<1>3. \A c \in Conns : \A n \in Nodes : Taken(n, c)' <=> Taken(n, c)
  <2>. SUFFICES ASSUME NEW c \in Conns, NEW n \in Nodes PROVE Taken(n, c)' <=> Taken(n, c)
    OBVIOUS
  <2>1. CASE n \in conns[c].open
    BY <1>1, <2>1, OpenIs DEF Taken, EndsInv
  <2>2. CASE n \notin conns[c].open
    BY <1>1, <2>2 DEF Taken
  <2>. QED
    BY <2>1, <2>2
<1>4. HeldInv'
  <2>. SUFFICES ASSUME NEW c \in Conns, NEW n \in Nodes, Taken(n, c)'
                PROVE  /\ socket'[n][Other(c, n)'] = c
                       /\ \/ Other(c, n)' \in is_active'[n]
                          \/ /\ Waits(n)' /\ at'[n].peer = Other(c, n)'
                             /\ at'[n].conn = c
                          \/ ~running'[n]
    BY DEF HeldInv
  <2>1. Taken(n, c) /\ Other(c, n)' = Other(c, n)
    BY <1>2, <1>3 DEF Taken
  <2>2. /\ socket[n][Other(c, n)] = c
        /\ \/ Other(c, n) \in is_active[n]
           \/ Waits(n) /\ at[n].peer = Other(c, n) /\ at[n].conn = c
           \/ ~running[n]
    BY <2>1 DEF EndsInv, HeldInv
  <2>3. Waits(n) => Waits(n)' /\ at'[n] = at[n]
    BY DEF QuietThreads, Waits
  <2>. QED
    BY <2>1, <2>2, <2>3 DEF QuietThreads
<1>5. WaitInv'
  <2>1. ASSUME NEW n \in Nodes, Waits(n)'
        PROVE  /\ running'[n] /\ at'[n].conn \in Conns /\ at'[n].peer \in Nodes
               /\ n \in conns'[at'[n].conn].open
               /\ n = conns'[at'[n].conn].from \/ conns'[at'[n].conn].accepted
               /\ at'[n].peer = IF n = conns'[at'[n].conn].from
                                THEN conns'[at'[n].conn].to ELSE conns'[at'[n].conn].from
               /\ socket'[n][at'[n].peer] = at'[n].conn
               /\ at'[n].step = "reply" <=> n = conns'[at'[n].conn].from
               /\ at'[n].peer \notin is_active'[n]
    <3>1. Waits(n) /\ at'[n] = at[n] /\ running'[n] = running[n]
      BY <2>1 DEF QuietThreads
    <3>2. PICK c \in Conns : c = at[n].conn
      BY <3>1 DEF EndsInv, WaitInv
    <3>3. /\ running[n] /\ at[n].peer \in Nodes
          /\ Taken(n, c) /\ Other(c, n) = at[n].peer
          /\ socket[n][at[n].peer] = c
          /\ at[n].step = "reply" <=> n = conns[c].from
          /\ at[n].peer \notin is_active[n]
      BY <3>1, <3>2 DEF EndsInv, WaitInv
    <3>4. conns'[c].from = conns[c].from /\ conns'[c].to = conns[c].to
      BY <1>1, <3>3, OpenIs DEF Taken, EndsInv
    <3>. QED
      BY <1>1, <3>1, <3>2, <3>3, <3>4 DEF Taken, Other
  <2>. QED
    BY <2>1 DEF WaitInv, Taken, Other
<1>6. ActiveInv'
  <2>. SUFFICES ASSUME NEW n \in Nodes, NEW m \in is_active[n]
                PROVE  /\ socket[n][m] \in Conns
                       /\ Taken(n, socket[n][m])' /\ Other(socket[n][m], n)' = m
    BY DEF ActiveInv
  <2>. QED
    BY <1>2, <1>3 DEF EndsInv, ActiveInv, Taken
<1>7. UpInv'
  BY <1>1 DEF EndsInv, UpInv, QuietThreads
<1>8. PendingInv'
  <2>. SUFFICES ASSUME NEW c \in Conns, ~conns[c].accepted
                PROVE  /\ conns'[c].inbox[conns'[c].from] = <<>>
                       /\ conns'[c].inbox[conns'[c].to] \in {<<>>, <<Request>>}
                       /\ conns'[c].from \in conns'[c].open =>
                            conns'[c].to \notin is_active'[conns'[c].from]
    BY <1>1 DEF PendingInv
  <2>1. /\ conns[c].inbox[conns[c].from] = <<>>
        /\ conns[c].inbox[conns[c].to] \in {<<>>, <<Request>>}
        /\ conns[c].from \in conns[c].open => conns[c].to \notin is_active[conns[c].from]
    BY DEF EndsInv, PendingInv
  <2>2. Live(c)
    BY FreeIs DEF Live
  <2>. QED
    BY <1>1, <2>1, <2>2 DEF QuietConns
<1>9. CrossInv'
  <2>. SUFFICES ASSUME NEW c \in Conns, NEW d \in Conns, Live(c)', Live(d)',
                       conns'[c].from = conns'[d].from, conns'[c].to = conns'[d].to,
                       Answered(c)', Acked(d)'
                PROVE  c = d
    BY DEF CrossInv
  <2>. DEFINE n == conns[c].from  m == conns[c].to
  <2>1. /\ Live(c) /\ Live(d) /\ conns[d].from = n /\ conns[d].to = m
        /\ conns'[c].from = n /\ conns'[c].to = m /\ conns'[d].from = n /\ conns'[d].to = m
        /\ n \in Nodes /\ m \in Nodes /\ n # m
    <3>1. /\ Live(c) /\ Live(d) /\ IsConnection(conns[c])
          /\ conns'[c].from = n /\ conns'[c].to = m
          /\ conns[d].from = conns'[d].from /\ conns[d].to = conns'[d].to
      BY <1>1
    <3>2. n \in Nodes /\ m \in Nodes /\ n < m
      BY <3>1 DEF IsConnection
    <3>a. n \in Nat /\ m \in Nat
      BY <3>2, ConnectionsAssumption
    <3>. HIDE DEF n, m
    <3>3. n # m
      BY <3>2, <3>a
    <3>. QED
      BY <3>1, <3>2, <3>3
  <2>2. /\ n \in conns[c].open
        /\ conns'[c].inbox[n] # <<>> \/ m \in is_active[n]
    BY <1>1, <2>1 DEF Answered
  <2>3. /\ m \in conns[d].open /\ conns[d].accepted
        /\ conns'[d].inbox[m] # <<>> \/ n \in is_active[m]
    BY <1>1, <2>1 DEF Acked
  <2>4. Taken(n, c) /\ socket[n][m] = c
    BY <2>1, <2>2 DEF Taken, EndsInv, HeldInv, Other
  <2>5. Taken(m, d) /\ socket[m][n] = d
    BY <2>1, <2>3 DEF Taken, EndsInv, HeldInv, Other
  <2>6. CASE ~Answered(c)
    <3>1. conns'[c].inbox[n] # <<>> /\ conns[c].inbox[n] = <<>>
      BY <2>1, <2>2, <2>6 DEF Answered
    <3>2. m \in conns[c].open /\ n \in is_active[m] /\ conns[c].accepted
      BY <2>1, <3>1 DEF QuietConns, Other
    <3>3. Taken(m, c)
      BY <3>2 DEF Taken
    <3>. QED
      BY <2>1, <2>5, <3>3 DEF EndsInv, HeldInv, Other
  <2>7. CASE ~Acked(d)
    <3>1. conns'[d].inbox[m] # <<>> /\ conns[d].inbox[m] = <<>>
      BY <2>1, <2>3, <2>7 DEF Acked
    <3>2. n \in conns[d].open
      BY <2>1, <3>1 DEF QuietConns, Other
    <3>3. Taken(n, d)
      BY <2>1, <3>2 DEF Taken
    <3>. QED
      BY <2>1, <2>4, <3>3 DEF EndsInv, HeldInv, Other
  <2>. QED
    BY <2>1, <2>6, <2>7 DEF EndsInv, CrossInv
<1>. QED
  BY <1>4, <1>5, <1>6, <1>7, <1>8, <1>9 DEF EndsInv

----------------------------------------------------------------------------
(* Steps in which a node closes its ends.                                   *)

\* n closes its ends of S and waits for nobody; nothing else changes but that
\* it may end and forget the peers of these ends.
Shuts(n, S) ==
  /\ \A x \in Nodes \ {n} :
       /\ at'[x] = at[x] /\ running'[x] = running[x] /\ up'[x] = up[x]
       /\ socket'[x] = socket[x] /\ is_active'[x] = is_active[x]
  /\ running'[n] => running[n]
  /\ up'[n] => up[n]
  /\ ~up'[n] => /\ ~running'[n] /\ is_active'[n] = {} /\ at'[n].step = "select"
                /\ \A c \in Conns \ S : n \notin conns[c].open
  /\ ~Waits(n)'
  /\ \A c \in Conns :
       IF c \in S THEN n \in conns[c].open /\ conns'[c] = Closed(conns[c], n)
                  ELSE conns'[c] = conns[c]
  /\ \A c \in Conns \ S :
       Taken(n, c) => /\ socket'[n][Other(c, n)] = socket[n][Other(c, n)]
                      /\ Other(c, n) \in is_active[n] => Other(c, n) \in is_active'[n]
                      /\ Waits(n) => at[n].conn # c
  /\ \A m \in is_active'[n] :
       m \in is_active[n] /\ socket'[n][m] = socket[n][m] /\ socket[n][m] \notin S

LEMMA ShutStep ==
  ASSUME EndsInv, TypeOK', NEW n \in Nodes, NEW S \in SUBSET Conns, Shuts(n, S)
  PROVE  EndsInv'
<1>1. \A c \in Conns \ S : conns'[c] = conns[c]
  BY DEF Shuts
<1>2. ASSUME NEW c \in S
      PROVE  /\ n \notin conns'[c].open /\ conns'[c].open \subseteq conns[c].open
             /\ Live(c)' => /\ IsConnection(conns[c]) /\ n \in {conns[c].from, conns[c].to}
                            /\ conns'[c].from = conns[c].from /\ conns'[c].to = conns[c].to
                            /\ conns'[c].open = conns[c].open \ {n}
                            /\ conns'[c].accepted = (conns[c].accepted \/ n = conns[c].to)
                            /\ conns'[c].inbox[n] = <<>>
                            /\ \A x \in {conns[c].from, conns[c].to} \ {n} :
                                 conns'[c].inbox[x] = conns[c].inbox[x]
             /\ ~Live(c)' => conns'[c].open = {} /\ conns[c].open = {n} /\ conns'[c].accepted
  <2>1. n \in conns[c].open /\ conns'[c] = Closed(conns[c], n) /\ c \in Conns
    BY DEF Shuts
  <2>2. IsConnection(conns[c]) /\ n \in {conns[c].from, conns[c].to}
    BY <2>1, OpenIs DEF EndsInv
  <2>3. PICK l : l = conns'[c]
    OBVIOUS
  <2>4. \/ l = Free /\ conns[c].open = {n}
        \/ /\ IsConnection(l) /\ Same(conns[c], l) /\ l.open = conns[c].open \ {n}
           /\ l.accepted = (conns[c].accepted \/ n = conns[c].to)
           /\ l.inbox[n] = <<>>
           /\ \A x \in {conns[c].from, conns[c].to} \ {n} : l.inbox[x] = conns[c].inbox[x]
    BY <2>1, <2>2, <2>3, ClosedIs
  <2>5. CASE l = Free
    BY <2>1, <2>2, <2>3, <2>4, <2>5, FreeIs, NotFree DEF Live
  <2>6. CASE l # Free
    BY <2>2, <2>3, <2>4, <2>6, FreeIs DEF Live, Same
  <2>. QED
    BY <2>5, <2>6
<1>3. ASSUME NEW c \in Conns, NEW x \in conns'[c].open
      PROVE  /\ x \in conns[c].open /\ x \in Nodes
             /\ conns'[c].from = conns[c].from /\ conns'[c].to = conns[c].to
             /\ Other(c, x)' = Other(c, x) /\ (Taken(x, c)' <=> Taken(x, c))
             /\ x = n => c \notin S
  <2>1. x \in conns[c].open /\ (x = n => c \notin S)
    BY <1>1, <1>2
  <2>2. /\ x \in Nodes /\ x \in {conns[c].from, conns[c].to}
        /\ conns[c].from < conns[c].to /\ conns[c].from \in Nat /\ conns[c].to \in Nat
    BY <2>1, OpenIs DEF EndsInv
  <2>3. CASE c \notin S
    BY <1>1, <2>1, <2>2, <2>3 DEF Other, Taken
  <2>4. CASE c \in S
    BY <1>2, <2>1, <2>2, <2>4 DEF Other, Taken
  <2>. QED
    BY <2>1, <2>2, <2>3, <2>4
<1>4. ASSUME NEW x \in Nodes, x # n
      PROVE  /\ at'[x] = at[x] /\ running'[x] = running[x] /\ up'[x] = up[x]
             /\ socket'[x] = socket[x] /\ is_active'[x] = is_active[x]
             /\ \A c \in Conns : x \in conns[c].open => x \in conns'[c].open
  <2>1. ASSUME NEW c \in Conns, x \in conns[c].open PROVE x \in conns'[c].open
    BY <1>1, <1>2, <1>4, <2>1
  <2>. QED
    BY <1>4, <2>1 DEF Shuts
<1>5. HeldInv'
  <2>. SUFFICES ASSUME NEW c \in Conns, NEW x \in Nodes, Taken(x, c)'
                PROVE  /\ socket'[x][Other(c, x)'] = c
                       /\ \/ Other(c, x)' \in is_active'[x]
                          \/ /\ Waits(x)' /\ at'[x].peer = Other(c, x)'
                             /\ at'[x].conn = c
                          \/ ~running'[x]
    BY DEF HeldInv
  <2>1. Taken(x, c) /\ Other(c, x)' = Other(c, x) /\ (x = n => c \notin S)
    BY <1>3 DEF Taken
  <2>2. /\ socket[x][Other(c, x)] = c
        /\ \/ Other(c, x) \in is_active[x]
           \/ Waits(x) /\ at[x].peer = Other(c, x) /\ at[x].conn = c
           \/ ~running[x]
    BY <2>1 DEF EndsInv, HeldInv
  <2>3. CASE x = n
    BY <2>1, <2>2, <2>3 DEF Shuts
  <2>4. CASE x # n
    BY <1>4, <2>1, <2>2, <2>4 DEF Waits
  <2>. QED
    BY <2>3, <2>4
<1>6. WaitInv'
  <2>1. ASSUME NEW x \in Nodes, Waits(x)'
        PROVE  /\ running'[x] /\ at'[x].conn \in Conns /\ at'[x].peer \in Nodes
               /\ x \in conns'[at'[x].conn].open
               /\ x = conns'[at'[x].conn].from \/ conns'[at'[x].conn].accepted
               /\ at'[x].peer = IF x = conns'[at'[x].conn].from
                                THEN conns'[at'[x].conn].to ELSE conns'[at'[x].conn].from
               /\ socket'[x][at'[x].peer] = at'[x].conn
               /\ at'[x].step = "reply" <=> x = conns'[at'[x].conn].from
               /\ at'[x].peer \notin is_active'[x]
    <3>1. x # n
      BY <2>1 DEF Shuts
    <3>2. Waits(x) /\ at'[x] = at[x] /\ running'[x] = running[x]
      BY <1>4, <2>1, <3>1 DEF Waits
    <3>3. PICK c \in Conns : c = at[x].conn
      BY <3>2 DEF EndsInv, WaitInv
    <3>4. /\ running[x] /\ at[x].peer \in Nodes
          /\ Taken(x, c) /\ Other(c, x) = at[x].peer
          /\ socket[x][at[x].peer] = c
          /\ at[x].step = "reply" <=> x = conns[c].from
          /\ at[x].peer \notin is_active[x]
      BY <3>2, <3>3 DEF EndsInv, WaitInv
    <3>5. x \in conns'[c].open
      BY <1>4, <3>1, <3>4 DEF Taken
    <3>6. /\ conns'[c].from = conns[c].from /\ conns'[c].to = conns[c].to
          /\ Taken(x, c)' /\ Other(c, x)' = Other(c, x)
      BY <1>3, <3>4, <3>5
    <3>. QED
      BY <1>4, <3>1, <3>2, <3>3, <3>4, <3>5, <3>6 DEF Taken, Other
  <2>. QED
    BY <2>1 DEF WaitInv, Taken, Other
<1>7. ActiveInv'
  <2>1. ASSUME NEW x \in Nodes, NEW m \in is_active'[x]
        PROVE  /\ m \in is_active[x] /\ socket'[x][m] = socket[x][m]
               /\ socket[x][m] \in Conns
               /\ Taken(x, socket[x][m]) /\ Other(socket[x][m], x) = m
               /\ x \in conns'[socket[x][m]].open
    <3>1. m \in is_active[x] /\ socket'[x][m] = socket[x][m]
      BY <1>4 DEF Shuts
    <3>2. /\ socket[x][m] \in Conns
          /\ Taken(x, socket[x][m]) /\ Other(socket[x][m], x) = m
      BY <3>1 DEF EndsInv, ActiveInv
    <3>3. CASE x = n
      BY <1>1, <3>1, <3>2, <3>3 DEF Shuts, Taken
    <3>4. CASE x # n
      BY <1>4, <3>2, <3>4 DEF Taken
    <3>. QED
      BY <3>1, <3>2, <3>3, <3>4
  <2>2. ASSUME NEW x \in Nodes, NEW m \in is_active'[x]
        PROVE  /\ socket'[x][m] \in Conns
               /\ x \in conns'[socket'[x][m]].open
               /\ x = conns'[socket'[x][m]].from \/ conns'[socket'[x][m]].accepted
               /\ m = IF x = conns'[socket'[x][m]].from
                      THEN conns'[socket'[x][m]].to ELSE conns'[socket'[x][m]].from
    <3>1. PICK c \in Conns : c = socket[x][m]
      BY <2>1
    <3>2. Taken(x, c)' /\ Other(c, x)' = m
      BY <1>3, <2>1, <3>1
    <3>. QED
      BY <2>1, <3>1, <3>2 DEF Taken, Other
  <2>. QED
    BY <2>2 DEF ActiveInv, Taken, Other
<1>8. UpInv'
  <2>. SUFFICES ASSUME NEW x \in Nodes
                PROVE  /\ running'[x] => up'[x]
                       /\ ~up'[x] => /\ is_active'[x] = {} /\ at'[x].step = "select"
                                     /\ \A c \in Conns : x \notin conns'[c].open
    BY DEF UpInv
  <2>1. CASE x = n
    BY <1>1, <1>2, <2>1 DEF Shuts, EndsInv, UpInv
  <2>2. CASE x # n
    BY <1>3, <1>4, <2>2 DEF EndsInv, UpInv
  <2>. QED
    BY <2>1, <2>2
<1>9. \A x \in Nodes : is_active'[x] \subseteq is_active[x]
  BY <1>4 DEF Shuts
<1>10. PendingInv'
  <2>. SUFFICES ASSUME NEW c \in Conns, ~conns'[c].accepted
                PROVE  /\ conns'[c].inbox[conns'[c].from] = <<>>
                       /\ conns'[c].inbox[conns'[c].to] \in {<<>>, <<Request>>}
                       /\ conns'[c].from \in conns'[c].open =>
                            conns'[c].to \notin is_active'[conns'[c].from]
    BY DEF PendingInv
  <2>1. CASE c \notin S
    <3>1. conns'[c] = conns[c]
      BY <1>1, <2>1
    <3>2. conns[c].from \in conns[c].open => conns[c].from \in Nodes
      BY OpenIs DEF EndsInv
    <3>. QED
      BY <1>9, <3>1, <3>2 DEF EndsInv, PendingInv
  <2>2. CASE c \in S
    <3>1. /\ n = conns[c].from /\ ~conns[c].accepted
          /\ conns'[c].from = conns[c].from /\ conns'[c].to = conns[c].to
          /\ conns'[c].inbox[n] = <<>>
          /\ conns'[c].inbox[conns[c].to] \in {<<>>, conns[c].inbox[conns[c].to]}
          /\ n \notin conns'[c].open
      BY <1>2, <2>2
    <3>. QED
      BY <3>1 DEF EndsInv, PendingInv
  <2>. QED
    BY <2>1, <2>2
<1>11. CrossInv'
  <2>. SUFFICES ASSUME NEW c \in Conns, NEW d \in Conns, Live(c)', Live(d)',
                       conns'[c].from = conns'[d].from, conns'[c].to = conns'[d].to,
                       Answered(c)', Acked(d)'
                PROVE  c = d
    BY DEF CrossInv
  <2>1. PICK x, y : x = conns'[c].from /\ y = conns'[d].to
    OBVIOUS
  <2>2. /\ x \in conns'[c].open /\ (conns'[c].inbox[x] # <<>> \/ y \in is_active'[x])
        /\ y \in conns'[d].open /\ conns'[d].accepted
        /\ conns'[d].inbox[y] # <<>> \/ x \in is_active'[y]
    BY <2>1 DEF Answered, Acked
  <2>3. /\ x \in conns[c].open /\ x \in Nodes /\ conns[c].from = x /\ conns[c].to = y
        /\ y \in conns[d].open /\ y \in Nodes /\ conns[d].from = x /\ conns[d].to = y
        /\ x = n => c \notin S
        /\ y = n => d \notin S
    BY <1>3, <2>1, <2>2
  <2>4. conns'[c].inbox[x] # <<>> => conns[c].inbox[x] # <<>>
    BY <1>1, <1>2, <2>3
  <2>5. /\ conns'[d].inbox[y] # <<>> => conns[d].inbox[y] # <<>>
        /\ conns[d].accepted
    BY <1>1, <1>2, <2>2, <2>3
  <2>6. Answered(c) /\ Acked(d)
    BY <1>9, <2>2, <2>3, <2>4, <2>5 DEF Answered, Acked
  <2>7. Live(c) /\ Live(d)
    BY <2>3, FreeIs DEF Live
  <2>. QED
    BY <2>3, <2>6, <2>7 DEF EndsInv, CrossInv
<1>. QED
  BY <1>5, <1>6, <1>7, <1>8, <1>10, <1>11 DEF EndsInv

----------------------------------------------------------------------------
(* Steps in which a node gets the answer it waits for.                      *)

\* n reads it from c, writes an ack if it is the dialler, and has the
\* connection active or ends.
Answers(n, c, m) ==
  /\ Waits(n) /\ at[n].conn = c /\ at[n].peer = m /\ conns[c].inbox[n] # <<>>
  /\ \A x \in Nodes \ {n} :
       /\ at'[x] = at[x] /\ running'[x] = running[x] /\ is_active'[x] = is_active[x]
  /\ UNCHANGED <<up, socket>>
  /\ ~Waits(n)'
  /\ \/ is_active'[n] = is_active[n] \cup {m} /\ running'[n] = running[n]
     \/ is_active'[n] = is_active[n] /\ ~running'[n]
  /\ \A d \in Conns \ {c} : conns'[d] = conns[d]
  /\ IsConnection(conns'[c])
  /\ Same(conns[c], conns'[c]) /\ conns'[c].open = conns[c].open
  /\ conns'[c].accepted = conns[c].accepted
  /\ at[n].step = "ack" => conns'[c].inbox[m] = conns[c].inbox[m]

LEMMA AnswerStep ==
  ASSUME EndsInv, TypeOK', NEW n \in Nodes, NEW c \in Conns, NEW m \in Nodes,
         Answers(n, c, m)
  PROVE  EndsInv'
<1>1. /\ running[n] /\ Taken(n, c) /\ Other(c, n) = m /\ socket[n][m] = c
      /\ at[n].step = "reply" <=> n = conns[c].from
      /\ m \notin is_active[n]
  BY DEF Answers, EndsInv, WaitInv
<1>2. /\ n \in conns[c].open /\ IsConnection(conns[c]) /\ n # m
      /\ conns[c].from < conns[c].to
      /\ IF n = conns[c].from THEN m = conns[c].to ELSE n = conns[c].to /\ m = conns[c].from
  BY <1>1, OpenIs DEF Taken, Other, EndsInv
<1>3. conns[c].accepted
  BY <1>1, <1>2 DEF Answers, EndsInv, PendingInv, Taken
<1>4. \A d \in Conns :
        /\ conns'[d].open = conns[d].open /\ conns'[d].accepted = conns[d].accepted
        /\ conns'[d].from = conns[d].from /\ conns'[d].to = conns[d].to
        /\ Live(d)' <=> Live(d)
        /\ \A x : (Taken(x, d)' <=> Taken(x, d)) /\ Other(d, x)' = Other(d, x)
  BY <1>2, NotFree DEF Answers, Same, Live, Taken, Other
<1>5. \A x \in Nodes : is_active[x] \subseteq is_active'[x]
  BY DEF Answers
<1>6. \A x \in Nodes : \A y \in is_active'[x] : y \in is_active[x] \/ (x = n /\ y = m)
  BY DEF Answers
<1>7. HeldInv'
  <2>. SUFFICES ASSUME NEW d \in Conns, NEW x \in Nodes, Taken(x, d)'
                PROVE  /\ socket'[x][Other(d, x)'] = d
                       /\ \/ Other(d, x)' \in is_active'[x]
                          \/ /\ Waits(x)' /\ at'[x].peer = Other(d, x)'
                             /\ at'[x].conn = d
                          \/ ~running'[x]
    BY DEF HeldInv
  <2>1. Taken(x, d) /\ Other(d, x)' = Other(d, x)
    BY <1>4
  <2>2. /\ socket[x][Other(d, x)] = d
        /\ \/ Other(d, x) \in is_active[x]
           \/ Waits(x) /\ at[x].peer = Other(d, x) /\ at[x].conn = d
           \/ ~running[x]
    BY <2>1 DEF EndsInv, HeldInv
  <2>3. CASE x = n
    <3>1. /\ socket' = socket /\ at[n].peer = m
          /\ \/ is_active'[n] = is_active[n] \cup {m}
             \/ is_active'[n] = is_active[n] /\ ~running'[n]
      BY DEF Answers
    <3>. QED
      BY <1>1, <2>1, <2>2, <2>3, <3>1
  <2>4. CASE x # n
    <3>1. /\ at'[x] = at[x] /\ running'[x] = running[x]
          /\ is_active'[x] = is_active[x] /\ socket' = socket
      BY <2>4 DEF Answers
    <3>. QED
      BY <2>1, <2>2, <3>1 DEF Waits
  <2>. QED
    BY <2>3, <2>4
<1>8. WaitInv'
  <2>1. ASSUME NEW x \in Nodes, Waits(x)'
        PROVE  /\ running'[x] /\ at'[x].conn \in Conns /\ at'[x].peer \in Nodes
               /\ x \in conns'[at'[x].conn].open
               /\ x = conns'[at'[x].conn].from \/ conns'[at'[x].conn].accepted
               /\ at'[x].peer = IF x = conns'[at'[x].conn].from
                                THEN conns'[at'[x].conn].to ELSE conns'[at'[x].conn].from
               /\ socket'[x][at'[x].peer] = at'[x].conn
               /\ at'[x].step = "reply" <=> x = conns'[at'[x].conn].from
               /\ at'[x].peer \notin is_active'[x]
    <3>1. x # n
      BY <2>1 DEF Answers
    <3>2. /\ Waits(x) /\ at'[x] = at[x] /\ running'[x] = running[x]
          /\ is_active'[x] = is_active[x] /\ socket'[x] = socket[x]
      BY <2>1, <3>1 DEF Answers, Waits
    <3>3. PICK d \in Conns : d = at[x].conn
      BY <3>2 DEF EndsInv, WaitInv
    <3>4. /\ running[x] /\ at[x].peer \in Nodes
          /\ Taken(x, d) /\ Other(d, x) = at[x].peer
          /\ socket[x][at[x].peer] = d
          /\ at[x].step = "reply" <=> x = conns[d].from
          /\ at[x].peer \notin is_active[x]
      BY <3>2, <3>3 DEF EndsInv, WaitInv
    <3>5. /\ conns'[d].from = conns[d].from /\ conns'[d].to = conns[d].to
          /\ Taken(x, d)' /\ Other(d, x)' = Other(d, x)
      BY <1>4, <3>4
    <3>. QED
      BY <3>2, <3>3, <3>4, <3>5 DEF Taken, Other
  <2>. QED
    BY <2>1 DEF WaitInv, Taken, Other
<1>9. ActiveInv'
  <2>1. ASSUME NEW x \in Nodes, NEW y \in is_active'[x]
        PROVE  /\ socket'[x][y] \in Conns
               /\ x \in conns'[socket'[x][y]].open
               /\ x = conns'[socket'[x][y]].from \/ conns'[socket'[x][y]].accepted
               /\ y = IF x = conns'[socket'[x][y]].from
                      THEN conns'[socket'[x][y]].to ELSE conns'[socket'[x][y]].from
    <3>1. /\ socket[x][y] \in Conns
          /\ Taken(x, socket[x][y]) /\ Other(socket[x][y], x) = y
      BY <1>1, <1>6 DEF EndsInv, ActiveInv
    <3>2. PICK d \in Conns : d = socket[x][y]
      BY <3>1
    <3>3. Taken(x, d)' /\ Other(d, x)' = y
      BY <1>4, <3>1, <3>2
    <3>. QED
      BY <3>1, <3>2, <3>3 DEF Taken, Other, Answers
  <2>. QED
    BY <2>1 DEF ActiveInv, Taken, Other
<1>10. UpInv'
  BY <1>1, <1>4 DEF Answers, EndsInv, UpInv
<1>11. PendingInv'
  <2>. SUFFICES ASSUME NEW d \in Conns, ~conns'[d].accepted
                PROVE  /\ conns'[d].inbox[conns'[d].from] = <<>>
                       /\ conns'[d].inbox[conns'[d].to] \in {<<>>, <<Request>>}
                       /\ conns'[d].from \in conns'[d].open =>
                            conns'[d].to \notin is_active'[conns'[d].from]
    BY DEF PendingInv
  <2>1. d # c /\ conns'[d] = conns[d] /\ ~conns[d].accepted
    BY <1>3, <1>4 DEF Answers
  <2>2. ASSUME conns[d].from \in conns[d].open, conns[d].to \in is_active'[conns[d].from]
        PROVE  FALSE
    <3>1. conns[d].from \in Nodes /\ conns[d].from < conns[d].to
      BY <2>2, OpenIs DEF EndsInv
    <3>2. conns[d].to \notin is_active[conns[d].from]
      BY <2>1, <2>2 DEF EndsInv, PendingInv
    <3>3. conns[d].from = n /\ conns[d].to = m
      BY <1>6, <2>2, <3>1, <3>2
    <3>4. Taken(n, d) /\ Other(d, n) = m
      BY <2>2, <3>3 DEF Taken, Other
    <3>. QED
      BY <1>1, <2>1, <3>4 DEF EndsInv, HeldInv
  <2>. QED
    BY <2>1, <2>2 DEF EndsInv, PendingInv
<1>12. CrossInv'
  <2>. SUFFICES ASSUME NEW d \in Conns, NEW e \in Conns, Live(d)', Live(e)',
                       conns'[d].from = conns'[e].from, conns'[d].to = conns'[e].to,
                       Answered(d)', Acked(e)'
                PROVE  d = e
    BY DEF CrossInv
  <2>1. PICK x, y : x = conns[d].from /\ y = conns[e].to
    OBVIOUS
  <2>2. /\ conns[e].from = x /\ conns[d].to = y /\ Live(d) /\ Live(e)
        /\ x \in conns[d].open /\ (conns'[d].inbox[x] # <<>> \/ y \in is_active'[x])
        /\ y \in conns[e].open /\ conns[e].accepted
        /\ conns'[e].inbox[y] # <<>> \/ x \in is_active'[y]
    BY <1>4, <2>1 DEF Answered, Acked
  <2>3. x \in Nodes /\ y \in Nodes /\ x # y /\ Taken(x, d) /\ Taken(y, e)
        /\ Other(d, x) = y /\ Other(e, y) = x
    <3>1. x \in Nodes /\ y \in Nodes /\ x < y /\ Nodes \subseteq Nat
      BY <2>1, <2>2, OpenIs DEF EndsInv
    <3>2. x # y
      BY <3>1
    <3>. QED
      BY <2>1, <2>2, <3>1, <3>2 DEF Taken, Other
  <2>4. socket[x][y] = d /\ socket[y][x] = e
    BY <2>3 DEF EndsInv, HeldInv
  <2>5. CASE ~Answered(d)
    <3>1. conns[d].inbox[x] = <<>> /\ y \notin is_active[x]
      BY <2>1, <2>2, <2>5 DEF Answered
    <3>2. ~(x = n /\ y = m)
      BY <1>1, <2>4, <3>1 DEF Answers
    <3>3. conns'[d].inbox[x] # <<>>
      BY <1>6, <2>2, <2>3, <3>1, <3>2
    <3>4. d = c /\ x # n /\ x = m /\ y = n
      <4>1. d = c
        BY <3>1, <3>3 DEF Answers
      <4>. QED
        BY <1>2, <2>1, <2>2, <3>2, <4>1
    <3>5. at[n].step = "ack"
      BY <1>1, <1>2, <2>1, <3>4 DEF Answers, Waits
    <3>. QED
      BY <3>1, <3>3, <3>4, <3>5 DEF Answers
  <2>6. CASE ~Acked(e)
    <3>1. conns[e].inbox[y] = <<>> /\ x \notin is_active[y]
      BY <2>1, <2>2, <2>6 DEF Acked
    <3>2. ~(y = n /\ x = m)
      BY <1>1, <2>4, <3>1 DEF Answers
    <3>3. conns'[e].inbox[y] # <<>>
      BY <1>6, <2>2, <2>3, <3>1, <3>2
    <3>4. e = c /\ y = m /\ x = n
      <4>1. e = c
        BY <3>1, <3>3 DEF Answers
      <4>. QED
        BY <1>2, <2>1, <2>2, <3>2, <4>1
    <3>. QED
      BY <1>1, <2>4, <3>4
  <2>. QED
    BY <2>1, <2>2, <2>5, <2>6 DEF EndsInv, CrossInv
<1>. QED
  BY <1>7, <1>8, <1>9, <1>10, <1>11, <1>12 DEF EndsInv

----------------------------------------------------------------------------
(* Steps in which a node begins to wait.                                    *)

\* n takes c from its backlog, or has made it, and now waits for its peer m.
Begins(n, c, m) ==
  /\ running[n] /\ ~Waits(n) /\ m \notin is_active[n]
  /\ \A x \in Nodes \ {n} : at'[x] = at[x] /\ socket'[x] = socket[x]
  /\ UNCHANGED <<up, running, is_active>>
  /\ Waits(n)' /\ at'[n].peer = m /\ at'[n].conn = c
  /\ socket'[n] = [socket[n] EXCEPT ![m] = c]
  /\ \A d \in Conns \ {c} : conns'[d] = conns[d]
  /\ IsConnection(conns'[c]) /\ n \in conns'[c].open
  /\ \/ /\ conns[c] = Free /\ at'[n].step = "reply" /\ up[m]
        /\ conns'[c].from = n /\ conns'[c].to = m /\ ~conns'[c].accepted
        /\ conns'[c].inbox[n] = <<>> /\ conns'[c].inbox[m] = <<Request>>
     \/ /\ IsConnection(conns[c]) /\ at'[n].step = "ack"
        /\ conns'[c].to = n /\ conns'[c].from = m /\ conns'[c].accepted
        /\ Same(conns[c], conns'[c]) /\ conns'[c].open = conns[c].open
        /\ ~conns[c].accepted /\ conns'[c].inbox[n] = <<>>

LEMMA BeginStep ==
  ASSUME EndsInv, TypeOK', NEW n \in Nodes, NEW c \in Conns, NEW m \in Nodes,
         Begins(n, c, m)
  PROVE  EndsInv'
<1>1. n # m
  <2>1. /\ conns'[c].from < conns'[c].to
        /\ {conns'[c].from, conns'[c].to} = {n, m}
    BY DEF Begins, IsConnection
  <2>2. n \in Nat /\ m \in Nat
    BY ConnectionsAssumption
  <2>. QED
    BY <2>1, <2>2
<1>2. ~Taken(n, c) /\ \A d \in Conns : Taken(n, d) => Other(d, n) # m
  <2>1. ASSUME NEW d \in Conns, Taken(n, d), Other(d, n) = m PROVE FALSE
    BY <2>1 DEF EndsInv, HeldInv, Begins
  <2>2. ~Taken(n, c)
    BY <1>1, FreeIs DEF Begins, Taken, Same
  <2>. QED
    BY <2>1, <2>2
<1>3. Taken(n, c)' /\ Other(c, n)' = m
  BY <1>1 DEF Begins, Taken, Other
<1>4. ASSUME NEW d \in Conns, NEW x \in Nodes, ~(x = n /\ d = c)
      PROVE  /\ Taken(x, d)' => Taken(x, d)
             /\ Taken(x, d) => /\ Taken(x, d)' /\ Other(d, x)' = Other(d, x)
                               /\ conns'[d].from = conns[d].from
  <2>1. CASE d # c
    BY <2>1 DEF Begins, Taken, Other
  <2>2. CASE d = c /\ conns[c] = Free
    <3>1. x # n /\ conns[c].open = {}
      BY <1>4, <2>2, FreeIs
    <3>2. conns'[c].from = n /\ ~conns'[c].accepted
      BY <2>2, NotFree DEF Begins
    <3>. QED
      BY <2>2, <3>1, <3>2 DEF Taken
  <2>3. CASE d = c /\ conns[c] # Free
    <3>1. /\ conns'[c].from = conns[c].from /\ conns'[c].to = conns[c].to
          /\ conns'[c].open = conns[c].open /\ x # n
          /\ IsConnection(conns[c]) /\ conns[c].to = n
      BY <1>4, <2>3 DEF Begins, Same
    <3>2. x \in conns[c].open => x = conns[c].from
      BY <3>1 DEF IsConnection
    <3>. QED
      BY <2>3, <3>1, <3>2 DEF Taken, Other
  <2>. QED
    BY <2>1, <2>2, <2>3
<1>5. HeldInv'
  <2>. SUFFICES ASSUME NEW d \in Conns, NEW x \in Nodes, Taken(x, d)'
                PROVE  /\ socket'[x][Other(d, x)'] = d
                       /\ \/ Other(d, x)' \in is_active'[x]
                          \/ /\ Waits(x)' /\ at'[x].peer = Other(d, x)'
                             /\ at'[x].conn = d
                          \/ ~running'[x]
    BY DEF HeldInv
  <2>1. CASE x = n /\ d = c
    BY <1>3, <2>1 DEF Begins, EndsInv, TypeOK
  <2>2. CASE ~(x = n /\ d = c)
    <3>1. Taken(x, d) /\ Other(d, x)' = Other(d, x)
      BY <1>4, <2>2
    <3>2. /\ socket[x][Other(d, x)] = d
          /\ \/ Other(d, x) \in is_active[x]
             \/ Waits(x) /\ at[x].peer = Other(d, x) /\ at[x].conn = d
             \/ ~running[x]
      BY <3>1 DEF EndsInv, HeldInv
    <3>3. CASE x = n
      <4>1. Other(d, n) # m /\ Other(d, n) \in Nodes
        BY <1>2, <3>1, <3>3, OpenIs DEF Taken, Other, EndsInv
      <4>. QED
        BY <3>1, <3>2, <3>3, <4>1 DEF Begins, EndsInv, TypeOK
    <3>4. CASE x # n
      BY <3>1, <3>2, <3>4 DEF Begins, Waits
    <3>. QED
      BY <3>3, <3>4
  <2>. QED
    BY <2>1, <2>2
<1>6. WaitInv'
  <2>1. ASSUME NEW x \in Nodes, Waits(x)'
        PROVE  /\ running'[x] /\ at'[x].conn \in Conns /\ at'[x].peer \in Nodes
               /\ x \in conns'[at'[x].conn].open
               /\ x = conns'[at'[x].conn].from \/ conns'[at'[x].conn].accepted
               /\ at'[x].peer = IF x = conns'[at'[x].conn].from
                                THEN conns'[at'[x].conn].to ELSE conns'[at'[x].conn].from
               /\ socket'[x][at'[x].peer] = at'[x].conn
               /\ at'[x].step = "reply" <=> x = conns'[at'[x].conn].from
               /\ at'[x].peer \notin is_active'[x]
    <3>1. CASE x = n
      <4>1. socket'[n][m] = c
        BY DEF Begins, EndsInv, TypeOK
      <4>2. at'[n].step = "reply" <=> n = conns'[c].from
        BY <1>1 DEF Begins
      <4>. QED
        BY <1>3, <3>1, <4>1, <4>2 DEF Begins, Taken, Other
    <3>2. CASE x # n
      <4>2. /\ Waits(x) /\ at'[x] = at[x] /\ running'[x] = running[x]
            /\ is_active'[x] = is_active[x] /\ socket'[x] = socket[x]
        BY <2>1, <3>2 DEF Begins, Waits
      <4>3. PICK d \in Conns : d = at[x].conn
        BY <4>2 DEF EndsInv, WaitInv
      <4>4. /\ running[x] /\ at[x].peer \in Nodes
            /\ Taken(x, d) /\ Other(d, x) = at[x].peer
            /\ socket[x][at[x].peer] = d
            /\ at[x].step = "reply" <=> x = conns[d].from
            /\ at[x].peer \notin is_active[x]
        BY <4>2, <4>3 DEF EndsInv, WaitInv
      <4>5. /\ conns'[d].from = conns[d].from
            /\ Taken(x, d)' /\ Other(d, x)' = Other(d, x)
        BY <1>4, <3>2, <4>4
      <4>. QED
        BY <4>2, <4>3, <4>4, <4>5 DEF Taken, Other
    <3>. QED
      BY <3>1, <3>2
  <2>. QED
    BY <2>1 DEF WaitInv, Taken, Other
<1>7. ActiveInv'
  <2>1. ASSUME NEW x \in Nodes, NEW y \in is_active'[x]
        PROVE  /\ socket'[x][y] \in Conns
               /\ x \in conns'[socket'[x][y]].open
               /\ x = conns'[socket'[x][y]].from \/ conns'[socket'[x][y]].accepted
               /\ y = IF x = conns'[socket'[x][y]].from
                      THEN conns'[socket'[x][y]].to ELSE conns'[socket'[x][y]].from
    <3>1. /\ y \in is_active[x] /\ socket[x][y] \in Conns
          /\ Taken(x, socket[x][y]) /\ Other(socket[x][y], x) = y
      BY DEF EndsInv, ActiveInv, Begins
    <3>2. PICK d \in Conns : d = socket[x][y]
      BY <3>1
    <3>3. ~(x = n /\ d = c)
      BY <1>2, <3>1, <3>2
    <3>4. Taken(x, d)' /\ Other(d, x)' = y
      BY <1>4, <3>1, <3>2, <3>3
    <3>a. y \in Nodes /\ ~(x = n /\ y = m)
      BY <3>1 DEF Begins, EndsInv, TypeOK
    <3>5. socket'[x][y] = d
      <4>1. CASE x = n
        BY <3>2, <3>a, <4>1 DEF Begins, EndsInv, TypeOK
      <4>2. CASE x # n
        BY <3>2, <4>2 DEF Begins
      <4>. QED
        BY <4>1, <4>2
    <3>. QED
      BY <3>4, <3>5 DEF Taken, Other
  <2>. QED
    BY <2>1 DEF ActiveInv, Taken, Other
<1>8. UpInv'
  <2>1. up[n]
    BY DEF EndsInv, UpInv, Begins
  <2>2. \A x \in Nodes \ {n} : \A d \in Conns : x \in conns'[d].open /\ ~up[x] => x \in conns[d].open
    <3>. SUFFICES ASSUME NEW x \in Nodes \ {n}, NEW d \in Conns, x \in conns'[d].open,
                         x \notin conns[d].open, ~up[x]
                  PROVE  FALSE
      OBVIOUS
    <3>1. d = c /\ conns'[c].open # conns[c].open
      BY DEF Begins
    <3>2. conns[c] = Free /\ up[m] /\ conns'[c].from = n /\ conns'[c].to = m
      BY <3>1, NotFree DEF Begins
    <3>3. conns'[c].open \subseteq {conns'[c].from, conns'[c].to}
      BY DEF Begins, IsConnection
    <3>4. x = m
      BY <3>1, <3>2, <3>3
    <3>. QED
      BY <3>2, <3>4
  <2>. QED
    BY <2>1, <2>2 DEF EndsInv, UpInv, Begins
<1>9. PendingInv'
  <2>. SUFFICES ASSUME NEW d \in Conns, ~conns'[d].accepted
                PROVE  /\ conns'[d].inbox[conns'[d].from] = <<>>
                       /\ conns'[d].inbox[conns'[d].to] \in {<<>>, <<Request>>}
                       /\ conns'[d].from \in conns'[d].open =>
                            conns'[d].to \notin is_active'[conns'[d].from]
    BY DEF PendingInv
  <2>1. CASE d = c
    BY <2>1 DEF Begins
  <2>2. CASE d # c
    BY <2>2 DEF Begins, EndsInv, PendingInv
  <2>. QED
    BY <2>1, <2>2
<1>10. CrossInv'
  <2>. SUFFICES ASSUME NEW d \in Conns, NEW e \in Conns, Live(d)', Live(e)',
                       conns'[d].from = conns'[e].from, conns'[d].to = conns'[e].to,
                       Answered(d)', Acked(e)'
                PROVE  d = e
    BY DEF CrossInv
  <2>1. e # c
    <3>1. CASE conns'[c].accepted
      BY <3>1 DEF Begins, Acked
    <3>2. CASE ~conns'[c].accepted
      BY <3>2 DEF Acked
    <3>. QED
      BY <3>1, <3>2
  <2>2. conns'[e] = conns[e] /\ Acked(e) /\ Live(e)
    BY <2>1 DEF Begins, Acked, Live
  <2>3. CASE d = c
    <3>1. CASE conns'[c].accepted
      <4>1. conns[e].to = n /\ conns[e].from = m
        BY <2>2, <2>3, <3>1 DEF Begins
      <4>2. Taken(n, e) /\ Other(e, n) = m
        BY <1>1, <2>2, <4>1 DEF Acked, Taken, Other
      <4>. QED
        BY <1>2, <4>2
    <3>2. CASE ~conns'[c].accepted
      BY <2>3, <3>2 DEF Begins, Answered
    <3>. QED
      BY <3>1, <3>2
  <2>4. CASE d # c
    <3>1. conns'[d] = conns[d] /\ Answered(d) /\ Live(d)
      BY <2>4 DEF Begins, Answered, Live
    <3>. QED
      BY <2>2, <3>1 DEF EndsInv, CrossInv
  <2>. QED
    BY <2>3, <2>4
<1>. QED
  BY <1>5, <1>6, <1>7, <1>8, <1>9, <1>10 DEF EndsInv

----------------------------------------------------------------------------
(* The order of messages.                                                   *)

\* The data of r are those of q, in their order, perhaps without the first.
Leftover(q, r) ==
  \E d \in {0, 1} : \A i \in 1 .. Len(r) :
    r[i].type = "DATA" => i + d \in 1 .. Len(q) /\ r[i] = q[i + d]

LEMMA LeftoverIs ==
  ASSUME NEW q \in Seq(Messages), NEW r \in Seq(Messages),
         \/ r = q
         \/ q # <<>> /\ r = Tail(q)
         \/ r = <<>>
         \/ \E msg \in Messages : msg.type # "DATA" /\ r = Append(q, msg)
  PROVE  Leftover(q, r)
<1>1. CASE r = q
  <2>1. \A i \in 1 .. Len(r) : i + 0 \in 1 .. Len(q) /\ r[i] = q[i + 0]
    BY <1>1
  <2>. QED
    BY <2>1 DEF Leftover
<1>2. CASE q # <<>> /\ r = Tail(q)
  <2>1. \A i \in 1 .. Len(r) : i + 1 \in 1 .. Len(q) /\ r[i] = q[i + 1]
    BY <1>2
  <2>. QED
    BY <2>1 DEF Leftover
<1>3. CASE r = <<>>
  BY <1>3 DEF Leftover
<1>4. ASSUME NEW msg \in Messages, msg.type # "DATA", r = Append(q, msg) PROVE Leftover(q, r)
  <2>1. \A i \in 1 .. Len(r) : r[i].type = "DATA" => i + 0 \in 1 .. Len(q) /\ r[i] = q[i + 0]
    <3>. SUFFICES ASSUME NEW i \in 1 .. Len(r), r[i].type = "DATA"
                  PROVE  i + 0 \in 1 .. Len(q) /\ r[i] = q[i + 0]
      OBVIOUS
    <3>1. i # Len(q) + 1
      BY <1>4
    <3>. QED
      BY <1>4, <3>1
  <2>. QED
    BY <2>1 DEF Leftover
<1>. QED
  BY <1>1, <1>2, <1>3, <1>4

\* What n has not read of c is left over from before, or is no data.
Older(c, n) ==
  \/ \A i \in 1 .. Len(conns'[c].inbox[n]) : conns'[c].inbox[n][i].type # "DATA"
  \/ /\ n \in conns[c].open
     /\ conns'[c].from = conns[c].from /\ conns'[c].to = conns[c].to
     /\ Leftover(conns[c].inbox[n], conns'[c].inbox[n])

LEMMA InboxIs ==
  ASSUME TypeOK, NEW c \in Conns, NEW n \in conns[c].open
  PROVE  conns[c].inbox[n] \in Seq(Messages)
BY OpenIs DEF IsConnection

\* A step that sends and delivers nothing.
LEMMA OlderStep ==
  ASSUME TypeOK, TypeOK', OrderInv, sent' = sent,
         \A n \in Nodes : \A k \in 1 .. Len(Got(n)') :
           k \in 1 .. Len(Got(n)) /\ Got(n)'[k] = Got(n)[k],
         \A c \in Conns : \A n \in conns'[c].open : Older(c, n)
  PROVE  OrderInv'
<1>1. GotInv'
  <2>1. ASSUME NEW n \in Nodes, NEW i \in 1 .. Len(Got(n)'), NEW j \in 1 .. Len(Got(n)')
        PROVE  /\ Got(n)'[i].no \in 1 .. sent[Got(n)'[i].from][n]
               /\ i < j /\ Got(n)'[i].from = Got(n)'[j].from
                    => Got(n)'[i].no < Got(n)'[j].no
    <3>1. /\ i \in 1 .. Len(Got(n)) /\ Got(n)'[i] = Got(n)[i]
          /\ j \in 1 .. Len(Got(n)) /\ Got(n)'[j] = Got(n)[j]
      OBVIOUS
    <3>. QED
      BY <3>1 DEF OrderInv, GotInv
  <2>. QED
    BY <2>1 DEF GotInv
<1>2. UnreadInv'
  <2>. SUFFICES ASSUME NEW c \in Conns, NEW n \in conns'[c].open
                PROVE  Newer(n, Other(c, n), conns[c].inbox[n])'
    BY DEF UnreadInv
  <2>. DEFINE r == conns'[c].inbox[n]  q == conns[c].inbox[n]
  <2>1. n \in Nodes
    BY WholeOrFree DEF TypeOK
  <2>2. CASE \A i \in 1 .. Len(r) : r[i].type # "DATA"
    BY <2>2 DEF Newer, IsData
  <2>3. CASE Older(c, n) /\ ~\A i \in 1 .. Len(r) : r[i].type # "DATA"
    <3>1. n \in conns[c].open /\ Other(c, n)' = Other(c, n) /\ Leftover(q, r)
      BY <2>3 DEF Older, Other
    <3>2. PICK d \in {0, 1} : \A i \in 1 .. Len(r) :
            r[i].type = "DATA" => i + d \in 1 .. Len(q) /\ r[i] = q[i + d]
      BY <3>1 DEF Leftover
    <3>3. Newer(n, Other(c, n), q)
      BY <3>1 DEF OrderInv, UnreadInv
    <3>. HIDE DEF r, q
    <3>4. ASSUME NEW i \in 1 .. Len(r), IsData(r, i)
          PROVE  /\ r[i].from = Other(c, n) /\ r[i].no \in 1 .. sent[Other(c, n)][n]
                 /\ \A k \in 1 .. Len(Got(n)') :
                      Got(n)'[k].from = Other(c, n) => Got(n)'[k].no < r[i].no
      <4>1. i + d \in 1 .. Len(q) /\ r[i] = q[i + d] /\ IsData(q, i + d)
        BY <3>2, <3>4 DEF IsData
      <4>. QED
        BY <2>1, <3>3, <4>1 DEF Newer
    <3>5. ASSUME NEW i \in 1 .. Len(r), NEW j \in 1 .. Len(r),
                 IsData(r, i), IsData(r, j), i < j
          PROVE  r[i].no < r[j].no
      <4>1. /\ i + d \in 1 .. Len(q) /\ r[i] = q[i + d] /\ IsData(q, i + d)
            /\ j + d \in 1 .. Len(q) /\ r[j] = q[j + d] /\ IsData(q, j + d)
        BY <3>2, <3>5 DEF IsData
      <4>2. i + d < j + d
        BY <3>5
      <4>. QED
        BY <3>3, <4>1, <4>2 DEF Newer
    <3>. QED
      BY <3>1, <3>4, <3>5 DEF Newer, IsData, r
  <2>. QED
    BY <2>2, <2>3
<1>. QED
  BY <1>1, <1>2 DEF OrderInv

\* n takes the data at the head of the connection it has with m.
Delivers(n, m, c) ==
  /\ m \in is_active[n] /\ socket[n][m] = c
  /\ conns[c].inbox[n] # <<>> /\ conns[c].inbox[n][1].type = "DATA"
  /\ sent' = sent
  /\ Got(n)' = Append(Got(n), [from |-> m, no |-> conns[c].inbox[n][1].no])
  /\ \A x \in Nodes \ {n} : Got(x)' = Got(x)
  /\ \A d \in Conns \ {c} : conns'[d] = conns[d]
  /\ Same(conns[c], conns'[c]) /\ conns'[c].open = conns[c].open
  /\ \A x \in conns[c].open \ {n} : conns'[c].inbox[x] = conns[c].inbox[x]
  /\ \E d \in {0, 1} : \A i \in 1 .. Len(conns'[c].inbox[n]) :
       conns'[c].inbox[n][i].type = "DATA" =>
         /\ i + d \in 2 .. Len(conns[c].inbox[n])
         /\ conns'[c].inbox[n][i] = conns[c].inbox[n][i + d]

LEMMA DeliverStep ==
  ASSUME EndsInv, TypeOK', OrderInv, NEW n \in Nodes, NEW m \in Nodes, NEW c \in Conns,
         Delivers(n, m, c)
  PROVE  OrderInv'
<1>. DEFINE q == conns[c].inbox[n]  new == q[1].no
<1>1. n \in conns[c].open /\ Taken(n, c) /\ Other(c, n) = m
  BY DEF Delivers, EndsInv, ActiveInv, Taken
<1>2. q \in Seq(Messages) /\ Len(q) >= 1 /\ IsData(q, 1)
  BY <1>1, InboxIs DEF Delivers, EndsInv, IsData
<1>3. Newer(n, m, q)
  BY <1>1 DEF OrderInv, UnreadInv
<1>4. /\ q[1].from = m /\ new \in 1 .. sent[m][n] /\ new \in Nat
      /\ \A k \in 1 .. Len(Got(n)) : Got(n)[k].from = m => Got(n)[k].no < new
      /\ \A i \in 2 .. Len(q) : IsData(q, i) => new < q[i].no
  <2>. HIDE DEF q
  <2>1. /\ q[1].from = m /\ q[1].no \in 1 .. sent[m][n]
        /\ \A k \in 1 .. Len(Got(n)) : Got(n)[k].from = m => Got(n)[k].no < q[1].no
    BY <1>2, <1>3 DEF Newer, IsData
  <2>2. \A i \in 2 .. Len(q) : IsData(q, i) => q[1].no < q[i].no
    BY <1>2, <1>3 DEF Newer, IsData
  <2>. QED
    BY <2>1, <2>2
<1>5. /\ Got(n) \in Seq(Entries) /\ Len(Got(n)') = Len(Got(n)) + 1
      /\ \A k \in 1 .. Len(Got(n)) : Got(n)'[k] = Got(n)[k]
      /\ Got(n)'[Len(Got(n)) + 1].from = m /\ Got(n)'[Len(Got(n)) + 1].no = new
  <2>1. Got(n) \in Seq(Entries)
    BY DEF EndsInv, TypeOK, Got
  <2>2. Got(n)' = Append(Got(n), [from |-> m, no |-> new])
    BY DEF Delivers
  <2>. HIDE DEF q, new
  <2>. QED
    BY <2>1, <2>2
<1>. HIDE DEF q, new
<1>6. GotInv'
  <2>1. ASSUME NEW x \in Nodes, NEW i \in 1 .. Len(Got(x)'), NEW j \in 1 .. Len(Got(x)')
        PROVE  /\ Got(x)'[i].no \in 1 .. sent[Got(x)'[i].from][x]
               /\ i < j /\ Got(x)'[i].from = Got(x)'[j].from
                    => Got(x)'[i].no < Got(x)'[j].no
    <3>1. CASE x # n
      BY <3>1 DEF OrderInv, GotInv, Delivers
    <3>2. CASE x = n
      <4>1. /\ i \in 1 .. Len(Got(n)) => Got(n)'[i] = Got(n)[i]
            /\ i \notin 1 .. Len(Got(n)) =>
                 i = Len(Got(n)) + 1 /\ Got(n)'[i].no = new /\ Got(n)'[i].from = m
            /\ j \in 1 .. Len(Got(n)) => Got(n)'[j] = Got(n)[j]
            /\ j \notin 1 .. Len(Got(n)) =>
                 j = Len(Got(n)) + 1 /\ Got(n)'[j].no = new /\ Got(n)'[j].from = m
            /\ i \in 1 .. Len(Got(n)) + 1 /\ j \in 1 .. Len(Got(n)) + 1 /\ Len(Got(n)) \in Nat
        BY <1>5, <3>2
      <4>2. CASE i \in 1 .. Len(Got(n)) /\ j \in 1 .. Len(Got(n))
        BY <3>2, <4>1, <4>2 DEF OrderInv, GotInv
      <4>3. CASE i \in 1 .. Len(Got(n)) /\ j \notin 1 .. Len(Got(n))
        BY <1>4, <3>2, <4>1, <4>3 DEF OrderInv, GotInv
      <4>4. CASE i \notin 1 .. Len(Got(n))
        <5>1. ~(i < j)
          BY <4>1, <4>4
        <5>. QED
          BY <1>4, <3>2, <4>1, <4>4, <5>1
      <4>. QED
        BY <4>2, <4>3, <4>4
    <3>. QED
      BY <3>1, <3>2
  <2>. QED
    BY <2>1 DEF GotInv, Delivers
<1>7. ASSUME NEW d \in Conns, NEW x \in conns'[d].open
      PROVE  Newer(x, Other(d, x), conns[d].inbox[x])'
  <2>1. x \in conns[d].open /\ x \in Nodes /\ Other(d, x)' = Other(d, x)
    <3>1. x \in conns[d].open /\ Other(d, x)' = Other(d, x)
      BY DEF Delivers, Other, Same
    <3>. QED
      BY <3>1, OpenIs DEF EndsInv
  <2>2. Newer(x, Other(d, x), conns[d].inbox[x])
    BY <2>1 DEF OrderInv, UnreadInv
  <2>3. CASE x # n
    <3>1. conns'[d].inbox[x] = conns[d].inbox[x] /\ Got(x)' = Got(x)
      <4>1. CASE d = c
        BY <2>1, <2>3, <4>1 DEF Delivers
      <4>2. CASE d # c
        BY <2>1, <2>3, <4>2 DEF Delivers
      <4>. QED
        BY <4>1, <4>2
    <3>2. sent' = sent
      BY DEF Delivers
    <3>. QED
      BY <2>1, <2>2, <3>1, <3>2 DEF Newer, IsData
  <2>4. CASE x = n /\ d # c /\ Other(d, x) # m
    <3>1. /\ conns'[d].inbox[x] = conns[d].inbox[x]
          /\ \A k \in 1 .. Len(Got(x)') : Got(x)'[k].from = Other(d, x) =>
               k \in 1 .. Len(Got(x)) /\ Got(x)'[k] = Got(x)[k]
      <4>1. conns'[d].inbox[x] = conns[d].inbox[x]
        BY <2>4 DEF Delivers
      <4>2. Len(Got(n)) \in Nat
        BY <1>5
      <4>3. ASSUME NEW k \in 1 .. Len(Got(n)'), Got(n)'[k].from # m
            PROVE  k \in 1 .. Len(Got(n)) /\ Got(n)'[k] = Got(n)[k]
        <5>1. k # Len(Got(n)) + 1 /\ k \in 1 .. Len(Got(n)) + 1
          BY <1>5, <4>3
        <5>2. k \in 1 .. Len(Got(n))
          BY <4>2, <5>1
        <5>. QED
          BY <1>5, <5>2
      <4>. QED
        BY <2>4, <4>1, <4>3
    <3>2. sent' = sent
      BY DEF Delivers
    <3>3. PICK o, p : o = Other(d, x) /\ p = conns[d].inbox[x]
      OBVIOUS
    <3>4. Newer(x, o, p)
      BY <2>2, <3>3
    <3>5. Newer(x, o, p)'
      <4>1. \A i \in 1 .. Len(p) : IsData(p, i) =>
              p[i].from = o /\ p[i].no \in 1 .. sent'[o][x]
        BY <3>2, <3>4 DEF Newer
      <4>2. \A i \in 1 .. Len(p) : IsData(p, i) =>
              \A k \in 1 .. Len(Got(x)') : Got(x)'[k].from = o => Got(x)'[k].no < p[i].no
        BY <3>1, <3>3, <3>4 DEF Newer
      <4>. QED
        BY <3>4, <4>1, <4>2 DEF Newer, IsData
    <3>. QED
      BY <2>1, <3>1, <3>3, <3>5
  <2>5. CASE x = n /\ d # c /\ Other(d, x) = m
    <3>1. ~Taken(n, d)
      BY <2>5 DEF Delivers, EndsInv, HeldInv
    <3>2. n = conns[d].to /\ ~conns[d].accepted
      BY <2>1, <2>5, <3>1, OpenIs DEF Taken, EndsInv
    <3>3. conns'[d].inbox[n] \in {<<>>, <<Request>>}
      BY <2>5, <3>2 DEF Delivers, EndsInv, PendingInv
    <3>4. \A i \in 1 .. Len(conns'[d].inbox[n]) : conns'[d].inbox[n][i].type # "DATA"
      BY <3>3 DEF Request
    <3>. QED
      BY <2>5, <3>4 DEF Newer, IsData
  <2>6. CASE x = n /\ d = c
    <3>. DEFINE r == conns'[c].inbox[n]
    <3>1. PICK b \in {0, 1} : \A i \in 1 .. Len(r) :
            r[i].type = "DATA" => i + b \in 2 .. Len(q) /\ r[i] = q[i + b]
      BY DEF Delivers, q
    <3>. HIDE DEF r
    <3>2. ASSUME NEW i \in 1 .. Len(r), IsData(r, i)
          PROVE  /\ r[i].from = m /\ r[i].no \in 1 .. sent[m][n]
                 /\ \A k \in 1 .. Len(Got(n)') :
                      Got(n)'[k].from = m => Got(n)'[k].no < r[i].no
      <4>1. i + b \in 2 .. Len(q) /\ r[i] = q[i + b] /\ IsData(q, i + b)
            /\ i + b \in 1 .. Len(q)
        BY <1>2, <3>1, <3>2 DEF IsData
      <4>2. /\ q[i + b].from = m /\ q[i + b].no \in 1 .. sent[m][n] /\ new < q[i + b].no
            /\ \A k \in 1 .. Len(Got(n)) : Got(n)[k].from = m => Got(n)[k].no < q[i + b].no
        BY <1>3, <1>4, <4>1 DEF Newer
      <4>. QED
        BY <1>5, <4>1, <4>2
    <3>3. ASSUME NEW i \in 1 .. Len(r), NEW j \in 1 .. Len(r),
                 IsData(r, i), IsData(r, j), i < j
          PROVE  r[i].no < r[j].no
      <4>1. /\ i + b \in 1 .. Len(q) /\ r[i] = q[i + b] /\ IsData(q, i + b)
            /\ j + b \in 1 .. Len(q) /\ r[j] = q[j + b] /\ IsData(q, j + b)
        BY <1>2, <3>1, <3>3 DEF IsData
      <4>2. i + b < j + b
        BY <3>3
      <4>. QED
        BY <1>3, <4>1, <4>2 DEF Newer
    <3>4. Other(c, n)' = m /\ sent' = sent
      BY <1>1, <2>1, <2>6 DEF Delivers
    <3>5. Newer(n, m, conns[c].inbox[n])'
      BY <3>2, <3>3, <3>4 DEF Newer, IsData, r
    <3>. QED
      BY <2>6, <3>4, <3>5
  <2>. QED
    BY <2>3, <2>4, <2>5, <2>6
<1>. QED
  BY <1>6, <1>7 DEF OrderInv, UnreadInv

----------------------------------------------------------------------------
(* The actions that open, close and activate nothing.                       *)

Safe == EndsInv /\ OrderInv

Places == [step : Steps, peer : Nodes \cup {Nobody}, conn : Conns \cup {None}]

LEMMA IdleIs ==
  ASSUME NEW step \in Steps
  PROVE  Idle(step) \in Places /\ Idle(step).step = step
BY DEF Idle, At, Places

LEMMA ConnsTyped ==
  ASSUME TypeOK, NEW c \in Conns, NEW l, l = Free \/ IsConnection(l),
         conns' = [conns EXCEPT ![c] = l]
  PROVE  /\ DOMAIN conns' = Conns
         /\ \A d \in Conns : conns'[d] = Free \/ IsConnection(conns'[d])
         /\ conns'[c] = l
         /\ \A d \in Conns \ {c} : conns'[d] = conns[d]
<1>1. DOMAIN conns' = Conns
  BY DEF TypeOK
<1>2. conns'[c] = l /\ \A d \in Conns \ {c} : conns'[d] = conns[d]
  BY DEF TypeOK
<1>. QED
  BY <1>1, <1>2 DEF TypeOK

\* A thread that does not wait goes on without waiting, or ends.
LEMMA ThreadGoesOn ==
  ASSUME EndsInv, NEW n \in Nodes, ~Waits(n), running[n],
         NEW step \in {"select", "events"}, at' = [at EXCEPT ![n] = Idle(step)],
         running' = running \/ running' = [running EXCEPT ![n] = FALSE]
  PROVE  /\ QuietThreads
         /\ at' \in [Nodes -> Places] /\ running' \in [Nodes -> BOOLEAN]
<1>1. step \in Steps /\ Idle(step) \in Places /\ Idle(step).step = step
  BY IdleIs DEF Steps
<1>2. at \in [Nodes -> Places] /\ running \in [Nodes -> BOOLEAN]
  BY DEF EndsInv, TypeOK, Places
<1>3. at'[n] = Idle(step) /\ \A x \in Nodes \ {n} : at'[x] = at[x] /\ running'[x] = running[x]
  BY <1>2
<1>4. /\ at' \in [Nodes -> Places] /\ running' \in [Nodes -> BOOLEAN]
  BY <1>1, <1>2
<1>5. up[n] /\ \A x \in Nodes : ~up[x] => at[x].step = "select"
  BY DEF EndsInv, UpInv
<1>6. \A x \in Nodes : running'[x] => running[x]
  BY <1>2
<1>7. QuietThreads
  BY <1>1, <1>3, <1>5, <1>6 DEF QuietThreads, Waits
<1>. QED
  BY <1>4, <1>7

LEMMA ThreadsStay ==
  ASSUME EndsInv, at' = at, running' = running
  PROVE  QuietThreads
BY DEF QuietThreads, Waits, EndsInv, UpInv

\* The connections stay, and what the engine has got at most gets fewer.
LEMMA ConnsStay ==
  ASSUME EndsInv, OrderInv, TypeOK', conns' = conns, QuietThreads,
         UNCHANGED <<up, socket, is_active, sent>>,
         \A x \in Nodes : Got(x)' = Got(x)
  PROVE  Safe'
<1>1. QuietConns
  BY DEF QuietConns
<1>2. \A c \in Conns : \A x \in conns'[c].open : Older(c, x)
  <2>. SUFFICES ASSUME NEW c \in Conns, NEW x \in conns[c].open PROVE Older(c, x)
    OBVIOUS
  <2>1. Leftover(conns[c].inbox[x], conns'[c].inbox[x])
    BY InboxIs, LeftoverIs DEF EndsInv
  <2>. QED
    BY <2>1 DEF Older
<1>3. EndsInv'
  BY <1>1, QuietStep
<1>4. OrderInv'
  BY <1>2, OlderStep DEF EndsInv
<1>. QED
  BY <1>3, <1>4 DEF Safe

LEMMA SelectSafe == ASSUME Safe, NEW n \in Nodes, Select(n) PROVE Safe'
<1>1. ~Waits(n) /\ running[n] /\ at' = [at EXCEPT ![n] = Idle("events")] /\ running' = running
  BY DEF Select, Continue, Waits
<1>2. QuietThreads /\ at' \in [Nodes -> Places]
  BY <1>1, ThreadGoesOn DEF Safe
<1>3. Ready(n) \in SUBSET Nodes
  BY DEF Ready, Safe, EndsInv, TypeOK
<1>4. todo' \in [Nodes -> SUBSET Nodes]
  BY <1>3 DEF Select, Safe, EndsInv, TypeOK
<1>5. TypeOK'
  BY <1>2, <1>4 DEF Select, Safe, EndsInv, TypeOK, Places, endVars, dataVars
<1>. QED
  BY <1>2, <1>5, ConnsStay DEF Select, Safe, Got, endVars, dataVars

LEMMA RecvMsgSafe == ASSUME Safe, NEW n \in Nodes, RecvMsg(n) PROVE Safe'
<1>1. /\ received \in [Nodes -> Seq(Entries)] /\ msg_queue \in [Nodes -> Seq(Entries)]
  BY DEF Safe, EndsInv, TypeOK
<1>2. /\ received' \in [Nodes -> Seq(Entries)] /\ msg_queue' \in [Nodes -> Seq(Entries)]
      /\ received'[n] = received[n] \o msg_queue[n] /\ msg_queue'[n] = <<>>
      /\ \A x \in Nodes \ {n} : received'[x] = received[x] /\ msg_queue'[x] = msg_queue[x]
  BY <1>1 DEF RecvMsg
<1>3. \A x \in Nodes : Got(x)' = Got(x)
  <2>1. Got(n)' = Got(n)
    <3>1. received'[n] \in Seq(Entries)
      BY <1>2
    <3>2. received'[n] \o <<>> = received'[n]
      BY <3>1, ConcatEmptySeq
    <3>. QED
      BY <1>2, <3>2 DEF Got
  <2>2. \A x \in Nodes \ {n} : Got(x)' = Got(x)
    BY <1>2 DEF Got
  <2>. QED
    BY <2>1, <2>2
<1>4. TypeOK'
  BY <1>2 DEF RecvMsg, Safe, EndsInv, TypeOK, threadVars, endVars
<1>5. QuietThreads
  BY ThreadsStay DEF RecvMsg, Safe, threadVars
<1>. QED
  BY <1>3, <1>4, <1>5, ConnsStay DEF RecvMsg, Safe, endVars

LEMMA SetActiveNodesSafe ==
  ASSUME Safe, NEW n \in Nodes, NEW m \in Nodes, SetActiveNodes(n, m)
  PROVE  Safe'
<1>1. peers' \in [Nodes -> SUBSET Nodes]
  BY DEF SetActiveNodes, Safe, EndsInv, TypeOK
<1>a. UNCHANGED <<up, socket, is_active, conns, sent, msg_queue, received>>
  BY DEF SetActiveNodes, endVars, dataVars
<1>2. CASE UNCHANGED <<running, at, todo>>
  <2>1. TypeOK'
    BY <1>1, <1>2, <1>a DEF Safe, EndsInv, TypeOK
  <2>2. QuietThreads
    BY <1>2, ThreadsStay DEF Safe
  <2>. QED
    BY <2>1, <2>2, <1>a, ConnsStay DEF Safe, Got
<1>3. CASE running[n] /\ at[n].step \in {"select", "events"} /\ ThreadEnds(n)
  <2>1. /\ ~Waits(n) /\ running' = [running EXCEPT ![n] = FALSE]
        /\ at' = [at EXCEPT ![n] = Idle("select")] /\ todo' = [todo EXCEPT ![n] = {}]
    BY <1>3 DEF ThreadEnds, Continue, Waits
  <2>2. QuietThreads /\ at' \in [Nodes -> Places] /\ running' \in [Nodes -> BOOLEAN]
    BY <1>3, <2>1, ThreadGoesOn DEF Safe
  <2>3. todo' \in [Nodes -> SUBSET Nodes]
    BY <2>1 DEF Safe, EndsInv, TypeOK
  <2>4. TypeOK'
    BY <1>1, <1>a, <2>2, <2>3 DEF Safe, EndsInv, TypeOK, Places
  <2>. QED
    BY <2>2, <2>4, <1>a, ConnsStay DEF Safe, Got
<1>. QED
  BY <1>2, <1>3 DEF SetActiveNodes

\* What an active connection is.
LEMMA ActiveIs ==
  ASSUME EndsInv, NEW n \in Nodes, NEW m \in is_active[n], NEW c, c = socket[n][m]
  PROVE  /\ c \in Conns /\ m \in Nodes /\ n \in conns[c].open /\ IsConnection(conns[c])
         /\ Taken(n, c) /\ Other(c, n) = m
         /\ conns[c].inbox[n] \in Seq(Messages)
         /\ {conns[c].from, conns[c].to} = {n, m} /\ n # m
<1>1. c \in Conns /\ Taken(n, c) /\ Other(c, n) = m /\ m \in Nodes
  BY DEF EndsInv, ActiveInv, TypeOK
<1>2. n \in conns[c].open
  BY <1>1 DEF Taken
<1>3. /\ IsConnection(conns[c]) /\ n \in {conns[c].from, conns[c].to}
      /\ conns[c].from < conns[c].to /\ conns[c].from \in Nat /\ conns[c].to \in Nat
  BY <1>1, <1>2, OpenIs DEF EndsInv
<1>4. conns[c].inbox[n] \in Seq(Messages)
  BY <1>1, <1>2, InboxIs DEF EndsInv
<1>. QED
  BY <1>1, <1>2, <1>3, <1>4 DEF Taken, Other

\* n reads from c and nothing else of the connections changes.
Reads(n, c) ==
  /\ conns[c].inbox[n] # <<>>
  /\ \A d \in Conns \ {c} : conns'[d] = conns[d]
  /\ IsConnection(conns'[c]) /\ Same(conns[c], conns'[c])
  /\ conns'[c].open = conns[c].open /\ conns'[c].accepted = conns[c].accepted
  /\ \A x \in {conns[c].from, conns[c].to} \ {n} : conns'[c].inbox[x] = conns[c].inbox[x]

\* Where there is something to read on an active connection, it is accepted.
LEMMA ReadsQuietly ==
  ASSUME EndsInv, NEW n \in Nodes, NEW m \in is_active[n], NEW c, c = socket[n][m],
         Reads(n, c)
  PROVE  QuietConns
<1>1. /\ c \in Conns /\ IsConnection(conns[c]) /\ n \in conns[c].open
      /\ Taken(n, c) /\ Other(c, n) = m
  BY ActiveIs
<1>2. conns[c].accepted
  BY <1>1 DEF Reads, EndsInv, PendingInv, Taken
<1>. QED
  BY <1>1, <1>2 DEF QuietConns, Reads

LEMMA AppendGot ==
  ASSUME TypeOK, NEW n \in Nodes, NEW e \in Entries, received' = received,
         msg_queue' = [msg_queue EXCEPT ![n] = Append(@, e)]
  PROVE  /\ Got(n)' = Append(Got(n), e)
         /\ \A x \in Nodes \ {n} : Got(x)' = Got(x)
         /\ msg_queue' \in [Nodes -> Seq(Entries)]
<1>1. received[n] \in Seq(Entries) /\ msg_queue[n] \in Seq(Entries) /\ <<e>> \in Seq(Entries)
  BY DEF TypeOK
<1>2. /\ msg_queue'[n] = Append(msg_queue[n], e)
      /\ \A x \in Nodes \ {n} : msg_queue'[x] = msg_queue[x]
      /\ msg_queue' \in [Nodes -> Seq(Entries)]
  BY DEF TypeOK
<1>3. Append(msg_queue[n], e) = msg_queue[n] \o <<e>>
  BY <1>1, AppendIsConcat
<1>4. received[n] \o msg_queue[n] \in Seq(Entries)
  BY <1>1, ConcatProperties
<1>5. Append(received[n] \o msg_queue[n], e) = (received[n] \o msg_queue[n]) \o <<e>>
  BY <1>4, AppendIsConcat
<1>6. (received[n] \o msg_queue[n]) \o <<e>> = received[n] \o (msg_queue[n] \o <<e>>)
  <2>1. ASSUME NEW s \in Seq(Entries), NEW t \in Seq(Entries), NEW u \in Seq(Entries)
        PROVE  (s \o t) \o u = s \o (t \o u)
    BY ConcatAssociative
  <2>. QED
    BY <1>1, <2>1
<1>. QED
  BY <1>2, <1>3, <1>5, <1>6 DEF Got

LEMMA EntryIs ==
  ASSUME EndsInv, NEW n \in Nodes, NEW m \in is_active[n], NEW c, c = socket[n][m],
         conns[c].inbox[n] # <<>>, conns[c].inbox[n][1].type = "DATA"
  PROVE  [from |-> m, no |-> conns[c].inbox[n][1].no] \in Entries
<1>1. m \in Nodes /\ conns[c].inbox[n] \in Seq(Messages)
  BY ActiveIs
<1>2. conns[c].inbox[n][1] \in Messages
  BY <1>1
<1>3. ASSUME NEW msg \in Messages, msg.type = "DATA" PROVE msg.no \in Nat
  <2>1. /\ Request.type # "DATA" /\ Reply.type # "DATA"
        /\ Ack.type # "DATA" /\ Rest.type # "DATA"
    BY DEF Request, Reply, Ack, Rest
  <2>2. msg \in [type : {"DATA"}, from : Nodes, no : Nat]
    BY <1>3, <2>1 DEF Messages
  <2>. QED
    BY <2>2
<1>. QED
  BY <1>1, <1>2, <1>3 DEF Entries

LEMMA ReadSafe == ASSUME Safe, NEW n \in Nodes, Read(n) PROVE Safe'
<1>1. PICK m \in is_active[n] :
        LET c == socket[n][m]  msg == conns[c].inbox[n][1] IN
        /\ Handles(n, m) /\ conns[c].inbox[n] # <<>> /\ msg.type = "DATA"
        /\ conns' = [conns EXCEPT ![c] = Popped(@, n)]
        /\ msg_queue' = [msg_queue EXCEPT ![n] = Queued(@, [from |-> m, no |-> msg.no])]
        /\ Handled(n, m)
        /\ UNCHANGED <<up, running, at, conn_modulus, peers, endVars, sent, received,
                       faults>>
  BY DEF Read
<1>2. PICK c : c = socket[n][m]
  OBVIOUS
<1>. DEFINE q == conns[c].inbox[n]  e == [from |-> m, no |-> q[1].no]
<1>3. /\ q # <<>> /\ q[1].type = "DATA"
      /\ conns' = [conns EXCEPT ![c] = Popped(conns[c], n)]
      /\ msg_queue' = [msg_queue EXCEPT ![n] = Append(@, e)]
      /\ todo' = [todo EXCEPT ![n] = @ \ {m}]
      /\ UNCHANGED <<up, running, at, peers, socket, is_active, sent, received>>
  BY <1>1, <1>2 DEF Queued, Handled, endVars
<1>4. /\ c \in Conns /\ m \in Nodes /\ n \in conns[c].open /\ IsConnection(conns[c])
      /\ q \in Seq(Messages) /\ {conns[c].from, conns[c].to} = {n, m}
  BY <1>2, ActiveIs DEF Safe
<1>5. PICK l : l = Popped(conns[c], n)
  OBVIOUS
<1>6. /\ IsConnection(l) /\ Same(conns[c], l) /\ l.open = conns[c].open
      /\ l.accepted = conns[c].accepted
      /\ l.inbox[n] = Tail(q)
      /\ \A x \in {conns[c].from, conns[c].to} \ {n} : l.inbox[x] = conns[c].inbox[x]
  BY <1>3, <1>4, <1>5, PoppedIs
<1>7. /\ DOMAIN conns' = Conns /\ conns'[c] = l
      /\ \A d \in Conns : conns'[d] = Free \/ IsConnection(conns'[d])
      /\ \A d \in Conns \ {c} : conns'[d] = conns[d]
  BY <1>3, <1>4, <1>5, <1>6, ConnsTyped DEF Safe, EndsInv
<1>8. e \in Entries
  BY <1>2, <1>3, EntryIs DEF Safe
<1>. HIDE DEF q, e
<1>9. /\ Got(n)' = Append(Got(n), e)
      /\ \A x \in Nodes \ {n} : Got(x)' = Got(x)
      /\ msg_queue' \in [Nodes -> Seq(Entries)]
  BY <1>3, <1>8, AppendGot DEF Safe, EndsInv
<1>10. TypeOK'
  <2>1. todo' \in [Nodes -> SUBSET Nodes]
    BY <1>3 DEF Safe, EndsInv, TypeOK
  <2>. QED
    BY <1>3, <1>7, <1>9, <2>1 DEF Safe, EndsInv, TypeOK
<1>11. QuietConns
  <2>1. Reads(n, c)
    BY <1>3, <1>6, <1>7 DEF Reads, q
  <2>. QED
    BY <1>2, <2>1, ReadsQuietly DEF Safe
<1>12. EndsInv'
  <2>1. QuietThreads
    BY <1>3, ThreadsStay DEF Safe
  <2>. QED
    BY <1>3, <1>10, <1>11, <2>1, QuietStep DEF Safe
<1>13. OrderInv'
  <2>1. \A i \in 1 .. Len(Tail(q)) : i + 1 \in 2 .. Len(q) /\ Tail(q)[i] = q[i + 1]
    BY <1>3, <1>4
  <2>2. \E d \in {0, 1} : \A i \in 1 .. Len(conns'[c].inbox[n]) :
          conns'[c].inbox[n][i].type = "DATA" =>
            /\ i + d \in 2 .. Len(conns[c].inbox[n])
            /\ conns'[c].inbox[n][i] = conns[c].inbox[n][i + d]
    BY <1>6, <1>7, <2>1 DEF q
  <2>3. \A x \in conns[c].open \ {n} : conns'[c].inbox[x] = conns[c].inbox[x]
    BY <1>4, <1>6, <1>7 DEF IsConnection
  <2>4. Delivers(n, m, c)
    BY <1>2, <1>3, <1>6, <1>7, <1>9, <2>2, <2>3 DEF Delivers, q, e
  <2>. QED
    BY <1>4, <1>10, <2>4, DeliverStep DEF Safe
<1>. QED
  BY <1>12, <1>13 DEF Safe

\* A change to connections that neither sends nor delivers data.
LEMMA QuietSafe ==
  ASSUME Safe, TypeOK', QuietThreads, QuietConns, UNCHANGED <<up, socket, is_active, sent>>,
         \A x \in Nodes : Got(x)' = Got(x),
         \A c \in Conns : \A x \in conns'[c].open : Older(c, x)
  PROVE  Safe'
<1>1. EndsInv'
  BY QuietStep DEF Safe
<1>2. OrderInv'
  BY OlderStep DEF Safe, EndsInv
<1>. QED
  BY <1>1, <1>2 DEF Safe

\* What is not touched is left over.
LEMMA Untouched ==
  ASSUME TypeOK, NEW c \in Conns, NEW n \in conns[c].open,
         conns'[c].from = conns[c].from, conns'[c].to = conns[c].to,
         conns'[c].inbox[n] = conns[c].inbox[n]
  PROVE  Older(c, n)
<1>1. Leftover(conns[c].inbox[n], conns'[c].inbox[n])
  BY InboxIs, LeftoverIs
<1>. QED
  BY <1>1 DEF Older

\* The head of a sequence replaced.
LEMMA HeadReplaced ==
  ASSUME NEW q \in Seq(Messages), q # <<>>, NEW msg \in Messages,
         NEW r, r = [q EXCEPT ![1] = msg]
  PROVE  /\ r \in Seq(Messages) /\ Len(r) = Len(q) /\ r[1] = msg
         /\ \A i \in 2 .. Len(q) : r[i] = q[i]
OBVIOUS

LEMMA ReadPartSafe == ASSUME Safe, NEW n \in Nodes, ReadPart(n) PROVE Safe'
<1>1. PICK m \in is_active[n] :
        LET c == socket[n][m]  msg == conns[c].inbox[n][1] IN
        /\ Handles(n, m) /\ conns[c].inbox[n] # <<>> /\ msg.type = "DATA"
        /\ Fault("split")
        /\ conns' = [conns EXCEPT ![c].inbox[n][1] = Rest]
        /\ msg_queue' = [msg_queue EXCEPT ![n] = Queued(@, [from |-> m, no |-> msg.no])]
        /\ Handled(n, m)
        /\ UNCHANGED <<up, running, at, conn_modulus, peers, endVars, sent, received>>
  BY DEF ReadPart
<1>2. PICK c : c = socket[n][m]
  OBVIOUS
<1>. DEFINE q == conns[c].inbox[n]  e == [from |-> m, no |-> q[1].no]
            r == [q EXCEPT ![1] = Rest]  box == [conns[c].inbox EXCEPT ![n] = r]
            l == WithInbox(conns[c], box)
<1>3. /\ q # <<>> /\ q[1].type = "DATA"
      /\ conns' = [conns EXCEPT ![c] = l]
      /\ msg_queue' = [msg_queue EXCEPT ![n] = Append(@, e)]
      /\ todo' = [todo EXCEPT ![n] = @ \ {m}]
      /\ UNCHANGED <<up, running, at, peers, socket, is_active, sent, received>>
  BY <1>1, <1>2 DEF Queued, Handled, endVars, WithInbox
<1>4. /\ c \in Conns /\ m \in Nodes /\ n \in conns[c].open /\ IsConnection(conns[c])
      /\ q \in Seq(Messages) /\ {conns[c].from, conns[c].to} = {n, m} /\ n # m
  BY <1>2, ActiveIs DEF Safe
<1>5. Rest \in Messages /\ Rest.type # "DATA"
  BY DEF Messages, Rest
<1>6. /\ r \in Seq(Messages) /\ Len(r) = Len(q) /\ r[1] = Rest
      /\ \A i \in 2 .. Len(q) : r[i] = q[i]
  BY <1>3, <1>4, <1>5, HeadReplaced
<1>. HIDE DEF q, r
<1>7. /\ box \in [{conns[c].from, conns[c].to} -> Seq(Messages)] /\ box[n] = r
      /\ \A x \in {conns[c].from, conns[c].to} \ {n} : box[x] = conns[c].inbox[x]
  BY <1>4, <1>6 DEF IsConnection
<1>. HIDE DEF box
<1>8. /\ IsConnection(l) /\ Same(conns[c], l) /\ l.open = conns[c].open
      /\ l.accepted = conns[c].accepted /\ l.inbox = box
  BY <1>4, <1>7, InboxChanged
<1>. HIDE DEF l
<1>9. /\ DOMAIN conns' = Conns /\ conns'[c] = l
      /\ \A d \in Conns : conns'[d] = Free \/ IsConnection(conns'[d])
      /\ \A d \in Conns \ {c} : conns'[d] = conns[d]
  BY <1>3, <1>4, <1>8, ConnsTyped DEF Safe, EndsInv
<1>10. e \in Entries
  BY <1>2, <1>3, EntryIs DEF Safe, q
<1>. HIDE DEF e
<1>11. /\ Got(n)' = Append(Got(n), e)
       /\ \A x \in Nodes \ {n} : Got(x)' = Got(x)
       /\ msg_queue' \in [Nodes -> Seq(Entries)]
  BY <1>3, <1>10, AppendGot DEF Safe, EndsInv
<1>12. TypeOK'
  <2>1. todo' \in [Nodes -> SUBSET Nodes]
    BY <1>3 DEF Safe, EndsInv, TypeOK
  <2>. QED
    BY <1>3, <1>9, <1>11, <2>1 DEF Safe, EndsInv, TypeOK
<1>13. EndsInv'
  <2>1. Reads(n, c)
    BY <1>3, <1>7, <1>8, <1>9 DEF Reads, q
  <2>2. QuietConns
    BY <1>2, <2>1, ReadsQuietly DEF Safe
  <2>3. QuietThreads
    BY <1>3, ThreadsStay DEF Safe
  <2>. QED
    BY <1>3, <1>12, <2>2, <2>3, QuietStep DEF Safe
<1>14. OrderInv'
  <2>1. ASSUME NEW i \in 1 .. Len(r), r[i].type = "DATA"
        PROVE  i + 0 \in 2 .. Len(q) /\ r[i] = q[i + 0]
    BY <1>4, <1>5, <1>6, <2>1
  <2>2. \E d \in {0, 1} : \A i \in 1 .. Len(conns'[c].inbox[n]) :
          conns'[c].inbox[n][i].type = "DATA" =>
            /\ i + d \in 2 .. Len(conns[c].inbox[n])
            /\ conns'[c].inbox[n][i] = conns[c].inbox[n][i + d]
    BY <1>7, <1>8, <1>9, <2>1 DEF q
  <2>3. \A x \in conns[c].open \ {n} : conns'[c].inbox[x] = conns[c].inbox[x]
    BY <1>4, <1>7, <1>8, <1>9 DEF IsConnection
  <2>4. Delivers(n, m, c)
    BY <1>2, <1>3, <1>8, <1>9, <1>11, <2>2, <2>3 DEF Delivers, q, e
  <2>. QED
    BY <1>4, <1>12, <2>4, DeliverStep DEF Safe
<1>. QED
  BY <1>13, <1>14 DEF Safe

LEMMA ReadRestSafe == ASSUME Safe, NEW n \in Nodes, ReadRest(n) PROVE Safe'
<1>1. PICK m \in is_active[n] :
        LET c == socket[n][m] IN
        /\ Handles(n, m) /\ conns[c].inbox[n] # <<>> /\ conns[c].inbox[n][1] = Rest
        /\ conns' = [conns EXCEPT ![c].inbox[n] = <<>>]
        /\ \/ Handled(n, m) /\ UNCHANGED <<running, at>>
           \/ ThreadEnds(n)
        /\ UNCHANGED <<up, conn_modulus, peers, endVars, dataVars, faults>>
  BY DEF ReadRest
<1>2. PICK c : c = socket[n][m]
  OBVIOUS
<1>. DEFINE box == [conns[c].inbox EXCEPT ![n] = <<>>]  l == WithInbox(conns[c], box)
<1>3. /\ conns[c].inbox[n] # <<>>
      /\ conns' = [conns EXCEPT ![c] = l]
      /\ UNCHANGED <<up, peers, socket, is_active, sent, msg_queue, received>>
  BY <1>1, <1>2 DEF endVars, dataVars, WithInbox
<1>4. /\ c \in Conns /\ m \in Nodes /\ n \in conns[c].open /\ IsConnection(conns[c])
      /\ {conns[c].from, conns[c].to} = {n, m}
  BY <1>2, ActiveIs DEF Safe
<1>5. /\ box \in [{conns[c].from, conns[c].to} -> Seq(Messages)] /\ box[n] = <<>>
      /\ \A x \in {conns[c].from, conns[c].to} \ {n} : box[x] = conns[c].inbox[x]
  BY <1>4 DEF IsConnection
<1>. HIDE DEF box
<1>6. /\ IsConnection(l) /\ Same(conns[c], l) /\ l.open = conns[c].open
      /\ l.accepted = conns[c].accepted /\ l.inbox = box
  BY <1>4, <1>5, InboxChanged
<1>. HIDE DEF l
<1>7. /\ DOMAIN conns' = Conns /\ conns'[c] = l
      /\ \A d \in Conns : conns'[d] = Free \/ IsConnection(conns'[d])
      /\ \A d \in Conns \ {c} : conns'[d] = conns[d]
  BY <1>3, <1>4, <1>6, ConnsTyped DEF Safe, EndsInv
<1>8. running[n] /\ ~Waits(n)
  BY <1>1 DEF Handles, Waits
<1>9. /\ QuietThreads /\ at' \in [Nodes -> Places] /\ running' \in [Nodes -> BOOLEAN]
      /\ todo' \in [Nodes -> SUBSET Nodes]
  <2>1. CASE Handled(n, m) /\ UNCHANGED <<running, at>>
    BY <2>1, ThreadsStay DEF Handled, Safe, EndsInv, TypeOK, Places
  <2>2. CASE ThreadEnds(n)
    <3>1. todo' \in [Nodes -> SUBSET Nodes]
      BY <2>2 DEF ThreadEnds, Safe, EndsInv, TypeOK
    <3>. QED
      BY <1>8, <2>2, <3>1, ThreadGoesOn DEF ThreadEnds, Continue, Safe
  <2>. QED
    BY <1>1, <2>1, <2>2
<1>10. TypeOK'
  BY <1>3, <1>7, <1>9 DEF Safe, EndsInv, TypeOK, Places
<1>11. QuietConns
  <2>1. Reads(n, c)
    BY <1>3, <1>5, <1>6, <1>7 DEF Reads
  <2>. QED
    BY <1>2, <2>1, ReadsQuietly DEF Safe
<1>12. ASSUME NEW d \in Conns, NEW x \in conns'[d].open PROVE Older(d, x)
  <2>1. x \in conns[d].open /\ conns'[d].from = conns[d].from /\ conns'[d].to = conns[d].to
    BY <1>6, <1>7 DEF Same
  <2>2. CASE d = c /\ x = n
    BY <1>5, <1>6, <1>7, <2>2 DEF Older
  <2>3. CASE ~(d = c /\ x = n)
    <3>1. conns'[d].inbox[x] = conns[d].inbox[x]
      BY <1>4, <1>5, <1>6, <1>7, <2>1, <2>3 DEF IsConnection
    <3>. QED
      BY <2>1, <3>1, Untouched DEF Safe, EndsInv
  <2>. QED
    BY <2>2, <2>3
<1>13. \A x \in Nodes : Got(x)' = Got(x)
  BY <1>3 DEF Got
<1>. QED
  BY <1>3, <1>9, <1>10, <1>11, <1>12, <1>13, QuietSafe

LEMMA LoseSafe == ASSUME Safe, NEW c \in Conns, Lose(c) PROVE Safe'
<1>1. PICK box \in {conns[c].inbox, [x \in DOMAIN conns[c].inbox |-> <<>>]} :
        conns' = [conns EXCEPT ![c].cut = TRUE, ![c].inbox = box]
  BY DEF Lose
<1>2. /\ IsConnection(conns[c]) /\ conns[c].open # {}
      /\ UNCHANGED <<up, at, running, todo, peers, socket, is_active, sent, msg_queue, received>>
  BY FreeIs DEF Lose, Safe, EndsInv, TypeOK, threadVars, endVars, dataVars
<1>. DEFINE k == [conns[c] EXCEPT !.cut = TRUE]  l == WithInbox(k, box)
<1>3. /\ IsConnection(k) /\ Same(conns[c], k) /\ k.open = conns[c].open
      /\ k.accepted = conns[c].accepted /\ k.inbox = conns[c].inbox
  BY <1>2 DEF IsConnection, Same
<1>4. /\ box \in [{k.from, k.to} -> Seq(Messages)]
      /\ \A x \in {k.from, k.to} : box[x] \in {conns[c].inbox[x], <<>>}
  <2>1. conns[c].inbox \in [{k.from, k.to} -> Seq(Messages)]
    BY <1>2, <1>3 DEF IsConnection, Same
  <2>. <<>> \in Seq(Messages)
    OBVIOUS
  <2>. HIDE DEF k
  <2>2. CASE box = conns[c].inbox
    BY <2>1, <2>2
  <2>3. CASE box = [x \in DOMAIN conns[c].inbox |-> <<>>]
    BY <2>1, <2>3
  <2>. QED
    BY <1>1, <2>2, <2>3
<1>5. conns' = [conns EXCEPT ![c] = l]
  BY <1>1 DEF WithInbox
<1>. HIDE DEF k
<1>6. /\ IsConnection(l) /\ Same(k, l) /\ l.open = k.open
      /\ l.accepted = k.accepted /\ l.inbox = box
  BY <1>3, <1>4, InboxChanged
<1>. HIDE DEF l
<1>7. /\ DOMAIN conns' = Conns /\ conns'[c] = l
      /\ \A d \in Conns : conns'[d] = Free \/ IsConnection(conns'[d])
      /\ \A d \in Conns \ {c} : conns'[d] = conns[d]
  BY <1>5, <1>6, ConnsTyped DEF Safe, EndsInv
<1>8. /\ Same(conns[c], l) /\ l.open = conns[c].open /\ l.accepted = conns[c].accepted
      /\ \A x \in {conns[c].from, conns[c].to} : l.inbox[x] \in {conns[c].inbox[x], <<>>}
  BY <1>3, <1>4, <1>6 DEF Same
<1>9. TypeOK'
  BY <1>2, <1>7 DEF Safe, EndsInv, TypeOK
<1>10. QuietConns
  BY <1>2, <1>6, <1>7, <1>8 DEF QuietConns
<1>11. QuietThreads
  BY <1>2, ThreadsStay DEF Safe
<1>12. ASSUME NEW d \in Conns, NEW x \in conns'[d].open PROVE Older(d, x)
  <2>1. x \in conns[d].open /\ conns'[d].from = conns[d].from /\ conns'[d].to = conns[d].to
    BY <1>7, <1>8 DEF Same
  <2>2. CASE conns'[d].inbox[x] = conns[d].inbox[x]
    BY <2>1, <2>2, Untouched DEF Safe, EndsInv
  <2>3. CASE conns'[d].inbox[x] = <<>>
    BY <2>3 DEF Older
  <2>4. conns'[d].inbox[x] \in {conns[d].inbox[x], <<>>}
    BY <1>2, <1>7, <1>8, <2>1 DEF IsConnection
  <2>. QED
    BY <2>2, <2>3, <2>4
<1>13. \A x \in Nodes : Got(x)' = Got(x)
  BY <1>2 DEF Got
<1>. QED
  BY <1>2, <1>9, <1>10, <1>11, <1>12, <1>13, QuietSafe

LEMMA SendSafe ==
  ASSUME Safe, NEW n \in Nodes, NEW m \in Nodes, Send(n, m) PROVE Safe'
<1>1. /\ m \in is_active[n]
      /\ sent' = [sent EXCEPT ![n][m] = @ + 1]
      /\ conns' = [conns EXCEPT ![socket[n][m]] = Pushed(@, n, Data(n, sent'[n][m]))]
      /\ UNCHANGED <<up, running, at, todo, peers, socket, is_active, msg_queue, received>>
  BY DEF Send, threadVars, endVars
<1>2. PICK c : c = socket[n][m]
  OBVIOUS
<1>3. /\ c \in Conns /\ n \in conns[c].open /\ IsConnection(conns[c])
      /\ {conns[c].from, conns[c].to} = {n, m} /\ n # m
      /\ Taken(n, c) /\ Other(c, n) = m
  BY <1>1, <1>2, ActiveIs DEF Safe
<1>4. /\ sent' \in [Nodes -> [Nodes -> Nat]] /\ sent'[n][m] = sent[n][m] + 1
      /\ sent[n][m] \in Nat
      /\ \A x, y \in Nodes : \A k \in 1 .. sent[x][y] : k \in 1 .. sent'[x][y]
  <2>1. sent \in [Nodes -> [Nodes -> Nat]]
    BY DEF Safe, EndsInv, TypeOK
  <2>2. /\ sent' \in [Nodes -> [Nodes -> Nat]]
        /\ \A x \in Nodes \ {n} : sent'[x] = sent[x]
        /\ sent'[n] = [sent[n] EXCEPT ![m] = sent[n][m] + 1]
    BY <1>1, <2>1
  <2>3. /\ sent[n] \in [Nodes -> Nat] /\ sent'[n][m] = sent[n][m] + 1
        /\ \A y \in Nodes \ {m} : sent'[n][y] = sent[n][y]
    BY <2>1, <2>2
  <2>4. ASSUME NEW x \in Nodes, NEW y \in Nodes, NEW k \in 1 .. sent[x][y]
        PROVE  k \in 1 .. sent'[x][y]
    <3>1. CASE x = n /\ y = m
      <4>1. sent[n][m] \in Nat
        BY <2>1
      <4>. QED
        BY <2>3, <3>1, <4>1
    <3>2. CASE ~(x = n /\ y = m)
      <4>1. sent'[x][y] = sent[x][y]
        BY <2>2, <2>3, <3>2
      <4>. QED
        BY <4>1
    <3>. QED
      BY <3>1, <3>2
  <2>. QED
    BY <2>1, <2>2, <2>3, <2>4
<1>5. PICK msg : msg = Data(n, sent'[n][m])
  OBVIOUS
<1>6. /\ msg \in Messages /\ msg.type = "DATA" /\ msg.from = n
      /\ msg.no = sent[n][m] + 1
  BY <1>4, <1>5 DEF Data, Messages
<1>7. PICK l : l = Pushed(conns[c], n, msg)
  OBVIOUS
<1>8. /\ IsConnection(l) /\ Same(conns[c], l) /\ l.open = conns[c].open
      /\ l.accepted = conns[c].accepted
      /\ l.inbox[n] = conns[c].inbox[n]
      /\ l.inbox[m] \in {conns[c].inbox[m], Append(conns[c].inbox[m], msg)}
  <2>1. /\ IsConnection(l) /\ Same(conns[c], l) /\ l.open = conns[c].open
        /\ l.accepted = conns[c].accepted
        /\ l.inbox[n] = conns[c].inbox[n]
        /\ \A x \in {conns[c].from, conns[c].to} \ {n} :
             l.inbox[x] \in {conns[c].inbox[x], Longer(conns[c].inbox[x], msg)}
    <3>1. msg \in Messages /\ n \in conns[c].open /\ IsConnection(conns[c])
      BY <1>3, <1>6
    <3>. QED
      BY <1>7, <3>1, PushedIs
  <2>. QED
    BY <1>3, <2>1 DEF Longer
<1>9. /\ DOMAIN conns' = Conns /\ conns'[c] = l
      /\ \A d \in Conns : conns'[d] = Free \/ IsConnection(conns'[d])
      /\ \A d \in Conns \ {c} : conns'[d] = conns[d]
  <2>1. conns' = [conns EXCEPT ![c] = l]
    BY <1>1, <1>2, <1>5, <1>7
  <2>. QED
    BY <1>3, <1>8, <2>1, ConnsTyped DEF Safe, EndsInv
<1>10. TypeOK'
  BY <1>1, <1>4, <1>9 DEF Safe, EndsInv, TypeOK
<1>11. QuietConns
  <2>1. ~conns[c].accepted => FALSE
    BY <1>1, <1>3 DEF Safe, EndsInv, PendingInv, Taken, Other
  <2>2. Other(c, m) = n /\ Other(c, n) = m
    BY <1>3 DEF Other
  <2>3. ASSUME NEW x \in {conns[c].from, conns[c].to}
        PROVE  \/ conns'[c].inbox[x] = conns[c].inbox[x]
               \/ Other(c, x) \in conns[c].open /\ x \in is_active[Other(c, x)]
    BY <1>1, <1>3, <1>8, <1>9, <2>2
  <2>. QED
    BY <1>3, <1>8, <1>9, <2>1, <2>3 DEF QuietConns
<1>12. EndsInv'
  <2>1. QuietThreads
    BY <1>1, ThreadsStay DEF Safe
  <2>. QED
    BY <1>1, <1>10, <1>11, <2>1, QuietStep DEF Safe
<1>13. \A x \in Nodes : Got(x)' = Got(x) /\ Got(x) \in Seq(Entries)
  BY <1>1 DEF Got, Safe, EndsInv, TypeOK
<1>14. GotInv'
  <2>1. ASSUME NEW x \in Nodes, NEW i \in 1 .. Len(Got(x)), NEW j \in 1 .. Len(Got(x))
        PROVE  /\ Got(x)[i].no \in 1 .. sent'[Got(x)[i].from][x]
               /\ i < j /\ Got(x)[i].from = Got(x)[j].from => Got(x)[i].no < Got(x)[j].no
    <3>1. /\ Got(x)[i].no \in 1 .. sent[Got(x)[i].from][x]
          /\ i < j /\ Got(x)[i].from = Got(x)[j].from => Got(x)[i].no < Got(x)[j].no
      BY DEF Safe, OrderInv, GotInv
    <3>2. Got(x)[i] \in Entries
      BY <1>13
    <3>3. Got(x)[i].from \in Nodes
      BY <3>2 DEF Entries
    <3>4. PICK y \in Nodes : y = Got(x)[i].from
      BY <3>3
    <3>. QED
      BY <1>4, <3>1, <3>4
  <2>. QED
    BY <1>13, <2>1 DEF GotInv
<1>15. ASSUME NEW d \in Conns, NEW x \in conns'[d].open
       PROVE  Newer(x, Other(d, x), conns[d].inbox[x])'
  <2>1. /\ x \in conns[d].open /\ Other(d, x)' = Other(d, x)
        /\ IsConnection(conns[d]) /\ x \in {conns[d].from, conns[d].to}
        /\ Other(d, x) \in Nodes /\ x \in Nodes
    <3>1. x \in conns[d].open /\ Other(d, x)' = Other(d, x)
      BY <1>8, <1>9 DEF Same, Other
    <3>. QED
      BY <3>1, OpenIs DEF Other, Safe, EndsInv
  <2>. DEFINE q == conns[d].inbox[x]
  <2>2. Newer(x, Other(d, x), q) /\ q \in Seq(Messages)
    BY <2>1, InboxIs DEF Safe, EndsInv, OrderInv, UnreadInv
  <2>. HIDE DEF q
  <2>3. CASE conns'[d].inbox[x] = q
    <3>1. ASSUME NEW i \in 1 .. Len(q), IsData(q, i)
          PROVE  /\ q[i].from = Other(d, x) /\ q[i].no \in 1 .. sent'[Other(d, x)][x]
                 /\ \A k \in 1 .. Len(Got(x)) :
                      Got(x)[k].from = Other(d, x) => Got(x)[k].no < q[i].no
      <4>1. PICK y \in Nodes : y = Other(d, x)
        BY <2>1
      <4>2. /\ q[i].from = y /\ q[i].no \in 1 .. sent[y][x]
            /\ \A k \in 1 .. Len(Got(x)) : Got(x)[k].from = y => Got(x)[k].no < q[i].no
        BY <2>2, <3>1, <4>1 DEF Newer
      <4>. QED
        BY <1>4, <2>1, <4>1, <4>2
    <3>2. \A i, j \in 1 .. Len(q) :
            IsData(q, i) /\ IsData(q, j) /\ i < j => q[i].no < q[j].no
      BY <2>2 DEF Newer
    <3>. QED
      BY <1>13, <2>1, <2>3, <3>1, <3>2 DEF Newer, IsData
  <2>4. CASE conns'[d].inbox[x] # q
    <3>1. d = c
      BY <1>9, <2>4 DEF q
    <3>2. x = m
      BY <1>3, <1>8, <1>9, <2>1, <2>4, <3>1 DEF q
    <3>3. conns'[d].inbox[x] = Append(q, msg) /\ Other(d, x) = n
      BY <1>3, <1>8, <1>9, <2>4, <3>1, <3>2 DEF q, Other
    <3>. DEFINE r == Append(q, msg)
    <3>4. /\ Len(r) = Len(q) + 1 /\ r[Len(q) + 1] = msg /\ Len(q) \in Nat
          /\ \A i \in 1 .. Len(q) : r[i] = q[i]
      BY <1>6, <2>2, AppendProperties
    <3>. HIDE DEF r
    <3>5. ASSUME NEW k \in 1 .. Len(Got(m)), Got(m)[k].from = n
          PROVE  Got(m)[k].no \in 1 .. sent[n][m]
      BY <3>5 DEF Safe, OrderInv, GotInv
    <3>6. ASSUME NEW i \in 1 .. Len(q), IsData(q, i)
          PROVE  /\ q[i].from = n /\ q[i].no \in 1 .. sent[n][m]
                 /\ \A k \in 1 .. Len(Got(m)) : Got(m)[k].from = n => Got(m)[k].no < q[i].no
      BY <2>2, <3>2, <3>3, <3>6 DEF Newer
    <3>7. ASSUME NEW i \in 1 .. Len(r), IsData(r, i)
          PROVE  /\ r[i].from = n /\ r[i].no \in 1 .. sent'[n][m]
                 /\ \A k \in 1 .. Len(Got(m)) : Got(m)[k].from = n => Got(m)[k].no < r[i].no
      <4>1. CASE i = Len(q) + 1
        BY <1>4, <1>6, <3>4, <3>5, <4>1
      <4>2. CASE i \in 1 .. Len(q)
        <5>1. IsData(q, i) /\ r[i] = q[i]
          BY <3>4, <3>7, <4>2 DEF IsData
        <5>. QED
          BY <1>4, <3>6, <4>2, <5>1
      <4>. QED
        BY <3>4, <4>1, <4>2
    <3>8. ASSUME NEW i \in 1 .. Len(r), NEW j \in 1 .. Len(r),
                 IsData(r, i), IsData(r, j), i < j
          PROVE  r[i].no < r[j].no
      <4>1. i \in 1 .. Len(q) /\ r[i] = q[i] /\ IsData(q, i)
        BY <3>4, <3>8 DEF IsData
      <4>2. CASE j = Len(q) + 1
        BY <1>4, <1>6, <3>4, <3>6, <4>1, <4>2
      <4>3. CASE j \in 1 .. Len(q)
        <5>1. IsData(q, j) /\ r[j] = q[j]
          BY <3>4, <3>8, <4>3 DEF IsData
        <5>. QED
          BY <2>2, <3>8, <4>1, <4>3, <5>1 DEF Newer
      <4>. QED
        BY <3>4, <4>2, <4>3
    <3>9. Other(d, x)' = n /\ conns'[d].inbox[x] = r /\ Got(m)' = Got(m)
      BY <1>13, <2>1, <3>3 DEF r
    <3>. QED
      BY <3>2, <3>7, <3>8, <3>9 DEF Newer, IsData
  <2>. QED
    BY <2>3, <2>4
<1>16. OrderInv'
  BY <1>14, <1>15 DEF OrderInv, UnreadInv
<1>. QED
  BY <1>12, <1>16 DEF Safe

----------------------------------------------------------------------------
(* The actions that close ends.                                             *)

LEMMA ShutSafe ==
  ASSUME Safe, TypeOK', NEW n \in Nodes, NEW S \in SUBSET Conns, Shuts(n, S), sent' = sent,
         \A x \in Nodes : \A k \in 1 .. Len(Got(x)') :
           k \in 1 .. Len(Got(x)) /\ Got(x)'[k] = Got(x)[k]
  PROVE  Safe'
<1>1. EndsInv'
  BY ShutStep DEF Safe
<1>2. ASSUME NEW c \in Conns, NEW x \in conns'[c].open PROVE Older(c, x)
  <2>1. CASE c \notin S
    <3>1. conns'[c] = conns[c]
      BY <2>1 DEF Shuts
    <3>. QED
      BY <3>1, Untouched DEF Safe, EndsInv
  <2>2. CASE c \in S
    <3>1. n \in conns[c].open /\ conns'[c] = Closed(conns[c], n)
      BY <2>2 DEF Shuts
    <3>2. IsConnection(conns[c])
      BY <3>1, OpenIs DEF Safe, EndsInv
    <3>3. PICK l : l = conns'[c]
      OBVIOUS
    <3>4. \/ l = Free /\ conns[c].open = {n}
          \/ /\ IsConnection(l) /\ Same(conns[c], l) /\ l.open = conns[c].open \ {n}
             /\ l.accepted = (conns[c].accepted \/ n = conns[c].to)
             /\ l.inbox[n] = <<>>
             /\ \A y \in {conns[c].from, conns[c].to} \ {n} : l.inbox[y] = conns[c].inbox[y]
      BY <3>1, <3>2, <3>3, ClosedIs
    <3>5. l # Free
      BY <3>3, FreeIs
    <3>6. x \in {conns[c].from, conns[c].to} \ {n} /\ x \in conns[c].open
      BY <3>2, <3>3, <3>4, <3>5 DEF IsConnection
    <3>. QED
      BY <3>3, <3>4, <3>5, <3>6, Untouched DEF Same, Safe, EndsInv
  <2>. QED
    BY <2>1, <2>2
<1>3. OrderInv'
  BY <1>2, OlderStep DEF Safe, EndsInv
<1>. QED
  BY <1>1, <1>3 DEF Safe

\* A closed connection is one or is free.
LEMMA ClosedTyped ==
  ASSUME TypeOK, NEW c \in Conns, NEW n \in conns[c].open,
         conns' = [conns EXCEPT ![c] = Closed(conns[c], n)]
  PROVE  /\ DOMAIN conns' = Conns
         /\ \A d \in Conns : conns'[d] = Free \/ IsConnection(conns'[d])
         /\ conns'[c] = Closed(conns[c], n)
         /\ \A d \in Conns \ {c} : conns'[d] = conns[d]
<1>1. IsConnection(conns[c])
  BY OpenIs
<1>2. PICK l : l = Closed(conns[c], n)
  OBVIOUS
<1>3. l = Free \/ IsConnection(l)
  BY <1>1, <1>2, ClosedIs
<1>. QED
  BY <1>2, <1>3, ConnsTyped

\* Close of the connection with m, by a thread that now waits for nobody.
LEMMA CloseShuts ==
  ASSUME EndsInv, NEW n \in Nodes, NEW m \in Nodes, NEW c \in Conns,
         c = socket[n][m], Taken(n, c), Other(c, n) = m, Close(n, m),
         Waits(n) => at[n].conn = c, ~Waits(n)',
         UNCHANGED <<up, running>>, up[n],
         \A x \in Nodes \ {n} : at'[x] = at[x]
  PROVE  /\ Shuts(n, {c})
         /\ socket' \in [Nodes -> [Nodes -> Conns \cup {None}]]
         /\ is_active' \in [Nodes -> SUBSET Nodes]
         /\ DOMAIN conns' = Conns
         /\ \A d \in Conns : conns'[d] = Free \/ IsConnection(conns'[d])
<1>1. n \in conns[c].open
  BY DEF Taken
<1>2. /\ DOMAIN conns' = Conns
      /\ \A d \in Conns : conns'[d] = Free \/ IsConnection(conns'[d])
      /\ conns'[c] = Closed(conns[c], n)
      /\ \A d \in Conns \ {c} : conns'[d] = conns[d]
  BY <1>1, ClosedTyped DEF Close, EndsInv
<1>3. /\ socket' \in [Nodes -> [Nodes -> Conns \cup {None}]]
      /\ is_active' \in [Nodes -> SUBSET Nodes]
      /\ \A x \in Nodes \ {n} : socket'[x] = socket[x] /\ is_active'[x] = is_active[x]
      /\ is_active'[n] = is_active[n] \ {m}
      /\ \A y \in Nodes \ {m} : socket'[n][y] = socket[n][y]
  BY DEF Close, EndsInv, TypeOK
<1>4. ASSUME NEW d \in Conns \ {c}, Taken(n, d) PROVE Other(d, n) \in Nodes \ {m}
  BY <1>4, OpenIs DEF EndsInv, HeldInv, Taken, Other
<1>5. ASSUME NEW y \in is_active'[n]
      PROVE  y \in is_active[n] /\ socket'[n][y] = socket[n][y] /\ socket[n][y] # c
  <2>1. y \in is_active[n] /\ y # m /\ y \in Nodes
    BY <1>3
  <2>2. Other(socket[n][y], n) = y
    BY <2>1 DEF EndsInv, ActiveInv
  <2>. QED
    BY <1>3, <2>1, <2>2
<1>. QED
  BY <1>1, <1>2, <1>3, <1>4, <1>5 DEF Shuts

LEMMA ReadClosesSafe == ASSUME Safe, NEW n \in Nodes, ReadCloses(n) PROVE Safe'
<1>1. PICK m \in is_active[n] :
        /\ Handles(n, m) /\ Close(n, m) /\ Handled(n, m)
        /\ UNCHANGED <<up, running, at, conn_modulus, peers, try_conn, dataVars>>
  BY DEF ReadCloses
<1>2. PICK c : c = socket[n][m]
  OBVIOUS
<1>3. /\ c \in Conns /\ m \in Nodes /\ Taken(n, c) /\ Other(c, n) = m
  BY <1>2, ActiveIs DEF Safe
<1>4. running[n] /\ ~Waits(n) /\ up[n] /\ ~Waits(n)'
  BY <1>1 DEF Handles, Waits, Safe, EndsInv, UpInv
<1>5. /\ Shuts(n, {c})
      /\ socket' \in [Nodes -> [Nodes -> Conns \cup {None}]]
      /\ is_active' \in [Nodes -> SUBSET Nodes]
      /\ DOMAIN conns' = Conns
      /\ \A d \in Conns : conns'[d] = Free \/ IsConnection(conns'[d])
  BY <1>1, <1>2, <1>3, <1>4, CloseShuts DEF Safe
<1>6. todo' \in [Nodes -> SUBSET Nodes]
  BY <1>1 DEF Handled, Safe, EndsInv, TypeOK
<1>7. TypeOK'
  BY <1>1, <1>5, <1>6 DEF Safe, EndsInv, TypeOK, dataVars
<1>8. \A x \in Nodes : Got(x)' = Got(x)
  BY <1>1 DEF Got, dataVars
<1>. QED
  BY <1>1, <1>3, <1>5, <1>7, <1>8, ShutSafe DEF dataVars

LEMMA GiveUpSafe == ASSUME Safe, NEW n \in Nodes, GiveUp(n) PROVE Safe'
<1>1. PICK m, c : m = at[n].peer /\ c = at[n].conn
  OBVIOUS
<1>2. /\ Waits(n) /\ Close(n, m)
      /\ Continue(n, IF at[n].step = "reply" THEN "select" ELSE "events")
      /\ UNCHANGED <<up, running, todo, conn_modulus, peers, try_conn, dataVars>>
  BY <1>1 DEF GiveUp, Waits
<1>3. /\ c \in Conns /\ m \in Nodes /\ Taken(n, c) /\ Other(c, n) = m /\ socket[n][m] = c
      /\ running[n] /\ up[n]
  BY <1>1, <1>2 DEF Safe, EndsInv, WaitInv, UpInv
<1>4. PICK step \in {"select", "events"} : at' = [at EXCEPT ![n] = Idle(step)]
  BY <1>2 DEF Continue
<1>5. step \in Steps /\ Idle(step) \in Places /\ Idle(step).step = step
  BY IdleIs DEF Steps
<1>6. /\ at' \in [Nodes -> Places] /\ at'[n] = Idle(step)
      /\ \A x \in Nodes \ {n} : at'[x] = at[x]
  BY <1>4, <1>5 DEF Safe, EndsInv, TypeOK, Places
<1>7. ~Waits(n)'
  BY <1>5, <1>6 DEF Waits
<1>8. /\ Shuts(n, {c})
      /\ socket' \in [Nodes -> [Nodes -> Conns \cup {None}]]
      /\ is_active' \in [Nodes -> SUBSET Nodes]
      /\ DOMAIN conns' = Conns
      /\ \A d \in Conns : conns'[d] = Free \/ IsConnection(conns'[d])
  BY <1>1, <1>2, <1>3, <1>6, <1>7, CloseShuts DEF Safe
<1>9. TypeOK'
  BY <1>2, <1>6, <1>8 DEF Safe, EndsInv, TypeOK, Places, dataVars
<1>10. \A x \in Nodes : Got(x)' = Got(x)
  BY <1>2 DEF Got, dataVars
<1>. QED
  BY <1>2, <1>3, <1>8, <1>9, <1>10, ShutSafe DEF dataVars

LEMMA Prefix ==
  ASSUME NEW s \in Seq(Entries), NEW t \in Seq(Entries), NEW i \in 1 .. Len(s)
  PROVE  i \in 1 .. Len(s \o t) /\ (s \o t)[i] = s[i]
<1>1. Len(s) \in Nat /\ Len(t) \in Nat
  OBVIOUS
<1>2. /\ Len(s \o t) = Len(s) + Len(t)
      /\ \A k \in 1 .. Len(s) + Len(t) :
           (s \o t)[k] = IF k <= Len(s) THEN s[k] ELSE t[k - Len(s)]
  BY ConcatProperties
<1>3. i \in 1 .. Len(s) + Len(t) /\ i <= Len(s)
  BY <1>1
<1>. QED
  BY <1>2, <1>3

LEMMA CrashSafe == ASSUME Safe, NEW n \in Nodes, Crash(n) PROVE Safe'
<1>. DEFINE S == {c \in Conns : n \in conns[c].open}
<1>1. /\ ThreadEnds(n) /\ up' = [up EXCEPT ![n] = FALSE]
      /\ conns' = [c \in Conns |->
                     IF n \in conns[c].open THEN Closed(conns[c], n) ELSE conns[c]]
      /\ socket' = [socket EXCEPT ![n] = [m \in Nodes |-> None]]
      /\ is_active' = [is_active EXCEPT ![n] = {}]
      /\ msg_queue' = [msg_queue EXCEPT ![n] = <<>>]
      /\ UNCHANGED <<peers, sent, received>>
  BY DEF Crash
<1>2. Idle("select") \in Places /\ Idle("select").step = "select"
  BY IdleIs DEF Steps
<1>3. /\ at' = [at EXCEPT ![n] = Idle("select")] /\ todo' = [todo EXCEPT ![n] = {}]
      /\ running' = [running EXCEPT ![n] = FALSE]
  BY <1>1 DEF ThreadEnds, Continue
<1>4. /\ at' \in [Nodes -> Places] /\ at'[n] = Idle("select")
      /\ up' \in [Nodes -> BOOLEAN] /\ running' \in [Nodes -> BOOLEAN]
      /\ ~up'[n] /\ ~running'[n]
      /\ socket' \in [Nodes -> [Nodes -> Conns \cup {None}]]
      /\ is_active' \in [Nodes -> SUBSET Nodes] /\ is_active'[n] = {}
      /\ todo' \in [Nodes -> SUBSET Nodes]
      /\ msg_queue' \in [Nodes -> Seq(Entries)] /\ msg_queue'[n] = <<>>
  <2>1. at \in [Nodes -> Places]
    BY DEF Safe, EndsInv, TypeOK, Places
  <2>2. at' \in [Nodes -> Places] /\ at'[n] = Idle("select")
    BY <1>2, <1>3, <2>1
  <2>. QED
    BY <1>1, <1>3, <2>2 DEF Safe, EndsInv, TypeOK
<1>5. \A x \in Nodes \ {n} :
        /\ at'[x] = at[x] /\ running'[x] = running[x] /\ up'[x] = up[x]
        /\ socket'[x] = socket[x] /\ is_active'[x] = is_active[x]
        /\ msg_queue'[x] = msg_queue[x]
  BY <1>1, <1>3 DEF Safe, EndsInv, TypeOK
<1>6. /\ DOMAIN conns' = Conns
      /\ \A c \in Conns : conns'[c] = Free \/ IsConnection(conns'[c])
  <2>1. ASSUME NEW c \in Conns PROVE conns'[c] = Free \/ IsConnection(conns'[c])
    <3>1. CASE n \in conns[c].open
      <4>1. IsConnection(conns[c])
        BY <3>1, OpenIs DEF Safe, EndsInv
      <4>2. PICK l : l = Closed(conns[c], n)
        OBVIOUS
      <4>3. l = Free \/ IsConnection(l)
        BY <3>1, <4>1, <4>2, ClosedIs
      <4>. QED
        BY <1>1, <3>1, <4>2, <4>3
    <3>2. CASE n \notin conns[c].open
      BY <1>1, <3>2 DEF Safe, EndsInv, TypeOK
    <3>. QED
      BY <3>1, <3>2
  <2>. QED
    BY <1>1, <2>1
<1>7. TypeOK'
  BY <1>1, <1>4, <1>6 DEF Safe, EndsInv, TypeOK, Places
<1>8. Shuts(n, S)
  <2>1. ~Waits(n)'
    BY <1>2, <1>4 DEF Waits
  <2>2. \A c \in Conns :
          IF c \in S THEN n \in conns[c].open /\ conns'[c] = Closed(conns[c], n)
                     ELSE conns'[c] = conns[c]
    BY <1>1
  <2>3. \A c \in Conns \ S : n \notin conns[c].open /\ ~Taken(n, c)
    BY DEF Taken
  <2>. HIDE DEF S
  <2>. QED
    BY <1>2, <1>4, <1>5, <2>1, <2>2, <2>3 DEF Shuts
<1>9. ASSUME NEW x \in Nodes, NEW k \in 1 .. Len(Got(x)')
      PROVE  k \in 1 .. Len(Got(x)) /\ Got(x)'[k] = Got(x)[k]
  <2>1. CASE x = n
    <3>1. received[n] \in Seq(Entries) /\ msg_queue[n] \in Seq(Entries)
      BY DEF Safe, EndsInv, TypeOK
    <3>2. Got(n)' = received[n]
      BY <1>1, <1>4, <3>1, ConcatEmptySeq DEF Got
    <3>4. ASSUME NEW i \in 1 .. Len(received[n])
          PROVE  i \in 1 .. Len(Got(n)) /\ Got(n)[i] = received[n][i]
      BY <3>1, Prefix DEF Got
    <3>. QED
      BY <2>1, <3>2, <3>4
  <2>2. CASE x # n
    BY <1>1, <1>5, <2>2 DEF Got
  <2>. QED
    BY <2>1, <2>2
<1>. QED
  BY <1>1, <1>7, <1>8, <1>9, ShutSafe

LEMMA RestartSafe == ASSUME Safe, NEW n \in Nodes, Restart(n) PROVE Safe'
<1>1. /\ ~up[n] /\ up' = [up EXCEPT ![n] = TRUE] /\ running' = [running EXCEPT ![n] = TRUE]
      /\ peers' = [peers EXCEPT ![n] = Nodes \ {n}]
      /\ UNCHANGED <<at, todo, socket, is_active, conns, sent, msg_queue, received>>
  BY DEF Restart, endVars, dataVars
<1>2. TypeOK'
  BY <1>1 DEF Safe, EndsInv, TypeOK
<1>3. /\ is_active[n] = {} /\ ~Waits(n) /\ \A c \in Conns : n \notin conns[c].open
      /\ \A c \in Conns : ~Taken(n, c)
  BY <1>1 DEF Safe, EndsInv, UpInv, Waits, Taken
<1>4. \A x \in Nodes \ {n} : running'[x] = running[x] /\ up'[x] = up[x]
  BY <1>1 DEF Safe, EndsInv, TypeOK
<1>5. up'[n] /\ running'[n]
  BY <1>1 DEF Safe, EndsInv, TypeOK
<1>6. HeldInv'
  <2>. SUFFICES ASSUME NEW c \in Conns, NEW x \in Nodes, Taken(x, c)
                PROVE  /\ socket[x][Other(c, x)] = c
                       /\ \/ Other(c, x) \in is_active[x]
                          \/ Waits(x) /\ at[x].peer = Other(c, x) /\ at[x].conn = c
                          \/ ~running'[x]
    BY <1>1 DEF HeldInv, Taken, Other, Waits
  <2>. QED
    BY <1>3, <1>4 DEF Safe, EndsInv, HeldInv
<1>7. WaitInv'
  <2>. SUFFICES ASSUME NEW x \in Nodes, Waits(x)
                PROVE  /\ running'[x] /\ at[x].conn \in Conns /\ at[x].peer \in Nodes
                       /\ Taken(x, at[x].conn) /\ Other(at[x].conn, x) = at[x].peer
                       /\ socket[x][at[x].peer] = at[x].conn
                       /\ at[x].step = "reply" <=> x = conns[at[x].conn].from
                       /\ at[x].peer \notin is_active[x]
    BY <1>1 DEF WaitInv, Taken, Other, Waits
  <2>. QED
    BY <1>3, <1>4 DEF Safe, EndsInv, WaitInv
<1>8. ActiveInv'
  BY <1>1 DEF Safe, EndsInv, ActiveInv, Taken, Other
<1>9. UpInv'
  BY <1>1, <1>4, <1>5 DEF Safe, EndsInv, UpInv
<1>10. PendingInv' /\ CrossInv'
  BY <1>1 DEF Safe, EndsInv, PendingInv, CrossInv, Answered, Acked, Live
<1>11. EndsInv'
  BY <1>2, <1>6, <1>7, <1>8, <1>9, <1>10 DEF EndsInv
<1>12. OrderInv'
  <2>1. ASSUME NEW c \in Conns, NEW x \in conns'[c].open PROVE Older(c, x)
    BY <1>1, Untouched DEF Safe, EndsInv
  <2>2. \A x \in Nodes : Got(x)' = Got(x)
    BY <1>1 DEF Got
  <2>. QED
    BY <1>1, <1>2, <2>1, <2>2, OlderStep DEF Safe, EndsInv
<1>. QED
  BY <1>11, <1>12 DEF Safe

----------------------------------------------------------------------------
(* The actions of dialling and accepting.                                   *)

LEMMA AnswerSafe ==
  ASSUME Safe, TypeOK', NEW n \in Nodes, NEW c \in Conns, NEW m \in Nodes,
         Answers(n, c, m), UNCHANGED <<sent, received, msg_queue>>,
         \A x \in {n, m} : Leftover(conns[c].inbox[x], conns'[c].inbox[x]),
         {conns[c].from, conns[c].to} = {n, m}
  PROVE  Safe'
<1>1. EndsInv'
  BY AnswerStep DEF Safe
<1>2. ASSUME NEW d \in Conns, NEW x \in conns'[d].open PROVE Older(d, x)
  <2>1. CASE d # c
    BY <2>1, Untouched DEF Answers, Safe, EndsInv
  <2>2. CASE d = c
    <3>1. x \in conns[c].open /\ x \in {n, m}
      BY <2>2, OpenIs DEF Answers, Safe, EndsInv
    <3>. QED
      BY <2>2, <3>1 DEF Older, Answers, Same
  <2>. QED
    BY <2>1, <2>2
<1>3. \A x \in Nodes : Got(x)' = Got(x)
  BY DEF Got
<1>4. OrderInv'
  BY <1>2, <1>3, OlderStep DEF Safe, EndsInv
<1>. QED
  BY <1>1, <1>4 DEF Safe

LEMMA TakeAckSafe == ASSUME Safe, NEW n \in Nodes, TakeAck(n) PROVE Safe'
<1>1. PICK m, c : m = at[n].peer /\ c = at[n].conn
  OBVIOUS
<1>2. /\ at[n].step = "ack" /\ conns[c].inbox[n] # <<>>
      /\ conns' = [conns EXCEPT ![c] = Popped(conns[c], n)]
      /\ is_active' = [is_active EXCEPT ![n] = @ \cup {m}]
      /\ at' = [at EXCEPT ![n] = Idle("events")]
      /\ UNCHANGED <<up, running, todo, peers, socket, sent, received, msg_queue>>
  BY <1>1 DEF TakeAck, ConnectAccept, Continue, dataVars
<1>3. /\ Waits(n) /\ c \in Conns /\ m \in Nodes /\ n \in conns[c].open
      /\ Other(c, n) = m
  BY <1>1, <1>2 DEF Waits, Safe, EndsInv, WaitInv, Taken
<1>4. /\ IsConnection(conns[c]) /\ {conns[c].from, conns[c].to} = {n, m} /\ n # m
      /\ conns[c].inbox[n] \in Seq(Messages) /\ conns[c].inbox[m] \in Seq(Messages)
  <2>1. /\ IsConnection(conns[c]) /\ n \in {conns[c].from, conns[c].to}
        /\ conns[c].from < conns[c].to /\ conns[c].from \in Nat /\ conns[c].to \in Nat
    BY <1>3, OpenIs DEF Safe, EndsInv
  <2>2. {conns[c].from, conns[c].to} = {n, m} /\ n # m
    BY <1>3, <2>1 DEF Other
  <2>. QED
    BY <2>1, <2>2 DEF IsConnection
<1>5. PICK l : l = Popped(conns[c], n)
  OBVIOUS
<1>6. /\ IsConnection(l) /\ Same(conns[c], l) /\ l.open = conns[c].open
      /\ l.accepted = conns[c].accepted
      /\ l.inbox[n] = Tail(conns[c].inbox[n])
      /\ \A x \in {conns[c].from, conns[c].to} \ {n} : l.inbox[x] = conns[c].inbox[x]
  BY <1>2, <1>3, <1>4, <1>5, PoppedIs
<1>7. /\ DOMAIN conns' = Conns /\ conns'[c] = l
      /\ \A d \in Conns : conns'[d] = Free \/ IsConnection(conns'[d])
      /\ \A d \in Conns \ {c} : conns'[d] = conns[d]
  BY <1>2, <1>3, <1>5, <1>6, ConnsTyped DEF Safe, EndsInv
<1>8. Idle("events") \in Places /\ Idle("events").step = "events"
  BY IdleIs DEF Steps
<1>9. /\ at' \in [Nodes -> Places] /\ at'[n] = Idle("events")
      /\ \A x \in Nodes \ {n} : at'[x] = at[x]
  BY <1>2, <1>8 DEF Safe, EndsInv, TypeOK, Places
<1>10. /\ is_active' \in [Nodes -> SUBSET Nodes]
       /\ is_active'[n] = is_active[n] \cup {m}
       /\ \A x \in Nodes \ {n} : is_active'[x] = is_active[x]
  BY <1>2, <1>3 DEF Safe, EndsInv, TypeOK
<1>11. TypeOK'
  BY <1>2, <1>7, <1>9, <1>10 DEF Safe, EndsInv, TypeOK, Places
<1>12. conns'[c].inbox[m] = conns[c].inbox[m]
  BY <1>4, <1>6, <1>7
<1>13. Answers(n, c, m)
  <2>1. ~Waits(n)'
    BY <1>8, <1>9 DEF Waits
  <2>. QED
    BY <1>1, <1>2, <1>3, <1>6, <1>7, <1>9, <1>10, <1>12, <2>1 DEF Answers
<1>14. \A x \in {n, m} : Leftover(conns[c].inbox[x], conns'[c].inbox[x])
  <2>1. Leftover(conns[c].inbox[m], conns'[c].inbox[m])
    BY <1>4, <1>12, LeftoverIs
  <2>2. Tail(conns[c].inbox[n]) \in Seq(Messages)
    BY <1>2, <1>4
  <2>3. Leftover(conns[c].inbox[n], conns'[c].inbox[n])
    BY <1>2, <1>4, <1>6, <1>7, <2>2, LeftoverIs
  <2>. QED
    BY <2>1, <2>3
<1>. QED
  BY <1>2, <1>3, <1>4, <1>11, <1>13, <1>14, AnswerSafe

LEMMA TakeReplySafe == ASSUME Safe, NEW n \in Nodes, TakeReply(n) PROVE Safe'
<1>1. PICK m, c : m = at[n].peer /\ c = at[n].conn
  OBVIOUS
<1>2. /\ at[n].step = "reply" /\ conns[c].inbox[n] # <<>>
      /\ conns' = [conns EXCEPT ![c] = Pushed(Popped(conns[c], n), n, Ack)]
      /\ \/ ConnectAccept(n, m) /\ Continue(n, "select") /\ UNCHANGED <<running, todo>>
         \/ ThreadEnds(n) /\ UNCHANGED is_active
      /\ UNCHANGED <<up, peers, socket, sent, received, msg_queue>>
  BY <1>1 DEF TakeReply, dataVars
<1>3. /\ Waits(n) /\ c \in Conns /\ m \in Nodes /\ n \in conns[c].open
      /\ Other(c, n) = m
  BY <1>1, <1>2 DEF Waits, Safe, EndsInv, WaitInv, Taken
<1>4. /\ IsConnection(conns[c]) /\ {conns[c].from, conns[c].to} = {n, m} /\ n # m
      /\ conns[c].inbox[n] \in Seq(Messages) /\ conns[c].inbox[m] \in Seq(Messages)
  <2>1. /\ IsConnection(conns[c]) /\ n \in {conns[c].from, conns[c].to}
        /\ conns[c].from < conns[c].to /\ conns[c].from \in Nat /\ conns[c].to \in Nat
    BY <1>3, OpenIs DEF Safe, EndsInv
  <2>2. {conns[c].from, conns[c].to} = {n, m} /\ n # m
    BY <1>3, <2>1 DEF Other
  <2>. QED
    BY <2>1, <2>2 DEF IsConnection
<1>5. PICK k : k = Popped(conns[c], n)
  OBVIOUS
<1>6. /\ IsConnection(k) /\ Same(conns[c], k) /\ k.open = conns[c].open
      /\ k.accepted = conns[c].accepted
      /\ k.inbox[n] = Tail(conns[c].inbox[n])
      /\ \A x \in {conns[c].from, conns[c].to} \ {n} : k.inbox[x] = conns[c].inbox[x]
  BY <1>2, <1>3, <1>4, <1>5, PoppedIs
<1>7. Ack \in Messages /\ Ack.type # "DATA"
  BY DEF Messages, Ack
<1>8. PICK l : l = Pushed(k, n, Ack)
  OBVIOUS
<1>9. /\ IsConnection(l) /\ Same(k, l) /\ l.open = k.open
      /\ l.accepted = k.accepted
      /\ l.inbox[n] = k.inbox[n]
      /\ \A x \in {k.from, k.to} \ {n} :
           l.inbox[x] \in {k.inbox[x], Longer(k.inbox[x], Ack)}
  <2>1. n \in k.open /\ Ack \in Messages /\ IsConnection(k)
    BY <1>3, <1>6, <1>7
  <2>. QED
    BY <1>8, <2>1, PushedIs
<1>10. /\ Same(conns[c], l) /\ l.open = conns[c].open /\ l.accepted = conns[c].accepted
       /\ l.inbox[n] = Tail(conns[c].inbox[n])
       /\ l.inbox[m] \in {conns[c].inbox[m], Append(conns[c].inbox[m], Ack)}
  BY <1>4, <1>6, <1>9 DEF Same, Longer
<1>11. /\ DOMAIN conns' = Conns /\ conns'[c] = l
       /\ \A d \in Conns : conns'[d] = Free \/ IsConnection(conns'[d])
       /\ \A d \in Conns \ {c} : conns'[d] = conns[d]
  <2>1. conns' = [conns EXCEPT ![c] = l]
    BY <1>2, <1>5, <1>8
  <2>. QED
    BY <1>3, <1>9, <2>1, ConnsTyped DEF Safe, EndsInv
<1>12. Idle("select") \in Places /\ Idle("select").step = "select"
  BY IdleIs DEF Steps
<1>13. /\ at' \in [Nodes -> Places] /\ at'[n] = Idle("select")
       /\ \A x \in Nodes \ {n} : at'[x] = at[x]
  <2>1. at' = [at EXCEPT ![n] = Idle("select")]
    BY <1>2 DEF ThreadEnds, Continue
  <2>. QED
    BY <1>12, <2>1 DEF Safe, EndsInv, TypeOK, Places
<1>14. /\ is_active' \in [Nodes -> SUBSET Nodes] /\ running' \in [Nodes -> BOOLEAN]
       /\ todo' \in [Nodes -> SUBSET Nodes]
       /\ \/ is_active'[n] = is_active[n] \cup {m} /\ running'[n] = running[n]
          \/ is_active'[n] = is_active[n] /\ ~running'[n]
       /\ \A x \in Nodes \ {n} : is_active'[x] = is_active[x] /\ running'[x] = running[x]
  <2>1. CASE ConnectAccept(n, m) /\ UNCHANGED <<running, todo>>
    BY <1>3, <2>1 DEF ConnectAccept, Safe, EndsInv, TypeOK
  <2>2. CASE ThreadEnds(n) /\ UNCHANGED is_active
    BY <2>2 DEF ThreadEnds, Safe, EndsInv, TypeOK
  <2>. QED
    BY <1>2, <2>1, <2>2
<1>15. TypeOK'
  BY <1>2, <1>11, <1>13, <1>14 DEF Safe, EndsInv, TypeOK, Places
<1>16. Answers(n, c, m)
  <2>1. ~Waits(n)'
    BY <1>12, <1>13 DEF Waits
  <2>. QED
    BY <1>1, <1>2, <1>3, <1>9, <1>10, <1>11, <1>13, <1>14, <2>1 DEF Answers
<1>17. \A x \in {n, m} : Leftover(conns[c].inbox[x], conns'[c].inbox[x])
  <2>1. l.inbox[m] \in Seq(Messages) /\ l.inbox[n] \in Seq(Messages)
    BY <1>4, <1>9, <1>10 DEF IsConnection, Same
  <2>2. Leftover(conns[c].inbox[m], l.inbox[m])
    BY <1>4, <1>7, <1>10, <2>1, LeftoverIs
  <2>3. Leftover(conns[c].inbox[n], l.inbox[n])
    BY <1>2, <1>4, <1>10, <2>1, LeftoverIs
  <2>. QED
    BY <1>11, <2>2, <2>3
<1>. QED
  BY <1>2, <1>3, <1>4, <1>15, <1>16, <1>17, AnswerSafe

LEMMA PendingIs ==
  ASSUME EndsInv, NEW n \in Nodes, NEW c \in Backlog(n)
  PROVE  /\ c \in Conns /\ n \in conns[c].open /\ ~conns[c].accepted /\ ~Taken(n, c)
         /\ IsConnection(conns[c]) /\ conns[c].to = n
         /\ conns[c].from \in Nodes /\ conns[c].from # n
         /\ conns[c].inbox[n] \in {<<>>, <<Request>>}
         /\ conns[c].inbox[conns[c].from] = <<>>
<1>1. c \in Conns /\ ~conns[c].accepted /\ conns[c].to = n /\ n \in conns[c].open
  BY DEF Backlog
<1>2. IsConnection(conns[c]) /\ conns[c].from \in Nodes /\ conns[c].from # n
  BY <1>1, OpenIs DEF EndsInv
<1>. QED
  BY <1>1, <1>2 DEF EndsInv, PendingInv, Taken

\* Closing what was never taken.
LEMMA PendingShuts ==
  ASSUME EndsInv, NEW n \in Nodes, NEW c \in Backlog(n), running[n], ~Waits(n),
         conns' = [conns EXCEPT ![c] = Closed(@, n)],
         \/ at' = at /\ running' = running
         \/ at' = [at EXCEPT ![n] = Idle("select")]
            /\ running' = [running EXCEPT ![n] = FALSE],
         UNCHANGED <<up, socket, is_active>>
  PROVE  /\ Shuts(n, {c}) /\ at' \in [Nodes -> Places] /\ running' \in [Nodes -> BOOLEAN]
         /\ DOMAIN conns' = Conns
         /\ \A d \in Conns : conns'[d] = Free \/ IsConnection(conns'[d])
<1>1. c \in Conns /\ n \in conns[c].open /\ ~Taken(n, c) /\ up[n]
  BY PendingIs DEF EndsInv, UpInv
<1>2. /\ DOMAIN conns' = Conns
      /\ \A d \in Conns : conns'[d] = Free \/ IsConnection(conns'[d])
      /\ conns'[c] = Closed(conns[c], n)
      /\ \A d \in Conns \ {c} : conns'[d] = conns[d]
  BY <1>1, ClosedTyped DEF EndsInv
<1>3. Idle("select") \in Places /\ Idle("select").step = "select"
  BY IdleIs DEF Steps
<1>4. /\ at' \in [Nodes -> Places] /\ running' \in [Nodes -> BOOLEAN]
      /\ \A x \in Nodes \ {n} : at'[x] = at[x] /\ running'[x] = running[x]
      /\ at'[n] \in {at[n], Idle("select")}
  <2>1. at \in [Nodes -> Places] /\ running \in [Nodes -> BOOLEAN]
    BY DEF EndsInv, TypeOK, Places
  <2>. QED
    BY <1>3, <2>1
<1>5. ~Waits(n)'
  BY <1>3, <1>4 DEF Waits
<1>6. \A y \in is_active[n] : socket[n][y] # c
  BY <1>1 DEF EndsInv, ActiveInv
<1>. QED
  BY <1>1, <1>2, <1>4, <1>5, <1>6 DEF Shuts

LEMMA AcceptSafe == ASSUME Safe, NEW n \in Nodes, Accept(n) PROVE Safe'
<1>0. PICK c \in Backlog(n) : \E m \in {conns[c].from} :
        \/ /\ conns' = [conns EXCEPT ![c] = Closed(@, n)]
           /\ Handled(n, n) /\ UNCHANGED <<running, at, socket>>
        \/ /\ conns' = [conns EXCEPT ![c] = Closed(@, n)]
           /\ ThreadEnds(n) /\ UNCHANGED socket
        \/ /\ conns[c].inbox[n] # <<>> /\ m \notin is_active[n]
           /\ conns' = [conns EXCEPT ![c] = Pushed(Requested(conns[c], n), n, Reply)]
           /\ socket' = [socket EXCEPT ![n][m] = c]
           /\ at' = [at EXCEPT ![n] = At("ack", m, c)]
           /\ Handled(n, n) /\ UNCHANGED running
  BY DEF Accept, Refused
<1>1. PICK m \in {conns[c].from} :
        \/ /\ conns' = [conns EXCEPT ![c] = Closed(@, n)]
           /\ Handled(n, n) /\ UNCHANGED <<running, at, socket>>
        \/ /\ conns' = [conns EXCEPT ![c] = Closed(@, n)]
           /\ ThreadEnds(n) /\ UNCHANGED socket
        \/ /\ conns[c].inbox[n] # <<>> /\ m \notin is_active[n]
           /\ conns' = [conns EXCEPT ![c] = Pushed(Requested(conns[c], n), n, Reply)]
           /\ socket' = [socket EXCEPT ![n][m] = c]
           /\ at' = [at EXCEPT ![n] = At("ack", m, c)]
           /\ Handled(n, n) /\ UNCHANGED running
  BY <1>0
<1>2. /\ UNCHANGED <<up, peers, is_active, sent, msg_queue, received>>
      /\ running[n] /\ ~Waits(n)
  BY DEF Accept, Handles, Waits, dataVars
<1>3. \A x \in Nodes : Got(x)' = Got(x)
  BY <1>2 DEF Got
<1>4. /\ c \in Conns /\ n \in conns[c].open /\ ~conns[c].accepted
      /\ IsConnection(conns[c]) /\ conns[c].to = n /\ conns[c].from = m
      /\ m \in Nodes /\ m # n
      /\ conns[c].inbox[n] \in {<<>>, <<Request>>} /\ conns[c].inbox[m] = <<>>
  BY PendingIs DEF Safe
<1>5. CASE /\ conns' = [conns EXCEPT ![c] = Closed(@, n)] /\ UNCHANGED socket
           /\ \/ Handled(n, n) /\ UNCHANGED <<running, at>>
              \/ ThreadEnds(n)
  <2>1. \/ at' = at /\ running' = running
        \/ at' = [at EXCEPT ![n] = Idle("select")] /\ running' = [running EXCEPT ![n] = FALSE]
    BY <1>5 DEF ThreadEnds, Continue
  <2>2. /\ Shuts(n, {c}) /\ at' \in [Nodes -> Places] /\ running' \in [Nodes -> BOOLEAN]
        /\ DOMAIN conns' = Conns
        /\ \A d \in Conns : conns'[d] = Free \/ IsConnection(conns'[d])
    BY <1>2, <1>5, <2>1, PendingShuts DEF Safe
  <2>3. todo' \in [Nodes -> SUBSET Nodes]
    <3>1. todo \in [Nodes -> SUBSET Nodes]
      BY DEF Safe, EndsInv, TypeOK
    <3>2. todo' = [todo EXCEPT ![n] = @ \ {n}] \/ todo' = [todo EXCEPT ![n] = {}]
      BY <1>5 DEF Handled, ThreadEnds
    <3>. QED
      BY <3>1, <3>2
  <2>4. TypeOK'
    BY <1>2, <1>5, <2>2, <2>3 DEF Safe, EndsInv, TypeOK, Places
  <2>. QED
    BY <1>2, <1>3, <1>4, <2>2, <2>4, ShutSafe
<1>6. CASE /\ conns[c].inbox[n] # <<>> /\ m \notin is_active[n]
           /\ conns' = [conns EXCEPT ![c] = Pushed(Requested(conns[c], n), n, Reply)]
           /\ socket' = [socket EXCEPT ![n][m] = c]
           /\ at' = [at EXCEPT ![n] = At("ack", m, c)]
           /\ Handled(n, n) /\ UNCHANGED running
  <2>1. PICK k : k = [conns[c] EXCEPT !.accepted = TRUE]
    OBVIOUS
  <2>2. /\ IsConnection(k) /\ Same(conns[c], k) /\ k.open = conns[c].open /\ k.accepted
        /\ k.inbox = conns[c].inbox
    BY <1>4, <2>1 DEF IsConnection, Same
  <2>3. PICK l : l = Popped(k, n)
    OBVIOUS
  <2>4. /\ IsConnection(l) /\ Same(k, l) /\ l.open = k.open /\ l.accepted = k.accepted
        /\ l.inbox[n] = Tail(k.inbox[n])
        /\ \A x \in {k.from, k.to} \ {n} : l.inbox[x] = k.inbox[x]
    <3>1. IsConnection(k) /\ n \in k.open /\ k.inbox[n] # <<>>
      BY <1>4, <1>6, <2>2
    <3>. QED
      BY <2>3, <3>1, PoppedIs
  <2>5. l.inbox[n] = <<>> /\ l.inbox[m] = <<>>
    <3>1. Tail(<<Request>>) = <<>>
      OBVIOUS
    <3>2. k.inbox[n] = <<Request>> /\ k.inbox[m] = <<>> /\ m \in {k.from, k.to} \ {n}
      BY <1>4, <1>6, <2>2 DEF Same
    <3>. QED
      BY <2>4, <3>1, <3>2
  <2>6. Reply \in Messages /\ Reply.type # "DATA"
    BY DEF Messages, Reply
  <2>7. PICK o : o = Pushed(l, n, Reply)
    OBVIOUS
  <2>8. /\ IsConnection(o) /\ Same(l, o) /\ o.open = l.open /\ o.accepted = l.accepted
        /\ o.inbox[n] = l.inbox[n]
        /\ \A x \in {l.from, l.to} \ {n} : o.inbox[x] \in {l.inbox[x], Longer(l.inbox[x], Reply)}
    <3>1. n \in l.open
      BY <1>4, <2>2, <2>4
    <3>. QED
      BY <2>4, <2>6, <2>7, <3>1, PushedIs
  <2>9. /\ o.from = m /\ o.to = n /\ o.open = conns[c].open /\ o.accepted
        /\ o.inbox[n] = <<>> /\ o.inbox[m] \in {<<>>, Append(<<>>, Reply)}
    BY <1>4, <2>2, <2>4, <2>5, <2>8 DEF Same, Longer
  <2>10. /\ DOMAIN conns' = Conns /\ conns'[c] = o
         /\ \A d \in Conns : conns'[d] = Free \/ IsConnection(conns'[d])
         /\ \A d \in Conns \ {c} : conns'[d] = conns[d]
    <3>1. conns' = [conns EXCEPT ![c] = o]
      BY <1>6, <2>1, <2>3, <2>7 DEF Requested
    <3>. QED
      BY <1>4, <2>8, <3>1, ConnsTyped DEF Safe, EndsInv
  <2>11. At("ack", m, c) \in Places /\ At("ack", m, c).step = "ack"
         /\ At("ack", m, c).peer = m /\ At("ack", m, c).conn = c
    BY <1>4 DEF Places, At, Steps
  <2>12. /\ at' \in [Nodes -> Places] /\ at'[n] = At("ack", m, c)
         /\ \A x \in Nodes \ {n} : at'[x] = at[x]
    BY <1>6, <2>11 DEF Safe, EndsInv, TypeOK, Places
  <2>13. /\ socket' \in [Nodes -> [Nodes -> Conns \cup {None}]]
         /\ socket'[n] = [socket[n] EXCEPT ![m] = c]
         /\ \A x \in Nodes \ {n} : socket'[x] = socket[x]
         /\ todo' \in [Nodes -> SUBSET Nodes]
    BY <1>4, <1>6 DEF Handled, Safe, EndsInv, TypeOK
  <2>14. TypeOK'
    <3>1. TypeOK /\ UNCHANGED <<up, running, peers, is_active, sent, msg_queue, received>>
      BY <1>2, <1>6 DEF Safe, EndsInv
    <3>. QED
      BY <2>10, <2>12, <2>13, <3>1 DEF TypeOK, Places
  <2>15. Begins(n, c, m)
    <3>1. Waits(n)'
      BY <2>11, <2>12 DEF Waits
    <3>. QED
      BY <1>2, <1>4, <1>6, <2>8, <2>9, <2>10, <2>11, <2>12, <2>13, <3>1 DEF Begins, Same
  <2>16. EndsInv'
    BY <1>4, <2>14, <2>15, BeginStep DEF Safe
  <2>17. ASSUME NEW d \in Conns, NEW x \in conns'[d].open PROVE Older(d, x)
    <3>1. CASE d # c
      BY <2>10, <2>17, <3>1, Untouched DEF Safe, EndsInv
    <3>2. CASE d = c
      <4>1. x \in {n, m}
        BY <1>4, <2>9, <2>10, <2>17, <3>2, OpenIs DEF Safe, EndsInv
      <4>2. \A q \in {<<>>, Append(<<>>, Reply)} : \A i \in 1 .. Len(q) : q[i].type # "DATA"
        BY <2>6
      <4>. QED
        BY <2>9, <2>10, <3>2, <4>1, <4>2 DEF Older
    <3>. QED
      BY <3>1, <3>2
  <2>18. OrderInv'
    BY <1>2, <1>3, <2>14, <2>17, OlderStep DEF Safe, EndsInv
  <2>. QED
    BY <2>16, <2>18 DEF Safe
<1>. QED
  BY <1>1, <1>5, <1>6

LEMMA DialNextSafe == ASSUME Safe, NEW n \in Nodes, DialNext(n) PROVE Safe'
<1>1. /\ running[n] /\ at[n].step = "events" /\ ~Waits(n)
      /\ UNCHANGED <<up, running, todo, peers, is_active, sent, msg_queue, received>>
  BY DEF DialNext, Waits, dataVars
<1>2. \A x \in Nodes : Got(x)' = Got(x)
  BY <1>1 DEF Got
<1>3. CASE Continue(n, "select") /\ UNCHANGED <<socket, conns>>
  <2>1. /\ QuietThreads /\ at' \in [Nodes -> Places] /\ running' \in [Nodes -> BOOLEAN]
    BY <1>1, <1>3, ThreadGoesOn DEF Safe, Continue
  <2>2. TypeOK'
    BY <1>1, <1>3, <2>1 DEF Safe, EndsInv, TypeOK, Places
  <2>. QED
    BY <1>1, <1>2, <1>3, <2>1, <2>2, ConnsStay DEF Safe
<1>4. ASSUME NEW m \in Nodes, NEW c \in Conns, conns[c] = Free,
             m \notin is_active[n], n < m, up[m],
             conns' = [conns EXCEPT ![c] = Conn(n, m, Request)],
             socket' = [socket EXCEPT ![n][m] = c],
             at' = [at EXCEPT ![n] = At("reply", m, c)]
      PROVE  Safe'
  <2>1. PICK l : l = Conn(n, m, Request)
    OBVIOUS
  <2>2. n \in Nat /\ m \in Nat /\ n # m
    BY <1>4, ConnectionsAssumption
  <2>. DEFINE box == [x \in {n, m} |-> IF x = m THEN <<Request>> ELSE <<>>]
  <2>4. Request \in Messages /\ Request.type # "DATA"
    BY DEF Messages, Request
  <2>5. /\ box \in [{n, m} -> Seq(Messages)]
        /\ box[n] = <<>> /\ box[m] = <<Request>>
    <3>1. <<>> \in Seq(Messages) /\ <<Request>> \in Seq(Messages)
      BY <2>4
    <3>2. box \in [{n, m} -> Seq(Messages)]
      BY <3>1
    <3>. QED
      BY <2>2, <3>2
  <2>6. /\ l = [from |-> n, to |-> m, open |-> {n, m}, accepted |-> FALSE,
                cut |-> FALSE, inbox |-> box]
    BY <2>1 DEF Conn
  <2>. HIDE DEF box
  <2>7. /\ l.from = n /\ l.to = m /\ l.open = {n, m} /\ ~l.accepted /\ l.inbox = box
    BY <2>6
  <2>8. l \in [from : Nodes, to : Nodes, open : SUBSET Nodes,
               accepted : BOOLEAN, cut : BOOLEAN,
               inbox : [{n, m} -> Seq(Messages)]]
    BY <2>5, <2>6
  <2>9. IsConnection(l)
    BY <1>4, <2>5, <2>7, <2>8 DEF IsConnection
  <2>10. /\ DOMAIN conns' = Conns /\ conns'[c] = l
         /\ \A d \in Conns : conns'[d] = Free \/ IsConnection(conns'[d])
         /\ \A d \in Conns \ {c} : conns'[d] = conns[d]
    BY <1>4, <2>1, <2>9, ConnsTyped DEF Safe, EndsInv
  <2>11. At("reply", m, c) \in Places /\ At("reply", m, c).step = "reply"
         /\ At("reply", m, c).peer = m /\ At("reply", m, c).conn = c
    BY DEF Places, At, Steps
  <2>12. /\ at' \in [Nodes -> Places] /\ at'[n] = At("reply", m, c)
         /\ \A x \in Nodes \ {n} : at'[x] = at[x]
    BY <1>4, <2>11 DEF Safe, EndsInv, TypeOK, Places
  <2>13. /\ socket' \in [Nodes -> [Nodes -> Conns \cup {None}]]
         /\ socket'[n] = [socket[n] EXCEPT ![m] = c]
         /\ \A x \in Nodes \ {n} : socket'[x] = socket[x]
    BY <1>4 DEF Safe, EndsInv, TypeOK
  <2>14. TypeOK'
    BY <1>1, <2>10, <2>12, <2>13 DEF Safe, EndsInv, TypeOK, Places
  <2>15. Begins(n, c, m)
    <3>1. Waits(n)'
      BY <2>11, <2>12 DEF Waits
    <3>. QED
      BY <1>1, <1>4, <2>5, <2>7, <2>9, <2>10, <2>11, <2>12, <2>13, <3>1 DEF Begins
  <2>16. EndsInv'
    BY <2>14, <2>15, BeginStep DEF Safe
  <2>17. ASSUME NEW d \in Conns, NEW x \in conns'[d].open PROVE Older(d, x)
    <3>1. CASE d # c
      BY <2>10, <2>17, <3>1, Untouched DEF Safe, EndsInv
    <3>2. CASE d = c
      <4>1. x \in {n, m}
        BY <2>7, <2>10, <2>17, <3>2
      <4>2. \A q \in {<<>>, <<Request>>} : \A i \in 1 .. Len(q) : q[i].type # "DATA"
        BY <2>4
      <4>. QED
        BY <2>5, <2>7, <2>10, <3>2, <4>1, <4>2 DEF Older
    <3>. QED
      BY <3>1, <3>2
  <2>18. OrderInv'
    BY <1>1, <1>2, <2>14, <2>17, OlderStep DEF Safe, EndsInv
  <2>. QED
    BY <2>16, <2>18 DEF Safe
<1>5. ASSUME ~(Continue(n, "select") /\ UNCHANGED <<socket, conns>>) PROVE Safe'
  <2>1. PICK m \in Nodes :
          /\ Turn(n, m) /\ MayDial(n, m) /\ up[m] /\ \E c \in Conns : conns[c] = Free
          /\ LET c == CHOOSE x \in Conns : conns[x] = Free IN
             /\ conns' = [conns EXCEPT ![c] = Conn(n, m, Request)]
             /\ socket' = [socket EXCEPT ![n][m] = c]
             /\ at' = [at EXCEPT ![n] = At("reply", m, c)]
    BY <1>5 DEF DialNext
  <2>2. m \notin is_active[n] /\ n < m
    BY <2>1, ConnectionsAssumption DEF Turn, Unconnected, MayDial
  <2>3. PICK c : c = CHOOSE x \in Conns : conns[x] = Free
    OBVIOUS
  <2>4. c \in Conns /\ conns[c] = Free
    BY <2>1, <2>3
  <2>. QED
    BY <1>4, <2>1, <2>2, <2>3, <2>4
<1>. QED
  BY <1>3, <1>5

----------------------------------------------------------------------------
(* The theorems.                                                            *)

LEMMA NextSafe == ASSUME Safe, [Next]_vars PROVE Safe'
<1>1. ASSUME NEW n \in Nodes, ThreadStep(n) PROVE Safe'
  BY <1>1, SelectSafe, AcceptSafe, TakeAckSafe, ReadSafe, ReadClosesSafe, ReadPartSafe,
     ReadRestSafe, DialNextSafe, TakeReplySafe, GiveUpSafe DEF ThreadStep
<1>2. ASSUME NEW n \in Nodes, RecvMsg(n) \/ Crash(n) \/ Restart(n) PROVE Safe'
  BY <1>2, RecvMsgSafe, CrashSafe, RestartSafe
<1>3. ASSUME NEW n \in Nodes, NEW m \in Nodes, Send(n, m) \/ SetActiveNodes(n, m)
      PROVE  Safe'
  BY <1>3, SendSafe, SetActiveNodesSafe
<1>4. ASSUME NEW c \in Conns, Lose(c) PROVE Safe'
  BY <1>4, LoseSafe
<1>5. CASE UNCHANGED vars
  <2>1. UNCHANGED <<up, running, at, todo, peers, socket, is_active, conns, sent,
                    msg_queue, received>>
    BY <1>5 DEF vars, threadVars, endVars, dataVars
  <2>2. TypeOK' /\ QuietThreads /\ \A x \in Nodes : Got(x)' = Got(x)
    BY <2>1, ThreadsStay DEF Safe, EndsInv, TypeOK, Got
  <2>. QED
    BY <2>1, <2>2, ConnsStay DEF Safe
<1>. QED
  BY <1>1, <1>2, <1>3, <1>4, <1>5 DEF Next

\* Whatever the threads, the engines and the network do, the ends of the
\* connections stay in the relation EndsInv describes (RemoteEnd's socket and
\* is_active, connect and accept_con), and what is under way is newer than
\* what has arrived.
THEOREM ConnectionsInvariant == Spec => []Safe
<1>1. Init => Safe
  BY InitEnds, InitOrder DEF Safe
<1>2. Safe /\ [Next]_vars => Safe'
  BY NextSafe
<1>. QED
  BY <1>1, <1>2, PTL DEF Spec

\* RemoteEnd's is_active means a valid socket, and two nodes that both have it
\* set hold the two ends of one connection.
THEOREM OneConnectionPerPairHolds == Spec => []OneConnectionPerPair
<1>1. Safe => OneConnectionPerPair
  BY EndsGive DEF Safe
<1>. QED
  BY <1>1, ConnectionsInvariant, PTL

\* recv_msg gives the engine each message at most once and those of one sender
\* in the order of its send_msg, whatever connections were replaced between.
THEOREM ReceivedInOrderHolds == Spec => []ReceivedInOrder
<1>1. Safe => ReceivedInOrder
  BY OrderGives DEF Safe, EndsInv
<1>. QED
  BY <1>1, ConnectionsInvariant, PTL

=============================================================================
