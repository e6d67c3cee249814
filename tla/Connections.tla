---------------------------- MODULE Connections ----------------------------
(***************************************************************************)
(* ProtoCom of src/protocom.py: the thread that keeps one TCP connection   *)
(* to every other node and the engine thread that sends over them.  Of two *)
(* nodes the one with the lower id dials; request, reply and ack make the  *)
(* connection active on both sides.  While the thread waits for an answer  *)
(* it serves nobody else.                                                  *)
(*                                                                         *)
(* TCP is the environment: a connection delivers in order, and either both *)
(* ends find out that it is gone or one closes and the other reads that.   *)
(* Identities are verified by configured ids and keys and agree (the       *)
(* verification in verify_con_msg never fails between configured nodes).   *)
(* Echo messages are sent by nobody, and data is not acknowledged:         *)
(* read_con builds that message and drops it.                              *)
(*                                                                         *)
(* An operator whose name ends in _word is a seeded fault of the operator  *)
(* that follows it; no definition uses it.                                 *)
(***************************************************************************)
EXTENDS Integers, SequencesExt, FiniteSetsExt

CONSTANTS
  Nodes,          \* ids of nodes
  Unaware,        \* pairs <<n, m>>: the first configuration of n may lack m
  Conns,          \* names of connections, a bound on how many exist at a time
  MaxTryConn,     \* RemoteEnd.max_try_conn
  MaxBacklog,     \* connections that wait to be accepted: listen(100)
  Kinds,          \* the kinds of faults that happen, among Faults
  MaxSends,       \* bound on the messages sent
  MaxFaults       \* bound on the faults

ASSUME ConnectionsAssumption ==
  /\ Nodes \subseteq Nat \ {0} /\ IsFiniteSet(Nodes)
  /\ Unaware \subseteq Nodes \X Nodes
  /\ Conns \cap Nat = {} /\ "none" \notin Conns
  /\ {MaxTryConn, MaxBacklog} \subseteq Nat \ {0} /\ {MaxSends, MaxFaults} \subseteq Nat

\* lost: a connection breaks.  crash: a process does.  slow: an answer comes
\* after the time-out.  split: recv returns less than a message.
Faults == {"lost", "crash", "slow", "split"}

ASSUME KindsAssumption == Kinds \subseteq Faults

VARIABLES
  up,        \* the process runs
  running,   \* its ProtoCom thread does
  at,        \* where that thread is, with which peer and connection
  todo,      \* events of the last select() not yet handled
  peers,     \* keys of self.peers
  socket,    \* RemoteEnd.socket of each peer
  is_active, \* the peers whose is_active is set
  try_conn,  \* RemoteEnd.try_conn of each peer
  conn_modulus,
  conns,     \* the connections
  sent,      \* number of messages sent from node to node
  msg_queue, \* what each thread has received and the engine not yet taken
  received,  \* what each engine has taken, in order
  faults     \* number of faults so far

threadVars == <<running, at, todo, conn_modulus>>
endVars == <<socket, is_active, try_conn>>
dataVars == <<sent, msg_queue, received>>
vars == <<up, threadVars, peers, endVars, conns, dataVars, faults>>

None == "none"
Nobody == 0

\* A connection: which ends are open, what each end has not read yet, whether
\* the acceptor has taken it out of its backlog, whether the network lost it.
Conn(n, m, request) ==
  [from |-> n, to |-> m, open |-> {n, m}, accepted |-> FALSE, cut |-> FALSE,
   inbox |-> [x \in {n, m} |-> IF x = m THEN <<request>> ELSE <<>>]]

Free == [open |-> {}, accepted |-> TRUE]

Request == [type |-> "C-REQUEST"]
Reply == [type |-> "C-REPLY"]
Ack == [type |-> "C-ACK"]
Data(n, k) == [type |-> "DATA", from |-> n, no |-> k]
Rest == [type |-> "rest of a message"]

At(step, m, c) == [step |-> step, peer |-> m, conn |-> c]
Idle(step) == At(step, Nobody, None)

----------------------------------------------------------------------------
(* Connections.                                                             *)

\* Every further read at n's end of c finds the connection closed.
Gone(c, n) ==
  conns[c].inbox[n] = <<>> /\ (conns[c].cut \/ conns[c].open = {n})

Closed(conn, n) ==
  IF conn.open = {n} THEN Free
  ELSE [conn EXCEPT !.open = @ \ {n}, !.inbox[n] = <<>>, !.accepted = @ \/ n = conn.to]

\* The message joins what the other end has not read, if that can still be.
Pushed(conn, n, msg) ==
  IF conn.cut \/ conn.open = {n} THEN conn
  ELSE [conn EXCEPT !.inbox = [x \in DOMAIN @ |->
                                 IF x = n THEN @[x] ELSE Append(@[x], msg)]]

Popped(conn, n) == [conn EXCEPT !.inbox[n] = Tail(@)]

Backlog(n) ==
  {c \in Conns : ~conns[c].accepted /\ conns[c].to = n /\ n \in conns[c].open}

\* The keys select() returns to node n: the peers whose sockets have something
\* to read, be it that they were closed, and n itself for the listening socket.
Ready(n) ==
  {m \in is_active[n] : \/ conns[socket[n][m]].inbox[n] # <<>>
                        \/ Gone(socket[n][m], n)}
  \cup (IF Backlog(n) = {} THEN {} ELSE {n})

Fault(kind) ==
  kind \in Kinds /\ faults < MaxFaults /\ faults' = faults + 1

\* RemoteEnd.close: the peer's socket is closed, unregistered and forgotten.
Close(n, m) ==
  /\ conns' = [conns EXCEPT ![socket[n][m]] = Closed(@, n)]
  /\ socket' = [socket EXCEPT ![n][m] = None]
  /\ is_active' = [is_active EXCEPT ![n] = @ \ {m}]

\* connect_accept, after the socket was registered with the selector.
ConnectAccept(n, m) == is_active' = [is_active EXCEPT ![n] = @ \cup {m}]

Continue(n, step) == at' = [at EXCEPT ![n] = Idle(step)]

\* An exception nobody catches leaves run: the thread ends, the process stays.
ThreadEnds(n) ==
  /\ running' = [running EXCEPT ![n] = FALSE]
  /\ Continue(n, "select")
  /\ todo' = [todo EXCEPT ![n] = {}]

----------------------------------------------------------------------------
(* The loop of run.                                                         *)

Select(n) ==
  /\ running[n] /\ at[n].step = "select"
  /\ todo' = [todo EXCEPT ![n] = Ready(n)]
  /\ Continue(n, "events")
  /\ UNCHANGED <<up, running, conn_modulus, peers, endVars, conns, dataVars,
                 faults>>

Handles(n, event) ==
  running[n] /\ at[n].step = "events" /\ event \in todo[n]

Handled(n, event) == todo' = [todo EXCEPT ![n] = @ \ {event}]

\* The test of accept_con for a connection it has already.
Refused_not(n, m) == FALSE
Refused(n, m) == m \in is_active[n]

\* read_c_request takes the first message; later ones stay for read_c_ack.
Requested(conn, n) == Popped([conn EXCEPT !.accepted = TRUE], n)

\* accept_con up to the point where it waits for the ack.  The order of the
\* backlog is left open.
Accept(n) ==
  /\ Handles(n, n)
  /\ \E c \in Backlog(n) :
       LET m == conns[c].from IN
          \/ /\ \/ Gone(c, n)
                \/ conns[c].inbox[n] # <<>> /\ m \in peers[n] /\ Refused(n, m)
             /\ conns' = [conns EXCEPT ![c] = Closed(@, n)]
             /\ Handled(n, n)
             /\ UNCHANGED <<running, at, socket>>
          \/ /\ conns[c].inbox[n] # <<>> /\ m \notin peers[n]    \* KeyError
             /\ conns' = [conns EXCEPT ![c] = Closed(@, n)]
             /\ ThreadEnds(n)
             /\ UNCHANGED socket
          \/ /\ conns[c].inbox[n] # <<>> /\ m \in peers[n] /\ ~Refused(n, m)
             /\ conns' = [conns EXCEPT ![c] = Pushed(Requested(@, n), n, Reply)]
             /\ socket' = [socket EXCEPT ![n][m] = c]
             /\ at' = [at EXCEPT ![n] = At("ack", m, c)]
             /\ Handled(n, n)
             /\ UNCHANGED running
  /\ UNCHANGED <<up, conn_modulus, peers, is_active, try_conn, dataVars, faults>>

TakeAck(n) ==
  LET c == at[n].conn IN
  /\ at[n].step = "ack" /\ conns[c].inbox[n] # <<>>
  /\ conns' = [conns EXCEPT ![c] = Popped(@, n)]
  /\ ConnectAccept(n, at[n].peer)
  /\ Continue(n, "events")
  /\ UNCHANGED <<up, running, todo, conn_modulus, peers, socket, try_conn,
                 dataVars, faults>>

Queued_first(queue, entry) == <<entry>> \o queue
Queued(queue, entry) == Append(queue, entry)

\* read_con of a data message.
Read(n) ==
  \E m \in is_active[n] :
    LET c == socket[n][m]  msg == conns[c].inbox[n][1] IN
    /\ Handles(n, m) /\ conns[c].inbox[n] # <<>> /\ msg.type = "DATA"
    /\ conns' = [conns EXCEPT ![c] = Popped(@, n)]
    /\ msg_queue' = [msg_queue EXCEPT ![n] = Queued(@, [from |-> m, no |-> msg.no])]
    /\ Handled(n, m)
    /\ UNCHANGED <<up, running, at, conn_modulus, peers, endVars, sent, received,
                   faults>>

\* read_con of a connection that is gone, or whose message has not arrived as
\* a whole after its length: the second recv does not wait, and the unbound
\* variable b is one more reason to close.
ReadCloses(n) ==
  \E m \in is_active[n] :
    LET c == socket[n][m] IN
    /\ Handles(n, m)
    /\ \/ Gone(c, n) /\ UNCHANGED faults
       \/ conns[c].inbox[n] # <<>> /\ Fault("split")
    /\ Close(n, m)
    /\ Handled(n, m)
    /\ UNCHANGED <<up, running, at, conn_modulus, peers, try_conn, dataVars>>

\* recv(length) returns a part: that is queued as the message, and what is
\* left of it stands where the next length should.
ReadPart(n) ==
  \E m \in is_active[n] :
    LET c == socket[n][m]  msg == conns[c].inbox[n][1] IN
    /\ Handles(n, m) /\ conns[c].inbox[n] # <<>> /\ msg.type = "DATA"
    /\ Fault("split")
    /\ conns' = [conns EXCEPT ![c].inbox[n][1] = Rest]
    /\ msg_queue' = [msg_queue EXCEPT ![n] = Queued(@, [from |-> m, no |-> msg.no])]
    /\ Handled(n, m)
    /\ UNCHANGED <<up, running, at, conn_modulus, peers, endVars, sent, received>>

\* The first bytes of the rest are a length larger than anything: all there is
\* is one message, which has three separators and is ignored, or has not.
ReadRest(n) ==
  \E m \in is_active[n] :
    LET c == socket[n][m] IN
    /\ Handles(n, m) /\ conns[c].inbox[n] # <<>> /\ conns[c].inbox[n][1] = Rest
    /\ conns' = [conns EXCEPT ![c].inbox[n] = <<>>]
    /\ \/ Handled(n, m) /\ UNCHANGED <<running, at>>
       \/ ThreadEnds(n)
    /\ UNCHANGED <<up, conn_modulus, peers, endVars, dataVars, faults>>

----------------------------------------------------------------------------
(* init_con_all, after all events.                                          *)

Unconnected(n) == peers[n] \ is_active[n]

NextModulus(n) ==
  IF conn_modulus[n] + 1 >= Cardinality(Unconnected(n)) THEN 0 ELSE conn_modulus[n] + 1

\* The peer at that place of the list of those that are not connected, which
\* are in the order of their ids.
Turn(n, m) ==
  /\ m \in Unconnected(n)
  /\ Cardinality({x \in Unconnected(n) : x < m}) = NextModulus(n)

\* "NB only connect to those with higher number".
MayDial_any(n, m) == TRUE
MayDial(n, m) == m > n

\* RemoteEnd.connect: the try that reaches the maximum is not made; later ones
\* are, and after a while the count is put back below the maximum.
Tries(t) ==
  {Min({t + 1, MaxTryConn + 1})} \cup (IF t < MaxTryConn THEN {} ELSE {MaxTryConn - 1})

\* All are connected; or the peer whose turn it is is passed over, the try is
\* refused, or the connection is made.  A peer that no longer accepts has its
\* backlog full at some point.
DialNext(n) ==
  /\ running[n] /\ at[n].step = "events" /\ todo[n] = {}
  /\ \/ /\ Unconnected(n) = {}
        /\ conn_modulus' = [conn_modulus EXCEPT ![n] = 0]
        /\ Continue(n, "select")
        /\ UNCHANGED <<socket, try_conn, conns>>
     \/ \E m \in Nodes :
          LET reached == /\ try_conn[n][m] + 1 # MaxTryConn
                         /\ up[m] /\ Cardinality(Backlog(m)) < MaxBacklog
          IN
          /\ Turn(n, m)
          /\ conn_modulus' = [conn_modulus EXCEPT ![n] = NextModulus(n)]
          /\ \/ /\ ~MayDial(n, m)
                /\ Continue(n, "select")
                /\ UNCHANGED <<socket, try_conn, conns>>
             \/ /\ MayDial(n, m) /\ ~reached
                /\ \E t \in Tries(try_conn[n][m]) :
                     try_conn' = [try_conn EXCEPT ![n][m] = t]
                /\ Continue(n, "select")
                /\ UNCHANGED <<socket, conns>>
             \/ /\ MayDial(n, m) /\ reached /\ \E c \in Conns : conns[c] = Free
                /\ LET c == CHOOSE x \in Conns : conns[x] = Free IN
                   /\ conns' = [conns EXCEPT ![c] = Conn(n, m, Request)]
                   /\ socket' = [socket EXCEPT ![n][m] = c]
                   /\ at' = [at EXCEPT ![n] = At("reply", m, c)]
                /\ try_conn' = [try_conn EXCEPT ![n][m] = 0]
  /\ UNCHANGED <<up, running, todo, peers, is_active, dataVars, faults>>

\* The ack is sent outside of any try: on a connection that was just lost the
\* exception ends the thread.
TakeReply(n) ==
  LET c == at[n].conn  m == at[n].peer IN
  /\ at[n].step = "reply" /\ conns[c].inbox[n] # <<>>
  /\ conns' = [conns EXCEPT ![c] = Pushed(Popped(@, n), n, Ack)]
  /\ \/ ConnectAccept(n, m) /\ Continue(n, "select") /\ UNCHANGED <<running, todo>>
     \/ conns[c].cut /\ ThreadEnds(n) /\ UNCHANGED is_active
  /\ UNCHANGED <<up, conn_modulus, peers, socket, try_conn, dataVars, faults>>

\* The reply or the ack does not come: the connection is gone, the other node
\* cannot answer, or it does so too late.
GiveUp(n) ==
  /\ at[n].step \in {"reply", "ack"}
  /\ \/ Gone(at[n].conn, n) /\ UNCHANGED faults
     \/ conns[at[n].conn].inbox[n] = <<>> /\ ~running[at[n].peer] /\ UNCHANGED faults
     \/ Fault("slow")
  /\ Close(n, at[n].peer)
  /\ Continue(n, IF at[n].step = "reply" THEN "select" ELSE "events")
  /\ UNCHANGED <<up, running, todo, conn_modulus, peers, try_conn, dataVars>>

----------------------------------------------------------------------------
(* The engine's thread.                                                     *)

\* send_msg to one node: sendall into a connection that is gone loses it.
Send(n, m) ==
  /\ up[n] /\ m \in is_active[n]
  /\ MapThenSumSet(LAMBDA pair : sent[pair[1]][pair[2]], Nodes \X Nodes) < MaxSends
  /\ sent' = [sent EXCEPT ![n][m] = @ + 1]
  /\ conns' = [conns EXCEPT ![socket[n][m]] = Pushed(@, n, Data(n, sent'[n][m]))]
  /\ UNCHANGED <<up, threadVars, peers, endVars, msg_queue, received, faults>>

\* recv_msg: all there is, under the lock read_con holds when it appends.
RecvMsg(n) ==
  /\ up[n] /\ msg_queue[n] # <<>>
  /\ received' = [received EXCEPT ![n] = @ \o msg_queue[n]]
  /\ msg_queue' = [msg_queue EXCEPT ![n] = <<>>]
  /\ UNCHANGED <<up, threadVars, peers, endVars, conns, sent, faults>>

\* set_active_nodes with a configuration that has one more node.  The thread
\* may just be iterating over the dictionary that grows.
SetActiveNodes(n, m) ==
  /\ up[n] /\ m \notin peers[n] /\ m # n
  /\ peers' = [peers EXCEPT ![n] = @ \cup {m}]
  /\ \/ UNCHANGED <<running, at, todo>>
     \/ running[n] /\ at[n].step \in {"select", "events"} /\ ThreadEnds(n)
  /\ UNCHANGED <<up, conn_modulus, endVars, conns, dataVars, faults>>

----------------------------------------------------------------------------
(* Faults.                                                                  *)

\* The network loses a connection and perhaps what was on its way.
Lose(c) ==
  /\ conns[c].open # {} /\ ~conns[c].cut /\ Fault("lost")
  /\ \E inbox \in {conns[c].inbox, [x \in DOMAIN conns[c].inbox |-> <<>>]} :
       conns' = [conns EXCEPT ![c].cut = TRUE, ![c].inbox = inbox]
  /\ UNCHANGED <<up, threadVars, peers, endVars, dataVars>>

\* The kernel closes all sockets of the process; nothing of ProtoCom is kept.
Crash(n) ==
  /\ up[n] /\ Fault("crash")
  /\ up' = [up EXCEPT ![n] = FALSE]
  /\ ThreadEnds(n)
  /\ conns' = [c \in Conns |->
                 IF n \in conns[c].open THEN Closed(conns[c], n) ELSE conns[c]]
  /\ socket' = [socket EXCEPT ![n] = [m \in Nodes |-> None]]
  /\ is_active' = [is_active EXCEPT ![n] = {}]
  /\ try_conn' = [try_conn EXCEPT ![n] = [m \in Nodes |-> 0]]
  /\ conn_modulus' = [conn_modulus EXCEPT ![n] = 0]
  /\ msg_queue' = [msg_queue EXCEPT ![n] = <<>>]
  /\ UNCHANGED <<peers, sent, received>>

\* __init__ with the newest configuration.
Restart(n) ==
  /\ ~up[n]
  /\ up' = [up EXCEPT ![n] = TRUE]
  /\ running' = [running EXCEPT ![n] = TRUE]
  /\ peers' = [peers EXCEPT ![n] = Nodes \ {n}]
  /\ UNCHANGED <<at, todo, conn_modulus, endVars, conns, dataVars, faults>>

----------------------------------------------------------------------------

Init ==
  /\ up = [n \in Nodes |-> TRUE]
  /\ running = [n \in Nodes |-> TRUE]
  /\ at = [n \in Nodes |-> Idle("select")]
  /\ todo = [n \in Nodes |-> {}]
  /\ \E missing \in SUBSET Unaware :
       peers = [n \in Nodes |-> {m \in Nodes \ {n} : <<n, m>> \notin missing}]
  /\ socket = [n \in Nodes |-> [m \in Nodes |-> None]]
  /\ is_active = [n \in Nodes |-> {}]
  /\ try_conn = [n \in Nodes |-> [m \in Nodes |-> 0]]
  /\ conn_modulus = [n \in Nodes |-> 0]
  /\ conns = [c \in Conns |-> Free]
  /\ sent = [n \in Nodes |-> [m \in Nodes |-> 0]]
  /\ msg_queue = [n \in Nodes |-> <<>>]
  /\ received = [n \in Nodes |-> <<>>]
  /\ faults = 0

ThreadStep(n) ==
  \/ Select(n) \/ Accept(n) \/ TakeAck(n) \/ Read(n) \/ ReadCloses(n)
  \/ ReadPart(n) \/ ReadRest(n) \/ DialNext(n) \/ TakeReply(n) \/ GiveUp(n)

Next ==
  \/ \E n \in Nodes : ThreadStep(n) \/ RecvMsg(n) \/ Crash(n) \/ Restart(n)
  \/ \E n, m \in Nodes : Send(n, m) \/ SetActiveNodes(n, m)
  \/ \E c \in Conns : Lose(c)

Spec == Init /\ [][Next]_vars

\* The thread's loop does not stop by itself, and the engine comes to the
\* newest configuration at the end of a round.
FairSpec ==
  /\ Spec
  /\ \A n \in Nodes : WF_vars(ThreadStep(n))
  /\ \A n, m \in Nodes : WF_vars(SetActiveNodes(n, m))

----------------------------------------------------------------------------
(* Properties.                                                              *)

Steps == {"select", "events", "reply", "ack"}

Messages ==
  {Request, Reply, Ack, Rest} \cup [type : {"DATA"}, from : Nodes, no : Nat]

IsConnection(k) ==
  /\ k \in [from : Nodes, to : Nodes, open : SUBSET Nodes,
            accepted : BOOLEAN, cut : BOOLEAN,
            inbox : [{k.from, k.to} -> Seq(Messages)]]
  /\ k.from < k.to
  /\ k.open # {} /\ k.open \subseteq {k.from, k.to}

Entries == [from : Nodes, no : Nat]

TypeOK ==
  /\ up \in [Nodes -> BOOLEAN] /\ running \in [Nodes -> BOOLEAN]
  /\ at \in [Nodes -> [step : Steps, peer : Nodes \cup {Nobody}, conn : Conns \cup {None}]]
  /\ {todo, peers, is_active} \subseteq [Nodes -> SUBSET Nodes]
  /\ socket \in [Nodes -> [Nodes -> Conns \cup {None}]]
  /\ DOMAIN conns = Conns
  /\ \A c \in Conns : conns[c] = Free \/ IsConnection(conns[c])
  /\ sent \in [Nodes -> [Nodes -> Nat]]
  /\ msg_queue \in [Nodes -> Seq(Entries)] /\ received \in [Nodes -> Seq(Entries)]

\* "is_active : is true is socket is valid and open" (the invariants of
\* RemoteEnd), and when two nodes both count each other as connected they hold
\* the two ends of one connection, whatever was lost, refused, given up or
\* dialled again before.
OneConnectionPerPair ==
  \A n \in Nodes : \A m \in is_active[n] :
    /\ socket[n][m] # None /\ n \in conns[socket[n][m]].open
    /\ n \in is_active[m] => socket[m][n] = socket[n][m]

\* Of what one node has sent to another, what arrives comes to the engine in
\* the order it was sent in and once only, also across connections that were
\* replaced and restarts of the process.
ReceivedInOrder ==
  \A n \in Nodes :
    LET got == received[n] \o msg_queue[n] IN
    \A i, j \in DOMAIN got :
      /\ got[i].no \in 1 .. sent[got[i].from][n]
      /\ i < j /\ got[i].from = got[j].from => got[i].no < got[j].no

Connected(n, m) == n \in is_active[m] /\ m \in is_active[n]

\* When connections stop breaking, any two nodes whose threads run are
\* connected for good: no pair of them waits for each other for ever, dials at
\* cross purposes or takes a dead connection for a live one.
ConnectedForGood ==
  \A n, m \in Nodes :
    n # m => <>[](Connected(n, m) \/ ~running[n] \/ ~running[m])

\* "The run method. Runs until request_stop is called." (ProtoCom.run): the
\* thread of a process that runs does.
RunsUntilStopped == \A n \in Nodes : up[n] => running[n]
=============================================================================
