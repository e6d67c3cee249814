----------------------------- MODULE ClientPath -----------------------------
(***************************************************************************)
(* How a payload comes from POST /blocks into the chain of one writer: the *)
(* routes of ClientAPI/application, one ServerConnection per API worker    *)
(* that its threads share, one ClientHandler thread per connection         *)
(* (src/tcp_server.py), the payload queue, and the engine that inserts     *)
(* into its BlockchainDB (src/models/blockchainDB.py).  The round between  *)
(* taking a payload and inserting its block is the one of ConsensusRound.  *)
(*                                                                         *)
(* A reply is a length of four bytes and a body; a reader takes the length *)
(* with one recv and the body with another.  send_ack sends the payload    *)
(* back, and format_msg counts characters where the wire has bytes: the    *)
(* reply to a payload string with characters beyond ASCII is longer than   *)
(* its length says.  Requests are escaped by json.dumps and are not.       *)
(*                                                                         *)
(* An operator whose name ends in _word is a seeded fault of the operator  *)
(* that follows it; no definition uses it.                                 *)
(***************************************************************************)
EXTENDS Integers, SequencesExt, FiniteSetsExt

CONSTANTS
  Workers,            \* worker processes of the API
  Threads,            \* threads of each of them
  Kinds,              \* kinds of requests clients make, among RequestKinds
  MaxRequests,        \* bound on the requests
  MaxRestarts,        \* bound on the restarts, of workers and of the engine
  MaxCommitFailures   \* bound on the commits that fail

\* wide: a payload string beyond ASCII.  long: more than BUFFER_SIZE bytes.
\* verify: GET /blocks/<hash>/verified for the block of an earlier request.
RequestKinds == {"block", "wide", "long", "verify"}

ASSUME ClientPathAssumption ==
  /\ Kinds \subseteq RequestKinds
  /\ {MaxRequests, MaxRestarts, MaxCommitFailures} \subseteq Nat

VARIABLES
  requests,  \* the requests made, by number: kind, hash asked for, worker
  jobs,      \* what each thread of each worker does
  answers,   \* what clients were told, by number
  up, down,  \* what was sent over each worker's connection and is not read yet
  handler,   \* the thread behind each connection: running, dead, closed
  orphans,   \* payloads on connections whose worker has been restarted
  queue,     \* payload_queue
  taken,     \* the payloads of blocks the engine came to insert, in order
  rows,      \* the chain in the database file, by round
  pending,   \* the row of an open transaction
  inserting, \* the engine is between execute and commit
  length,    \* BlockchainDB.length
  restarts, failures

apiVars == <<requests, jobs, answers>>
wireVars == <<up, down, handler, orphans>>
storeVars == <<rows, pending, inserting, length>>
vars == <<apiVars, wireVars, queue, taken, storeVars, restarts, failures>>

Idle == [step |-> "idle", no |-> 0, want |-> 0]
Job(step, no, want) == [step |-> step, no |-> no, want |-> want]

\* The length a reader takes from bytes that are none: larger than all there is.
Huge == -1

\* What the wire carries down, and what clients get: no is the request it is
\* the reply to.
Token(part, no, verdict) == [part |-> part, no |-> no, verdict |-> verdict]
Garbage == Token("rest", 0, "none")
Answer(no, verdict) == [of |-> no, verdict |-> verdict]
Failed == Answer(0, "500")
Empty == Answer(0, "201 without a body")

\* What get_query finds: the clients' threads use the engine's connection and
\* see its open transaction.
Visible == Range(rows) \cup Range(pending)

\* check_existence.
Exists(hash) == hash \in Visible

----------------------------------------------------------------------------
(* ServerConnection and the routes of the API.                              *)

Answered(w, t, answer) ==
  /\ answers' = [answers EXCEPT ![jobs[w][t].no] = answer]
  /\ jobs' = [jobs EXCEPT ![w][t] = Idle]

\* insert_block or block_hash_exists up to sendall.  A connection the other
\* side has closed takes one more message or fails.
Post(w, t, kind, hash) ==
  LET no == Len(requests) + 1 IN
  /\ jobs[w][t] = Idle /\ no <= MaxRequests
  /\ requests' = Append(requests, [kind |-> kind, hash |-> hash, worker |-> w])
  /\ \/ /\ handler[w] # "closed"
        /\ up' = [up EXCEPT ![w] = Append(@, no)]
        /\ jobs' = [jobs EXCEPT ![w][t] = Job("length", no, 0)]
        /\ answers' = Append(answers, Empty)
     \/ /\ handler[w] = "closed"
        /\ jobs' = [jobs EXCEPT ![w][t] = Job("length", no, 0)]
        /\ answers' = Append(answers, Empty)
        /\ UNCHANGED up
     \/ /\ handler[w] = "closed"
        /\ answers' = Append(answers, Failed)
        /\ UNCHANGED <<up, jobs>>
  /\ UNCHANGED <<down, handler, orphans, queue, taken, storeVars, restarts, failures>>

\* Four bytes out of something that is no length leave a rest, or reach into
\* the length that follows.
WithoutFour(tokens) ==
  {Tail(tokens), <<Garbage>> \o Tail(tokens)}
  \cup (IF Len(tokens) > 1 THEN {<<Garbage>> \o SubSeq(tokens, 3, Len(tokens))} ELSE {})

\* read_msg: recv(4).
ReadLength(w, t) ==
  LET job == jobs[w][t] IN
  /\ job.step = "length"
  /\ \/ /\ down[w] # <<>> /\ down[w][1].part = "length"
        /\ down' = [down EXCEPT ![w] = Tail(@)]
        /\ jobs' = [jobs EXCEPT ![w][t] = Job("body", job.no, down[w][1].no)]
        /\ UNCHANGED answers
     \/ /\ down[w] # <<>> /\ down[w][1].part # "length"
        /\ \E left \in WithoutFour(down[w]) : down' = [down EXCEPT ![w] = left]
        /\ jobs' = [jobs EXCEPT ![w][t] = Job("body", job.no, Huge)]
        /\ UNCHANGED answers
     \/ /\ down[w] = <<>> /\ handler[w] = "closed"
        /\ Answered(w, t, Empty)
        /\ UNCHANGED down
  /\ UNCHANGED <<requests, up, handler, orphans, queue, taken, storeVars, restarts,
                 failures>>

\* read_msg: recv(length), of the body that belongs to that length, of another
\* one, or of all there is.
ReadBody(w, t) ==
  LET job == jobs[w][t]  head == down[w][1] IN
  /\ job.step = "body"
  /\ \/ /\ down[w] # <<>> /\ head.part = "body" /\ head.no = job.want
        /\ down' = [down EXCEPT ![w] = Tail(@)]
        /\ Answered(w, t, Answer(head.no, head.verdict))
     \/ /\ down[w] # <<>> /\ ~(head.part = "body" /\ head.no = job.want)
        /\ \E left \in IF job.want = Huge THEN {<<>>}
                       ELSE {Tail(down[w]), <<Garbage>> \o Tail(down[w])} :
             down' = [down EXCEPT ![w] = left]
        /\ Answered(w, t, Answer(head.no, "garbled"))
     \/ /\ down[w] = <<>> /\ handler[w] = "closed"
        /\ Answered(w, t, Empty)
        /\ UNCHANGED down
  /\ UNCHANGED <<requests, up, handler, orphans, queue, taken, storeVars, restarts,
                 failures>>

----------------------------------------------------------------------------
(* ClientHandler.                                                           *)

LongerThanItsLength_escaped(no) == requests[no].kind # "verify"

\* format_msg counts characters.
LongerThanItsLength(no) == requests[no].kind = "wide"

Reply_noAck(no, verdict) ==
  IF verdict = "payload" THEN <<>>
  ELSE <<Token("length", no, verdict), Token("body", no, verdict)>>

\* send_message_to_client.
Reply(no, verdict) ==
  <<Token("length", no, verdict), Token("body", no, verdict)>>
  \o (IF LongerThanItsLength(no) THEN <<Garbage>> ELSE <<>>)

Queued_twice(no) == queue \o <<no, no>>
Queued(no) == Append(queue, no)

\* run, for one request.  A message that is too long is read as "", which has
\* no request_type: the thread ends with its socket open.
Serve(w) ==
  LET no == up[w][1] IN
  /\ handler[w] = "running" /\ up[w] # <<>>
  /\ up' = [up EXCEPT ![w] = Tail(@)]
  /\ \/ /\ requests[no].kind = "long"
        /\ handler' = [handler EXCEPT ![w] = "dead"]
        /\ UNCHANGED <<down, queue>>
     \/ /\ requests[no].kind \in {"block", "wide"}
        /\ queue' = Queued(no)
        /\ down' = [down EXCEPT ![w] = @ \o Reply(no, "payload")]
        /\ UNCHANGED handler
     \/ /\ requests[no].kind = "verify"
        /\ down' = [down EXCEPT ![w] = @ \o
             Reply(no, IF Exists(requests[no].hash) THEN "verified" ELSE "not verified")]
        /\ UNCHANGED <<handler, queue>>
  /\ UNCHANGED <<apiVars, orphans, taken, storeVars, restarts, failures>>

\* The same on a connection whose worker is gone; the order is left open.
ServeOrphan(no) ==
  /\ no \in orphans /\ orphans' = orphans \ {no}
  /\ queue' = Queued(no)
  /\ UNCHANGED <<apiVars, up, down, handler, taken, storeVars, restarts, failures>>

\* connect_to_writer: a new connection, with nothing on it after the handshake.
Connected(w) ==
  /\ up' = [up EXCEPT ![w] = <<>>]
  /\ down' = [down EXCEPT ![w] = <<>>]

\* A worker starts again and connects; its requests fail, but payloads that are
\* on their way are still served.  handle_client first forgets the threads that
\* have ended, which closes their connections.
RestartWorker(w) ==
  /\ restarts < MaxRestarts /\ restarts' = restarts + 1
  /\ jobs' = [jobs EXCEPT ![w] = [t \in Threads |-> Idle]]
  /\ answers' = [no \in DOMAIN answers |->
       IF \E t \in Threads : jobs[w][t].no = no THEN Failed ELSE answers[no]]
  /\ handler' = [x \in Workers |-> IF x = w THEN "running"
                                   ELSE IF handler[x] = "dead" THEN "closed"
                                   ELSE handler[x]]
  /\ Connected(w)
  /\ orphans' = orphans \cup {no \in Range(up[w]) :
       handler[w] = "running" /\ requests[no].kind \in {"block", "wide"}}
  /\ UNCHANGED <<requests, queue, taken, storeVars, failures>>

----------------------------------------------------------------------------
(* The engine and its database.                                             *)

\* get_payload and insert_block up to execute.  Where a row of that round is
\* there already, be it of a transaction never committed, execute fails: the
\* block is not stored and the length stays.
Insert(free) ==
  /\ queue # <<>> /\ ~inserting
  /\ queue' = Tail(queue)
  /\ taken' = Append(taken, Head(queue))
  /\ \/ free /\ pending' = <<Head(queue)>> /\ inserting' = TRUE
     \/ ~free /\ UNCHANGED <<pending, inserting>>
  /\ UNCHANGED <<apiVars, wireVars, rows, length, restarts, failures>>

\* Whether the primary key "round" accepts a row at this length.
RoundIsFree == length \notin DOMAIN rows /\ pending = <<>>

NextLength_always(ok) == length + 1
NextLength(ok) == IF ok THEN length + 1 ELSE length

Committed ==
  IF pending = <<>> THEN rows
  ELSE [r \in DOMAIN rows \cup {length} |->
          IF r = length THEN pending[1] ELSE rows[r]]

\* insert_block from commit on.  When the commit fails (a reader holds the
\* file, the disk is full) the transaction stays open.
Commit(ok) ==
  /\ inserting /\ inserting' = FALSE
  /\ ok \/ failures < MaxCommitFailures
  /\ failures' = IF ok THEN failures ELSE failures + 1
  /\ rows' = IF ok THEN Committed ELSE rows
  /\ pending' = IF ok THEN <<>> ELSE pending
  /\ length' = NextLength(ok)
  /\ UNCHANGED <<apiVars, wireVars, queue, taken, restarts>>

\* A new TCP_Server has an empty queue and no connections.  The API does not
\* reconnect.
NewServer ==
  /\ queue' = <<>> /\ orphans' = {}
  /\ handler' = [w \in Workers |-> "closed"]
  /\ up' = [w \in Workers |-> <<>>]

\* get_round_number: one more than the largest round, 0 if there is none.
RoundNumber(chain) == IF DOMAIN chain = {} THEN 0 ELSE Max(DOMAIN chain) + 1

\* The process starts again.  The open transaction is gone unless __del__ came
\* to commit it.
RestartEngine ==
  /\ restarts < MaxRestarts /\ restarts' = restarts + 1
  /\ NewServer
  /\ pending' = <<>> /\ inserting' = FALSE
  /\ rows' \in {rows, Committed}
  /\ length' = RoundNumber(rows')
  /\ UNCHANGED <<apiVars, down, taken, failures>>

----------------------------------------------------------------------------

Init ==
  /\ requests = <<>> /\ answers = <<>>
  /\ jobs = [w \in Workers |-> [t \in Threads |-> Idle]]
  /\ up = [w \in Workers |-> <<>>] /\ down = [w \in Workers |-> <<>>]
  /\ handler = [w \in Workers |-> "running"] /\ orphans = {}
  /\ queue = <<>> /\ taken = <<>>
  /\ rows = [r \in {} |-> 0] /\ pending = <<>> /\ inserting = FALSE /\ length = 0
  /\ restarts = 0 /\ failures = 0

Ask(w, t) ==
  \/ \E kind \in Kinds \ {"verify"} : Post(w, t, kind, 0)
  \/ "verify" \in Kinds /\ \E no \in DOMAIN requests : Post(w, t, "verify", no)

Next ==
  \/ \E w \in Workers, t \in Threads : Ask(w, t) \/ ReadLength(w, t) \/ ReadBody(w, t)
  \/ \E w \in Workers : Serve(w) \/ RestartWorker(w)
  \/ \E no \in orphans : ServeOrphan(no)
  \/ Insert(RoundIsFree) \/ Commit(TRUE) \/ Commit(FALSE) \/ RestartEngine

Spec == Init /\ [][Next]_vars

\* Threads run on; nobody has to ask, and nothing has to fail or restart.
FairSpec ==
  /\ Spec
  /\ \A w \in Workers : WF_vars(Serve(w))
  /\ \A w \in Workers, t \in Threads : WF_vars(ReadLength(w, t) \/ ReadBody(w, t))

----------------------------------------------------------------------------
(* Properties.                                                              *)

TypeOK ==
  /\ Len(answers) = Len(requests) /\ Len(requests) <= MaxRequests
  /\ \A w \in Workers :
       /\ handler[w] \in {"running", "dead", "closed"}
       /\ Range(up[w]) \subseteq DOMAIN requests
       /\ \A t \in Threads : jobs[w][t].step \in {"idle", "length", "body"}
  /\ Range(queue) \cup Range(taken) \cup Visible \cup orphans \subseteq DOMAIN requests
  /\ Len(pending) <= 1 /\ (inserting => pending # <<>>)
  /\ length \in Nat /\ restarts \in 0 .. MaxRestarts
  /\ failures \in 0 .. MaxCommitFailures

\* One thread per worker and no reply that is longer than it says: then the
\* replies on a connection can be told apart.
Ordered(w) ==
  /\ \A t, u \in Threads : t = u
  /\ \A no \in DOMAIN requests :
       requests[no].worker = w => requests[no].kind # "wide"

\* The client was told nothing yet, or nothing else than the reply to this request.
ToldOfItself(no) == answers[no] = Empty \/ answers[no].of = no

\* A payload is handed to the engine at most once and in the order in which its
\* worker sent it, whatever is restarted or refused: one that comes after a
\* later one of its worker is of a request that failed or was answered with the
\* reply to another.  And a client that gets its payload back has it queued or
\* taken, unless something has been restarted.
PayloadsInOrder ==
  LET order == taken \o queue IN
  /\ IsInjective(order)
  /\ \A i, j \in DOMAIN order :
       /\ i < j /\ requests[order[i]].worker = requests[order[j]].worker
       /\ ToldOfItself(order[j])
      => order[i] < order[j]
  /\ restarts = 0 => \A no \in DOMAIN answers :
       answers[no] = Answer(no, "payload") => no \in Range(order)

\* On a connection used by one thread at a time, whose replies have the length
\* they say, no client gets the reply to another request, or a part of one.
RepliesMatch ==
  \A no \in DOMAIN answers :
    Ordered(requests[no].worker) /\ answers[no] \notin {Failed, Empty}
      => answers[no].of = no /\ answers[no].verdict # "garbled"

\* The chain in the file has no gap and no block twice, its order is the one
\* in which the engine came to insert, and length is its height.  A commit that
\* fails costs blocks, all blocks until the restart, but never their order.
ChainWithoutGap ==
  LET chain == [i \in 1 .. length |-> rows[i - 1]] IN
  /\ DOMAIN rows = 0 .. length - 1
  /\ IsInjective(chain)
  /\ \A i, j \in 1 .. length : i < j =>
       \E k, l \in DOMAIN taken : k < l /\ taken[k] = chain[i] /\ taken[l] = chain[j]

\* "Sends the transaction for insertion as block on the chain" and answers:
\* every request is answered, unless a payload that is too long has ended the
\* thread behind its connection.
EveryRequestAnswered ==
  \A w \in Workers :
    \A t \in Threads : jobs[w][t] # Idle ~> jobs[w][t] = Idle \/ handler[w] = "dead"

\* "Formats message to bytes and sends to server and replies with ACK"
\* (send_msg): what a client gets is the reply to its own request.
RepliesWithAck ==
  \A no \in DOMAIN answers :
    answers[no] \notin {Failed, Empty} =>
      answers[no].of = no /\ answers[no].verdict # "garbled"
=============================================================================
