----------------------------- MODULE Authority -----------------------------
(***************************************************************************)
(* The membership authority: the requests of src/WriterAPI/application/    *)
(* routes.py and the configurations of configDB.py behind them, served by  *)
(* several threads at a time (gunicornDev.sh: two workers of two threads). *)
(* A request reads the database up to three times and writes it at most    *)
(* once; the number of resets is kept in a file that is read, emptied and  *)
(* written again.  The engines poll that number.                           *)
(*                                                                         *)
(* remove_from_node_set and update_node_details are called by nobody.      *)
(*                                                                         *)
(* An operator whose name ends in _word is a seeded fault of the operator  *)
(* that follows it; no definition uses it.                                 *)
(***************************************************************************)
EXTENDS Integers, SequencesExt, FiniteSetsExt

CONSTANTS
  Threads,        \* the threads that serve changes of the configuration
  Operator,       \* the one that serves DELETE /reset: chains are reset by
                  \* hand, one command after the other
  InitialNodes,   \* size of node_set in the configuration file
  InitialWriters, \* writer_list in the configuration file, in its order
  NewKeys,        \* public keys of nodes that may be added
  Engines,        \* the nodes that poll the number of resets
  MaxVersions,    \* bound on the configurations made
  MaxResets,      \* bound on the resets asked for
  MaxRestarts     \* bound on the restarts, of the server and of engines each

ASSUME AuthorityAssumption ==
  /\ Operator \notin Threads
  /\ InitialNodes \in Nat \ {0}
  /\ InitialWriters \in Seq(1 .. InitialNodes)
  /\ IsInjective(InitialWriters)
  /\ NewKeys \cap Nat = {}
  /\ {MaxVersions, MaxResets, MaxRestarts} \subseteq Nat

VARIABLES
  configs,    \* the stored configurations by _id
  job,        \* the request each thread works on
  answers,    \* the answers 201 and 204, to changes that were made
  file,       \* the number in the reset file, or Emptied
  restarts,   \* restarts of the server so far
  engineRestarts, \* restarts of each engine so far
  resets,     \* DELETE requests answered
  reset_number, \* the last number each engine has read
  heard       \* how often each engine has truncated its chain

storeVars == <<configs, answers>>
engineVars == <<reset_number, heard, engineRestarts>>
resetVars == <<file, resets, engineVars>>
vars == <<storeVars, job, resetVars, restarts>>

Emptied == -1

Node(id, key) == [id |-> id, key |-> key]

\* The rest of a configuration never changes.
Config(nodes, writers, readers) ==
  [node_set |-> nodes, writer_list |-> writers, reader_list |-> readers]

\* A request and how far its thread has come with it: conf is the copy it has
\* read and changed, number the _id it will insert it with.
Job(op, step, id, list, key) ==
  [op |-> op, step |-> step, id |-> id, list |-> list, key |-> key,
   conf |-> Config(<<>>, <<>>, <<>>), number |-> 0]

NoJob == Job("none", "idle", 0, "none", 0)

Answer(j) ==
  [op |-> j.op, id |-> j.id, list |-> j.list, version |-> j.number]

----------------------------------------------------------------------------
(* The database.                                                            *)

LatestId == Max(DOMAIN configs)

\* get_latest_config.
Latest == configs[LatestId]

\* node_exists.
NodeExists(id) == \E i \in DOMAIN Latest.node_set : Latest.node_set[i].id = id

NewNodeId == Len(Latest.node_set)

\* Ids that ActivateNodeInputModel lets through but nobody has are answered
\* with 404.
ListRequests ==
  {Job(op, "read", id, list, 0) :
     op \in {"activate", "deactivate"}, id \in 1 .. InitialNodes + 1,
     list \in {"writer", "reader"}}

\* Those that CreateNodeInputModel lets through.
AddRequests == {Job("add", "new_id", 0, "none", k) : k \in NewKeys}

\* The two lists of a configuration, with the one the request is about first.
ListsOf(j) ==
  IF j.list = "writer" THEN <<j.conf.writer_list, j.conf.reader_list>>
  ELSE <<j.conf.reader_list, j.conf.writer_list>>

WithLists(j, own, other) ==
  IF j.list = "writer" THEN Config(j.conf.node_set, own, other)
  ELSE Config(j.conf.node_set, other, own)

Changed_bothLists(j) ==
  WithLists(j, Append(ListsOf(j)[1], j.id), ListsOf(j)[2])

\* _activate_writer and _activate_reader take the node out of the other list,
\* _deactivate_writer and _deactivate_reader out of their own.
Changed(j) ==
  IF j.op = "activate"
  THEN WithLists(j, Append(ListsOf(j)[1], j.id), RemoveFirst(ListsOf(j)[2], j.id))
  ELSE WithLists(j, RemoveFirst(ListsOf(j)[1], j.id), ListsOf(j)[2])

\* Otherwise the ValueError that is answered with 409.
Applies(j) == (j.op = "activate") # (j.id \in Range(ListsOf(j)[1]))

----------------------------------------------------------------------------
Init ==
  /\ configs = [v \in {1} |-> Config([i \in 1 .. InitialNodes |-> Node(i, i)],
                                     InitialWriters, <<>>)]
  /\ job = [t \in Threads \cup {Operator} |-> NoJob]
  /\ answers = {}
  /\ file = 0 /\ restarts = 0 /\ resets = 0
  /\ reset_number = [e \in Engines |-> 0]
  /\ heard = [e \in Engines |-> 0]
  /\ engineRestarts = [e \in Engines |-> 0]

Goto(t, step) == job' = [job EXCEPT ![t].step = step]

\* 404, 409 or 500.
Refuse(t) == job' = [job EXCEPT ![t] = NoJob] /\ UNCHANGED storeVars

TakeRequest(t) ==
  /\ job[t].step = "idle" /\ LatestId < MaxVersions
  /\ \E r \in ListRequests \cup AddRequests : job' = [job EXCEPT ![t] = r]
  /\ UNCHANGED <<storeVars, resetVars, restarts>>

\* add_new_node.
GetNewNodeId(t) ==
  /\ job[t].step = "new_id"
  /\ job' = [job EXCEPT ![t].id = NewNodeId, ![t].step = "read"]
  /\ UNCHANGED <<storeVars, resetVars, restarts>>

\* The first read of activate and deactivate.
ReadConfig(t) ==
  /\ job[t].step = "read" /\ job[t].op # "add"
  /\ job' = [job EXCEPT ![t].conf = Latest, ![t].step = "check"]
  /\ UNCHANGED <<storeVars, resetVars, restarts>>

\* node_exists reads again; then the copy is changed.
ChangeLists(t) ==
  /\ job[t].step = "check"
  /\ \/ ~(NodeExists(job[t].id) /\ Applies(job[t])) /\ Refuse(t)
     \/ /\ NodeExists(job[t].id) /\ Applies(job[t])
        /\ job' = [job EXCEPT ![t].conf = Changed(job[t]),
                              ![t].step = "number"]
        /\ UNCHANGED storeVars
  /\ UNCHANGED <<resetVars, restarts>>

\* add_to_node_set.
AddToNodeSet(t) ==
  /\ job[t].step = "read" /\ job[t].op = "add"
  /\ \/ /\ \E i \in DOMAIN Latest.node_set :
             Latest.node_set[i].key = job[t].key
        /\ Refuse(t)
     \/ /\ \A i \in DOMAIN Latest.node_set :
             Latest.node_set[i].key # job[t].key
        /\ job' = [job EXCEPT
             ![t].conf = [Latest EXCEPT !.node_set =
                            Append(@, Node(job[t].id, job[t].key))],
             ![t].step = "number"]
        /\ UNCHANGED storeVars
  /\ UNCHANGED <<resetVars, restarts>>

NextId_skipping == LatestId + 2

\* update_config reads the latest version once more for its number.
NextId == LatestId + 1

ReadNumber(t) ==
  /\ job[t].step = "number"
  /\ job' = [job EXCEPT ![t].number = NextId, ![t].step = "insert"]
  /\ UNCHANGED <<storeVars, resetVars, restarts>>

Free_unchecked(id) == TRUE

\* insert_one raises DuplicateKeyError for an _id that is taken.
Free(id) == id \notin DOMAIN configs

InsertConfig(t) ==
  /\ job[t].step = "insert"
  /\ \/ /\ Free(job[t].number)
        /\ configs' = [v \in DOMAIN configs \cup {job[t].number} |->
                         IF v = job[t].number THEN job[t].conf ELSE configs[v]]
        /\ answers' = answers \cup {Answer(job[t])}
        /\ job' = [job EXCEPT ![t] = NoJob]
     \/ ~Free(job[t].number) /\ Refuse(t)
  /\ UNCHANGED <<resetVars, restarts>>

----------------------------------------------------------------------------
(* Resets.                                                                  *)

\* delete_chain: the file is read, emptied by open(.., "w"), and written.
ReadReset ==
  /\ job[Operator].step = "idle" /\ file # Emptied /\ resets < MaxResets
  /\ job' = [job EXCEPT ![Operator] =
               [Job("reset", "open", 0, "none", 0) EXCEPT !.number = file]]
  /\ UNCHANGED <<storeVars, resetVars, restarts>>

OpenReset ==
  /\ job[Operator].step = "open"
  /\ Goto(Operator, "write")
  /\ file' = Emptied
  /\ UNCHANGED <<storeVars, resets, engineVars, restarts>>

Increment_same(n) == n

Increment(n) == n + 1

WriteReset ==
  /\ job[Operator].step = "write"
  /\ file' = Increment(job[Operator].number)
  /\ job' = [job EXCEPT ![Operator] = NoJob]
  /\ resets' = resets + 1
  /\ UNCHANGED <<storeVars, engineVars, restarts>>

IsNews_different(e) == file # reset_number[e]

\* The comparison in check_reset_chain.
IsNews(e) == file > reset_number[e]

\* check_for_chain_reset; an empty file is an error answer, which is caught.
PollReset(e) ==
  /\ file # Emptied /\ IsNews(e)
  /\ reset_number' = [reset_number EXCEPT ![e] = file]
  /\ heard' = [heard EXCEPT ![e] = @ + 1]
  /\ UNCHANGED <<storeVars, job, file, resets, engineRestarts, restarts>>

\* A new MembershipData has read no reset.
RestartEngine(e) ==
  /\ engineRestarts[e] < MaxRestarts
  /\ engineRestarts' = [engineRestarts EXCEPT ![e] = @ + 1]
  /\ reset_number' = [reset_number EXCEPT ![e] = 0]
  /\ UNCHANGED <<storeVars, job, file, resets, heard, restarts>>

\* The server is stopped and started: requests under way are lost, config.py
\* writes a 0 to the file, ConfigDB finds the configurations it has.
Restart ==
  /\ restarts < MaxRestarts /\ restarts' = restarts + 1
  /\ job' = [t \in DOMAIN job |-> NoJob]
  /\ file' = 0
  /\ UNCHANGED <<storeVars, resets, engineVars>>

----------------------------------------------------------------------------
Serve(t) ==
  \/ GetNewNodeId(t) \/ ReadConfig(t) \/ ChangeLists(t) \/ AddToNodeSet(t)
  \/ ReadNumber(t) \/ InsertConfig(t)

ServeReset == OpenReset \/ WriteReset

Next ==
  \/ \E t \in Threads : TakeRequest(t) \/ Serve(t)
  \/ ReadReset \/ ServeReset
  \/ \E e \in Engines : PollReset(e) \/ RestartEngine(e)
  \/ Restart

Spec == Init /\ [][Next]_vars

\* A request that was taken is served; an engine polls once in every round.
FairSpec ==
  /\ Spec
  /\ WF_vars(ServeReset)
  /\ \A e \in Engines : WF_vars(PollReset(e))

----------------------------------------------------------------------------
(* Properties.                                                              *)

\* Every variable has its type.
TypeOK ==
  /\ LatestId <= MaxVersions + Cardinality(Threads)
  /\ \A t \in DOMAIN job :
       /\ job[t].step \in {"idle", "new_id", "read", "check", "number",
                           "insert", "open", "write"}
       /\ job[t].step \in {"check", "number", "insert"}
            => Len(job[t].conf.node_set) >= InitialNodes
       /\ job[t].step = "insert" => job[t].number > 1
       /\ job[t].step \in {"open", "write"} => job[t].number >= 0
  /\ file >= Emptied /\ file <= resets

\* Versions are numbered without a gap ("membership_version" is what nodes
\* compare and ask for), although the number is read before it is used.
VersionsUnbroken == DOMAIN configs = 1 .. LatestId

IdsOf(c) == {n.id : n \in Range(c.node_set)}

Listed(c) == c.writer_list \o c.reader_list

\* However requests overlap, no stored configuration lists a node twice or as
\* writer and reader, nor a node that has not been in the node_set of that or an
\* earlier version: a request for it is answered with 404.
ListsAreSound ==
  \A v \in DOMAIN configs :
    /\ IsInjective(Listed(configs[v]))
    /\ \A id \in Range(Listed(configs[v])) :
         \E w \in DOMAIN configs : w <= v /\ id \in IdsOf(configs[w])

\* Engines look every listed id up in the node_set of the same configuration.
\* Refuted by requests that overlap: node_exists reads a later version than the
\* one that is changed and stored, and a node added in between is lost again.
ListedAreKnown ==
  \A v \in DOMAIN configs : Range(Listed(configs[v])) \subseteq IdsOf(configs[v])

\* A request that was told so has made the version in the answer, alone, and
\* that version does what the request asked for as long as the MA exists.
AnsweredIsStored ==
  \A a \in answers :
    LET own == IF a.list = "writer" THEN configs[a.version].writer_list
               ELSE configs[a.version].reader_list
    IN /\ a.op = "activate" => a.id \in Range(own)
       /\ a.op = "deactivate" => a.id \notin Range(own)
       /\ \A b \in answers :
            b.version = a.version => b = a

\* A writer that was told it is activated is in the newest configuration until a
\* later request about the same node is answered ("Adds node to active reader
\* or writer set").
ActivationSticks ==
  \A a \in answers :
    a.op = "activate" /\ a.list = "writer" =>
      \/ a.id \in Range(Latest.writer_list)
      \/ \E b \in answers :
           b.id = a.id /\ b.version > a.version

\* An engine truncates its chain at most once for every reset, and once more
\* for every time it was restarted itself, whatever happens to the server.
NoExtraReset == \A e \in Engines : heard[e] <= resets + engineRestarts[e]

\* Every reset reaches every engine, as long as nobody is restarted: none is
\* lost in the file that is empty for a moment.
ResetReachesAll ==
  \A e \in Engines, k \in 1 .. MaxResets :
    resets >= k ~> reset_number[e] >= k \/ restarts > 0 \/ engineRestarts[e] > 0
=============================================================================
