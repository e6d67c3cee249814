--------------------------- MODULE MCCancellation ---------------------------
(* Instances of Cancellation for TLC. *)
EXTENDS Cancellation

\* x of the first k writers has crashed.  Writer 1 coordinates view 0 of a
\* cancellation, writer 2 view 1.
Crash(k, x, ahead, patient) ==
  [writers |-> 1..k, links |-> {{x, m} : m \in 1..k \ {x}}, down |-> {x},
   ahead |-> ahead, patient |-> patient]

FiveWriters == 1..5

\* The others notice in time.
Patient == {Crash(4, x, {}, TRUE) : x \in {1, 2, 4}}

\* Timeouts may expire at any time, a node may have the block of the running
\* round already, or five writers may lose the coordinator of view 0.
Impatient ==
  {Crash(4, 1, {}, FALSE), Crash(4, 4, {}, FALSE), Crash(4, 4, {3}, TRUE),
   Crash(5, 1, {}, TRUE)}

\* The start from which TLC refutes AnnouncesNewView: survivors enough for 2f + 1
\* view changes.
CoordinatorOfFive == {Crash(5, 1, {}, TRUE)}
=============================================================================
