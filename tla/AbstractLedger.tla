--------------------------- MODULE AbstractLedger ---------------------------
(***************************************************************************)
(* What the consensus rounds promise, without messages or rounds: there is *)
(* one ledger; a node extends it by one block only when every node holds   *)
(* all of it; the others then copy that block.  Nothing is ever removed.   *)
(***************************************************************************)
EXTENDS Naturals, Sequences

CONSTANTS
  Nodes,
  Extends(_, _, _)   \* Extends(ledger, n, b): node n may append b to ledger

VARIABLES
  ledger,   \* the blocks decided so far
  height    \* how many of them each node has stored

vars == <<ledger, height>>

Init == height = [n \in Nodes |-> Len(ledger)]

\* Node n decides the next block and has stored it itself.
Decide(n) ==
  /\ \A m \in Nodes : height[m] = Len(ledger)
  /\ Len(ledger') = Len(ledger) + 1
  /\ ledger' = Append(ledger, ledger'[Len(ledger')])
  /\ Extends(ledger, n, ledger'[Len(ledger')])
  /\ height' = [height EXCEPT ![n] = Len(ledger')]

\* Node n stores the next block that has been decided.
CatchUp(n) ==
  /\ height[n] < Len(ledger)
  /\ height' = [height EXCEPT ![n] = @ + 1]
  /\ UNCHANGED ledger

Next == \E n \in Nodes : Decide(n) \/ CatchUp(n)

Spec == Init /\ [][Next]_vars /\ \A n \in Nodes : WF_vars(CatchUp(n))
=============================================================================
