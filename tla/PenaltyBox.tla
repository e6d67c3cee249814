----------------------------- MODULE PenaltyBox -----------------------------
(***************************************************************************)
(* The penalty box of MembershipData in src/models/membershipData.py: what *)
(* the end and the top of the engine's loop do with the nodes that the     *)
(* round's cancellation has put on round_disconnect_list.                  *)
(*                                                                         *)
(* A box maps every node of the configuration to its entry; a list is the  *)
(* set of the nodes on round_writer_list, which is kept sorted.            *)
(***************************************************************************)
EXTENDS Integers, FiniteSets

\* initiate_penalty_box.
NewEntry ==
  [counter |-> 1, in_penalty_box |-> FALSE, curr_counter |-> 0,
   honesty_counter |-> 0]

InBox(box) == {x \in DOMAIN box : box[x].in_penalty_box}

\* add_to_penalty_box.
AddToBox(box, disconnected) ==
  [x \in DOMAIN box |->
     IF x \in disconnected
     THEN [counter |-> box[x].counter + 1, in_penalty_box |-> TRUE,
           curr_counter |-> 2 ^ (box[x].counter + 1), honesty_counter |-> 0]
     ELSE box[x]]

\* The entries whose time is over in update_penalty_box.
Released(box) == {x \in InBox(box) : box[x].curr_counter <= 1}

\* update_penalty_box, without the call of add_to_penalty_box at its end.
Elapse(box) ==
  [x \in DOMAIN box |->
     IF x \in Released(box)
     THEN [box[x] EXCEPT !.in_penalty_box = FALSE, !.honesty_counter = 0,
                         !.curr_counter = @ - 1]
     ELSE IF x \in InBox(box) THEN [box[x] EXCEPT !.curr_counter = @ - 1]
     ELSE [box[x] EXCEPT !.honesty_counter = @ + 1]]

\* decrease_penalty_box_counters.
Decrease(box) ==
  [x \in DOMAIN box |->
     IF x \in InBox(box) THEN [box[x] EXCEPT !.curr_counter = @ - 1]
     ELSE box[x]]

\* The box after the end of one iteration of run and the top of the next:
\* decrease_penalty_box_counters, add_to_penalty_box, and in set_round_lists
\* update_penalty_box with its own add_to_penalty_box, and add_to_penalty_box.
NextBox(box, disconnected) ==
  AddToBox(AddToBox(Elapse(AddToBox(Decrease(box), disconnected)),
                    disconnected), disconnected)

NextList_keeps(list, box, disconnected) == list

\* The list after the same steps: set_round_lists removes the disconnected,
\* update_penalty_box puts back those whose time is over.
NextList(list, box, disconnected) ==
  (list \ disconnected)
    \cup Released(AddToBox(Decrease(box), disconnected))

\* get_cancel_coordinatorID: the most honest node first, then the lowest id.
CancelCoordinator(box, view) ==
  LET before(x, y) ==
        \/ box[x].honesty_counter > box[y].honesty_counter
        \/ box[x].honesty_counter = box[y].honesty_counter /\ x < y
  IN  CHOOSE x \in DOMAIN box :
        Cardinality({y \in DOMAIN box : before(y, x)}) = view
=============================================================================
