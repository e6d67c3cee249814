------------------------- MODULE CancellationProofs -------------------------
(***************************************************************************)
(* Proofs about Cancellation, for any number of writers, any links lost,   *)
(* any writers down or ahead, any timeouts and any number of rounds.       *)
(***************************************************************************)
EXTENDS Cancellation, TLAPS, SequenceTheorems, FiniteSetTheorems,
        WellFoundedInduction

----------------------------------------------------------------------------
(* What the theorems assume, and the invariant.                             *)

\* Four writers at least reach every writer that is up.
EnoughReach ==
  \A s \in Scenarios :
    Cardinality({x \in s.writers :
                   \A m \in s.writers \ s.down : {m, x} \notin s.links}) >= 4

\* The writers some writer that is up has lost.
Lost == {x \in Writers : \E m \in Up : {m, x} \in scenario.links}

\* Where a node accuses one.
Accusing == {"proposals", "requested", "ballot"}

\* Every accusation under way is of a lost writer.
GoodMessages(queue) ==
  \A m \in queue :
    /\ m.type = "propose_cancel" => m.faulty_node \in Lost
    /\ m.type = "request_cancel" => m.vote[2] \in Lost

AccusationInv ==
  /\ inactive \in [Writers -> SUBSET Lost]
  /\ disconnected_nodes \in [Writers -> Seq(Lost)]
  /\ accused \in [Writers -> Ids]
  /\ \A n \in Writers : pc[n] \in Accusing => accused[n] \in Lost
  /\ GoodMessages(msgs)

\* While votes are counted those for the accuser, but for the last of them, are
\* a third of the list at most: one more would have closed the ballot.
BallotInv ==
  /\ pc \in [Writers -> {"crashed", "round", "proposals", "requested",
                         "ballot", "dead"}]
  /\ ballot \in [Writers -> [accuser : Nat, accused : Nat, all : Nat]]
  /\ \A n \in Writers : pc[n] = "ballot" =>
       /\ ballot[n].accuser <= ballot[n].all
       /\ 3 * (ballot[n].accuser - 1) <= Size(n)

\* A list holds all the writers nobody has lost, and a box no other.
Flagged(box) == \A x \in DOMAIN box : "in_penalty_box" \in DOMAIN box[x]

MembersInv ==
  /\ round_writer_list \in [Writers -> SUBSET Writers]
  /\ \A n \in Writers : scenario.writers \ Lost \subseteq round_writer_list[n]
  /\ DOMAIN penalty_box = Writers
  /\ \A n \in Writers :
       /\ DOMAIN penalty_box[n] = scenario.writers /\ Flagged(penalty_box[n])
       /\ InBox(penalty_box[n]) \subseteq Lost

IInv ==
  scenario \in Scenarios /\ AccusationInv /\ BallotInv /\ MembersInv

\* One writer has crashed, of four or more, and nobody was ahead of the others.
OneCrash ==
  \A s \in Scenarios :
    /\ s.ahead = {} /\ Cardinality(s.writers) >= 4
    /\ \E x \in s.writers : s.down = {x} /\ \A l \in s.links : x \in l

\* The rounds a sanctioned writer stays in the box, the first time.
FirstPenalty == 7

\* The box k rounds after the crashed writer was sanctioned: three calls of
\* add_to_penalty_box double the penalty, two counters a round run it down.
BoxAfter(k) ==
  [m \in scenario.writers |->
     IF m \in scenario.down
     THEN [counter |-> 4, in_penalty_box |-> TRUE, curr_counter |-> 16 - 2 * k,
           honesty_counter |-> 0]
     ELSE [counter |-> 1, in_penalty_box |-> FALSE, curr_counter |-> 0,
           honesty_counter |-> k + 1]]

\* A node has not finished the cancellation, or has sanctioned the crashed one.
Before(n) ==
  /\ cancel_number[n] = 0 /\ height[n] = StartHeight
  /\ round_writer_list[n] = scenario.writers
  /\ penalty_box[n] = [m \in scenario.writers |-> NewEntry]

After(n) ==
  /\ cancel_number[n] = 1 /\ pc[n] = "round" /\ disconnected_nodes[n] = <<>>
  /\ round_writer_list[n] = scenario.writers \ scenario.down
  /\ \E k \in 0 .. FirstPenalty :
       height[n] = StartHeight + k /\ penalty_box[n] = BoxAfter(k)

\* No message is of a second cancellation.
VerdictInv ==
  /\ cancel_number \in [Writers -> {0, 1}] /\ height \in [Writers -> Nat]
  /\ \A n \in Writers : Before(n) \/ After(n)
  /\ \A m \in msgs : m.cancel_number = 0

\* Every writer that is up loses the one that has crashed, which is not the
\* first of them, and no timeout is too short.
Noticed(s) ==
  /\ s.patient
  /\ \A x \in s.down : /\ \A m \in s.writers \ s.down : {m, x} \in s.links
                       /\ \E m \in s.writers : m < x

\* Or it is one of four, whichever timeouts expire.
OneOfFour(s) == Cardinality(s.writers) = 4

\* The first writer coordinates view 0 of the cancellation, and of its messages
\* only that request is awaited which it sends when it has proposals enough.
First == Min(scenario.writers)

Asked == pc[First] = "ballot" \/ cancel_number[First] = 1

ProposalsOf(m) ==
  {p \in msgs : p.type = "propose_cancel" /\ p.from = m /\ p.to = First}

Counted == {m \in Up \ {First} : pc[m] = "requested" /\ ProposalsOf(m) = {}}

\* Before, all proposals are under way or counted.
CollectInv ==
  /\ \A n \in Up \ {First} : pc[n] \in {"round", "requested"} /\ cancel_number[n] = 0
  /\ \A p \in msgs :
       /\ p.type = "propose_cancel"
       /\ p.to = First => p.from \in Up \ {First} /\ pc[p.from] = "requested"
  /\ \A p, q \in msgs : p.to = First /\ q.to = First /\ p.from = q.from => p = q
  /\ pc[First] = "round" => Counted = {}
  /\ pc[First] = "proposals" => /\ received[First] = 1 + Cardinality(Counted)
                                /\ received[First] < Supermajority(First)

\* Afterwards, whoever has not voted has its request.
AskedInv ==
  \A n \in Up \ {First} :
    cancel_number[n] = 0 /\ pc[n] # "ballot" =>
      \E m \in msgs : m.type = "request_cancel" /\ m.to = n

TimelyInv ==
  /\ DOMAIN view_changed = Writers /\ received \in [Writers -> Nat]
  /\ \A n \in Writers : ~view_changed[n]
  /\ \A n \in Up : /\ pc[n] \in {"round", "proposals", "requested", "ballot"}
                   /\ pc[n] = "proposals" => n = First
                   /\ pc[n] = "requested" => n # First
  /\ \A m \in msgs :
       /\ m.type \in {"propose_cancel", "request_cancel", "vote_cancel"}
       /\ m.type # "vote_cancel" => m.block = StartHeight
  /\ ~Asked => CollectInv
  /\ Asked => AskedInv

\* Of three nodes that are up, the second to ask for another view has been asked
\* for it once at most, so that two ask when they vote; only the third can ask
\* because it was asked, and gets to view 1.
Voted(n) == pc[n] = "ballot" \/ cancel_number[n] = 1

Changed(n) == Voted(n) \/ view_changed[n] \/ view[n] = 1

Asking == {"view_change", "new_view"}

FourInv ==
  /\ DOMAIN view = Writers /\ DOMAIN view_changed = Writers
  /\ DOMAIN min_view_change = Writers
  /\ \A n \in Up :
       /\ pc[n] \in {"round", "proposals", "requested", "ballot"}
       /\ view[n] \in {0, 1}
       /\ view[n] = 1 \/ view_changed[n] => \A k \in Up \ {n} : Voted(k)
       /\ pc[n] = "requested" /\ view[n] = 1 => ~view_changed[n]
       /\ pc[n] = "round" /\ cancel_number[n] = 0 =>
            ~view_changed[n] /\ view[n] = 0
       /\ pc[n] = "proposals" =>
            /\ view[n] = 0
            /\ view_changed[n] =>
                 \E m \in msgs : /\ m.type = "view_change" /\ m.to = n
                                 /\ m.view = min_view_change[n]
  /\ \A m \in msgs :
       /\ m.type \in {"propose_cancel", "request_cancel", "vote_cancel"} \cup Asking
       /\ m.type # "vote_cancel" => m.block = StartHeight
       /\ m.type \in Asking =>
            /\ m.from \in Up /\ m.to \in Up \ {m.from} /\ Changed(m.from)
            /\ \/ Voted(m.to)
               \/ m.type = "view_change" /\ m.view = 1 /\ Voted(m.from)
  /\ \A p, q \in msgs :
       p.type \in Asking /\ q.type \in Asking /\ p.from = q.from
         /\ p.to = q.to => p = q \/ Voted(p.to)

\* What holds of the survivors of a crash that all notice, or of one of four.
SurvivorsInv ==
  /\ Noticed(scenario) => TimelyInv
  /\ OneOfFour(scenario) => FourInv

----------------------------------------------------------------------------
(* The order of the peers.                                                  *)

\* A finite set of numbers has a greatest member.
LEMMA GreatestOf ==
  ASSUME NEW S, IsFiniteSet(S), S # {}, \A x \in S : x \in Nat
  PROVE  \E x \in S : \A y \in S : y <= x
<1>. DEFINE Above(x) == {y \in S : x < y}
            T == {Cardinality(Above(x)) : x \in S}
            R == OpToRel(<, Nat)
<1>1. \A x \in S : IsFiniteSet(Above(x)) /\ Cardinality(Above(x)) \in Nat
  <2>1. \A x \in S : Above(x) \in SUBSET S
    OBVIOUS
  <2>. HIDE DEF Above
  <2>. QED
    BY <2>1, FS_Subset, FS_CardinalityType
<1>2. \A k, l \in Nat : <<k, l>> \in R <=> k < l
  BY DEF OpToRel
<1>3. PICK k \in T : \A l \in T : ~(<<l, k>> \in R)
  <2>1. T \subseteq Nat /\ T # {}
    BY <1>1
  <2>2. IsWellFoundedOn(R, Nat)
    BY NatLessThanWellFounded
  <2>. HIDE DEF T, R
  <2>. QED
    BY <2>1, <2>2, WFMin
<1>4. PICK x \in S : k = Cardinality(Above(x))
  OBVIOUS
<1>5. ASSUME NEW y \in S, x < y PROVE FALSE
  <2>1. Above(y) \in SUBSET Above(x) /\ y \in Above(x) /\ y \notin Above(y)
    BY <1>5
  <2>2. Cardinality(Above(y)) < Cardinality(Above(x))
    <3>. HIDE DEF Above
    <3>. QED
      BY <1>1, <2>1, FS_Subset, FS_CardinalityType
  <2>3. <<Cardinality(Above(y)), Cardinality(Above(x))>> \in R
    BY <1>1, <1>2, <2>2
  <2>. HIDE DEF R, Above
  <2>. QED
    BY <1>3, <1>4, <2>3
<1>. QED
  BY <1>5

LEMMA MinOfNats ==
  ASSUME NEW T, \A x \in T : x \in Nat, T # {}
  PROVE  Min(T) \in T /\ \A y \in T : Min(T) <= y
<1>. DEFINE R == OpToRel(<, Nat)
<1>1. IsWellFoundedOn(R, Nat)
  BY NatLessThanWellFounded
<1>2. \A x, y \in Nat : <<y, x>> \in R <=> y < x
  BY DEF OpToRel
<1>. HIDE DEF R
<1>3. PICK x \in T : \A y \in T : ~(<<y, x>> \in R)
  <2>1. T \subseteq Nat
    OBVIOUS
  <2>. QED
    BY <1>1, <2>1, WFMin
<1>4. ASSUME NEW y \in T PROVE x <= y
  <2>1. ~(y < x)
    BY <1>2, <1>3
  <2>. QED
    BY <2>1
<1>. QED
  BY <1>4 DEF Min

\* The order of a set is a sequence of its members, and empty only if it is.
LEMMA InOrderOf ==
  ASSUME NEW S, IsFiniteSet(S), \A x \in S : x \in Nat
  PROVE  InOrder(S) \in Seq(S)
<1>. DEFINE Below(x) == {y \in S : y < x}
            From(i) == {x \in S : Cardinality(Below(x)) >= i - 1}
<1>1. Cardinality(S) \in Nat
  BY FS_CardinalityType
<1>2. ASSUME NEW i \in 1 .. Cardinality(S)
      PROVE  Min(From(i)) \in S
  <2>1. S # {}
    BY <1>1, <1>2, FS_EmptySet
  <2>2. PICK x \in S : \A y \in S : y <= x
    BY <2>1, GreatestOf
  <2>3. Below(x) = S \ {x}
    BY <2>2
  <2>4. Cardinality(Below(x)) = Cardinality(S) - 1
    BY <2>3, FS_RemoveElement
  <2>5. From(i) # {}
    <3>. HIDE DEF Below
    <3>. QED
      BY <1>1, <2>4
  <2>6. From(i) \subseteq S /\ \A y \in From(i) : y \in Nat
    OBVIOUS
  <2>. HIDE DEF From
  <2>. QED
    BY <2>5, <2>6, MinOfNats
<1>3. InOrder(S) = [i \in 1 .. Cardinality(S) |-> Min(From(i))]
  BY DEF InOrder
<1>. HIDE DEF From
<1>. QED
  BY <1>1, <1>2, <1>3

\* What a node has lost, in the order it found out.
LEMMA DisconnectedLost ==
  ASSUME IInv, NEW n \in Writers
  PROVE  /\ Disconnected(n) \in Seq(Lost)
         /\ \A x \in Range(Disconnected(n)) : x \in Lost
         /\ Disconnected(n) # <<>> => Disconnected(n)[1] \in Lost
<1>. DEFINE S == inactive[n] \ (InBox(penalty_box[n])
                                  \cup Range(disconnected_nodes[n]))
<1>1. disconnected_nodes[n] \in Seq(Lost) /\ inactive[n] \in SUBSET Lost
  BY DEF IInv, AccusationInv
<1>2. S \in SUBSET Writers /\ S \in SUBSET Lost
  BY <1>1 DEF Lost
<1>3. IsFiniteSet(S) /\ \A x \in S : x \in Nat
  BY <1>2, FS_Subset, CancellationAssumption
<1>. HIDE DEF S
<1>4. InOrder(S) \in Seq(S)
  BY <1>3, InOrderOf
<1>5. InOrder(S) \in Seq(Lost)
  BY <1>2, <1>4
<1>6. Disconnected(n) \in Seq(Lost)
  BY <1>1, <1>5 DEF Disconnected, S
<1>. HIDE DEF Lost
<1>7. \A i \in DOMAIN Disconnected(n) : Disconnected(n)[i] \in Lost
  BY <1>6
<1>8. Disconnected(n) # <<>> => 1 \in DOMAIN Disconnected(n)
  BY <1>6
<1>. QED
  BY <1>6, <1>7, <1>8 DEF Range

----------------------------------------------------------------------------
(* Penalty boxes and lists at the end of a round.                           *)

LEMMA AddedToBox ==
  ASSUME NEW box, Flagged(box), NEW disconnected
  PROVE  LET new == AddToBox(box, disconnected) IN
         /\ DOMAIN new = DOMAIN box /\ Flagged(new)
         /\ InBox(new) \subseteq InBox(box) \cup (disconnected \cap DOMAIN box)
BY DEF AddToBox, InBox, Flagged

LEMMA DecreasedBox ==
  ASSUME NEW box, Flagged(box)
  PROVE  /\ DOMAIN Decrease(box) = DOMAIN box /\ Flagged(Decrease(box))
         /\ InBox(Decrease(box)) \subseteq InBox(box)
<1>1. \A x \in DOMAIN box :
        "in_penalty_box" \in DOMAIN [box[x] EXCEPT !.curr_counter = @ - 1]
  BY DEF Flagged
<1>. QED
  BY <1>1 DEF Decrease, InBox, Flagged

LEMMA ElapsedBox ==
  ASSUME NEW box, Flagged(box)
  PROVE  /\ DOMAIN Elapse(box) = DOMAIN box /\ Flagged(Elapse(box))
         /\ InBox(Elapse(box)) \subseteq InBox(box)
<1>1. DOMAIN Elapse(box) = DOMAIN box
  BY DEF Elapse
<1>2. ASSUME NEW x \in DOMAIN box
      PROVE  /\ "in_penalty_box" \in DOMAIN Elapse(box)[x]
             /\ x \notin InBox(box) =>
                  Elapse(box)[x].in_penalty_box = box[x].in_penalty_box
  <2>1. "in_penalty_box" \in DOMAIN box[x]
    BY DEF Flagged
  <2>2. CASE x \in Released(box)
    BY <2>1, <2>2 DEF Elapse, Released
  <2>3. CASE x \in InBox(box) /\ x \notin Released(box)
    BY <2>1, <2>3 DEF Elapse
  <2>4. CASE x \notin InBox(box)
    <3>1. Elapse(box)[x] = [box[x] EXCEPT !.honesty_counter = @ + 1]
      BY <2>4 DEF Elapse, Released
    <3>. QED
      BY <2>1, <3>1
  <2>. QED
    BY <2>2, <2>3, <2>4
<1>. QED
  BY <1>1, <1>2 DEF InBox, Flagged

\* The box of the next round holds nobody but those it held and the
\* disconnected, and its list all who were on it but the disconnected.
LEMMA BoxAndListNext ==
  ASSUME NEW box, Flagged(box), NEW list, NEW disconnected
  PROVE  /\ DOMAIN NextBox(box, disconnected) = DOMAIN box
         /\ Flagged(NextBox(box, disconnected))
         /\ InBox(NextBox(box, disconnected)) \subseteq
              InBox(box) \cup (disconnected \cap DOMAIN box)
         /\ list \ disconnected \subseteq NextList(list, box, disconnected)
         /\ NextList(list, box, disconnected) \subseteq list \cup DOMAIN box
<1>. DEFINE b1 == Decrease(box)
            b2 == AddToBox(b1, disconnected)
            b3 == Elapse(b2)
            b4 == AddToBox(b3, disconnected)
            b5 == AddToBox(b4, disconnected)
            Known == InBox(box) \cup (disconnected \cap DOMAIN box)
<1>1. DOMAIN b1 = DOMAIN box /\ Flagged(b1) /\ InBox(b1) \subseteq Known
  BY DecreasedBox
<1>2. DOMAIN b2 = DOMAIN box /\ Flagged(b2) /\ InBox(b2) \subseteq Known
  <2>. HIDE DEF b1
  <2>. QED
    BY <1>1, AddedToBox
<1>3. DOMAIN b3 = DOMAIN box /\ Flagged(b3) /\ InBox(b3) \subseteq Known
  <2>. HIDE DEF b2
  <2>. QED
    BY <1>2, ElapsedBox
<1>4. DOMAIN b4 = DOMAIN box /\ Flagged(b4) /\ InBox(b4) \subseteq Known
  <2>. HIDE DEF b3
  <2>. QED
    BY <1>3, AddedToBox
<1>5. DOMAIN b5 = DOMAIN box /\ Flagged(b5) /\ InBox(b5) \subseteq Known
  <2>. HIDE DEF b4
  <2>. QED
    BY <1>4, AddedToBox
<1>6. Released(b2) \subseteq DOMAIN box
  BY <1>2 DEF Released, InBox
<1>. QED
  BY <1>5, <1>6 DEF NextBox, NextList

\* A box in which x has one entry and all others another.  The provers take
\* the two truth values for terms only if they have names.
Entry(counter, in, curr, honesty) ==
  [counter |-> counter, in_penalty_box |-> in, curr_counter |-> curr,
   honesty_counter |-> honesty]

Truths(yes, no) == yes = TRUE /\ no = FALSE

Box(W, x, entry, other) == [m \in W |-> IF m = x THEN entry ELSE other]

LEMMA BoxAdds ==
  ASSUME NEW W, NEW x \in W, NEW c, NEW curr, NEW other, NEW yes, NEW no,
         Truths(yes, no), NEW d, d = c + 1, NEW penalty, penalty = 2 ^ d
  PROVE  AddToBox(Box(W, x, Entry(c, yes, curr, 0), other), {x})
           = Box(W, x, Entry(d, yes, penalty, 0), other)
<1>. DEFINE entry == Entry(c, yes, curr, 0)
            box == Box(W, x, entry, other)
            added == [counter |-> entry.counter + 1, in_penalty_box |-> yes,
                      curr_counter |-> 2 ^ (entry.counter + 1),
                      honesty_counter |-> 0]
<1>1. /\ DOMAIN box = W /\ box[x] = entry
      /\ \A m \in W \ {x} : box[m] = other
  BY DEF Box
<1>2. entry.counter = c
  BY DEF Entry
<1>3. added = Entry(d, yes, penalty, 0)
  <2>. HIDE DEF entry
  <2>. QED
    BY <1>2 DEF Entry
<1>. HIDE DEF entry, box
<1>4. AddToBox(box, {x}) = [m \in W |-> IF m = x THEN added ELSE other]
  BY <1>1 DEF AddToBox, Truths
<1>. HIDE DEF added
<1>. QED
  BY <1>3, <1>4 DEF Box, box, entry

LEMMA BoxAddsNone ==
  ASSUME NEW W, NEW x, NEW entry, NEW other
  PROVE  AddToBox(Box(W, x, entry, other), {}) = Box(W, x, entry, other)
BY DEF AddToBox, Box

LEMMA BoxDecreases ==
  ASSUME NEW W, NEW x \in W, NEW c, NEW curr, NEW h, NEW yes, NEW no,
         Truths(yes, no)
  PROVE  Decrease(Box(W, x, Entry(c, yes, curr, 0), Entry(1, no, 0, h)))
           = Box(W, x, Entry(c, yes, curr - 1, 0), Entry(1, no, 0, h))
<1>. DEFINE entry == Entry(c, yes, curr, 0)
            other == Entry(1, no, 0, h)
            box == Box(W, x, entry, other)
<1>1. /\ DOMAIN box = W /\ box[x] = entry
      /\ \A m \in W \ {x} : box[m] = other
  BY DEF Box
<1>2. /\ entry.in_penalty_box = yes /\ other.in_penalty_box = no
      /\ [entry EXCEPT !.curr_counter = @ - 1] = Entry(c, yes, curr - 1, 0)
  BY DEF Entry
<1>. HIDE DEF box, entry, other
<1>3. InBox(box) = {x}
  BY <1>1, <1>2 DEF InBox, Truths
<1>4. Decrease(box) = Box(W, x, Entry(c, yes, curr - 1, 0), other)
  BY <1>1, <1>2, <1>3 DEF Decrease, Box
<1>. QED
  BY <1>4 DEF box, entry, other

LEMMA BoxElapses ==
  ASSUME NEW W, NEW x \in W, NEW c, NEW curr, NEW h, NEW yes, NEW no,
         Truths(yes, no), ~(curr <= 1)
  PROVE  /\ Released(Box(W, x, Entry(c, yes, curr, 0), Entry(1, no, 0, h))) = {}
         /\ Elapse(Box(W, x, Entry(c, yes, curr, 0), Entry(1, no, 0, h)))
              = Box(W, x, Entry(c, yes, curr - 1, 0), Entry(1, no, 0, h + 1))
<1>. DEFINE entry == Entry(c, yes, curr, 0)
            other == Entry(1, no, 0, h)
            box == Box(W, x, entry, other)
<1>1. /\ DOMAIN box = W /\ box[x] = entry
      /\ \A m \in W \ {x} : box[m] = other
  BY DEF Box
<1>2. /\ entry.in_penalty_box = yes /\ other.in_penalty_box = no
      /\ entry.curr_counter = curr
      /\ [entry EXCEPT !.curr_counter = @ - 1] = Entry(c, yes, curr - 1, 0)
      /\ [other EXCEPT !.honesty_counter = @ + 1] = Entry(1, no, 0, h + 1)
  BY DEF Entry
<1>. HIDE DEF box, entry, other
<1>3. InBox(box) = {x}
  BY <1>1, <1>2 DEF InBox, Truths
<1>4. Released(box) = {}
  BY <1>1, <1>2, <1>3 DEF Released
<1>5. Elapse(box) =
        [m \in W |-> IF m = x THEN [box[m] EXCEPT !.curr_counter = @ - 1]
                     ELSE [box[m] EXCEPT !.honesty_counter = @ + 1]]
  BY <1>1, <1>3, <1>4 DEF Elapse
<1>6. Elapse(box) =
        Box(W, x, Entry(c, yes, curr - 1, 0), Entry(1, no, 0, h + 1))
  BY <1>1, <1>2, <1>5 DEF Box
<1>. QED
  BY <1>4, <1>6 DEF box, entry, other

\* The box after the verdict, and one round later.
LEMMA BoxOfVerdict ==
  ASSUME NEW x, NEW W, x \in W, NEW box, box = [m \in W |-> NewEntry],
         scenario.writers = W, scenario.down = {x}
  PROVE  /\ NextBox(box, {x}) = BoxAfter(0)
         /\ \A list : NextList(list, box, {x}) = list \ {x}
<1>. PICK yes, no : Truths(yes, no)
  BY DEF Truths
<1>. DEFINE other == Entry(1, no, 0, 0)
            added == [counter |-> 1 + 1, in_penalty_box |-> yes,
                      curr_counter |-> 2 ^ (1 + 1), honesty_counter |-> 0]
<1>1. Decrease(box) = box
  BY DEF Decrease, InBox, NewEntry
<1>2. AddToBox(box, {x}) = Box(W, x, Entry(2, yes, 4, 0), other)
  <2>1. NewEntry = other /\ NewEntry.counter = 1
    BY DEF NewEntry, Entry, Truths
  <2>2. 1 + 1 = 2 /\ 2 ^ 2 = 4
    OBVIOUS
  <2>3. added = Entry(2, yes, 4, 0)
    BY <2>2 DEF Entry
  <2>4. \A m \in W : box[m] = other /\ box[m].counter = 1
    BY <2>1
  <2>. HIDE DEF other
  <2>5. AddToBox(box, {x}) = [m \in W |-> IF m = x THEN added ELSE other]
    BY <2>4 DEF AddToBox, Truths
  <2>. HIDE DEF added
  <2>. QED
    BY <2>3, <2>5 DEF Box
<1>3. /\ Released(AddToBox(box, {x})) = {}
      /\ Elapse(AddToBox(box, {x})) =
           Box(W, x, Entry(2, yes, 3, 0), Entry(1, no, 0, 1))
  BY <1>2, BoxElapses
<1>4. /\ 3 = 2 + 1 /\ 8 = 2 ^ 3 /\ 4 = 3 + 1 /\ 16 = 2 ^ 4
      /\ 16 - 2 * 0 = 16 /\ 0 + 1 = 1
  OBVIOUS
<1>. HIDE DEF added, other
<1>5. AddToBox(Box(W, x, Entry(2, yes, 3, 0), Entry(1, no, 0, 1)), {x})
        = Box(W, x, Entry(3, yes, 8, 0), Entry(1, no, 0, 1))
  <2>1. PICK c, d, p : c = 2 /\ d = 3 /\ p = 8
    OBVIOUS
  <2>2. d = c + 1 /\ p = 2 ^ d
    BY <1>4, <2>1
  <2>3. AddToBox(Box(W, x, Entry(c, yes, 3, 0), Entry(1, no, 0, 1)), {x})
          = Box(W, x, Entry(d, yes, p, 0), Entry(1, no, 0, 1))
    BY <2>2, BoxAdds
  <2>. QED
    BY <2>1, <2>3
<1>6. AddToBox(Box(W, x, Entry(3, yes, 8, 0), Entry(1, no, 0, 1)), {x})
        = Box(W, x, Entry(4, yes, 16, 0), Entry(1, no, 0, 1))
  <2>1. PICK c, d, p : c = 3 /\ d = 4 /\ p = 16
    OBVIOUS
  <2>2. d = c + 1 /\ p = 2 ^ d
    BY <1>4, <2>1
  <2>3. AddToBox(Box(W, x, Entry(c, yes, 8, 0), Entry(1, no, 0, 1)), {x})
          = Box(W, x, Entry(d, yes, p, 0), Entry(1, no, 0, 1))
    BY <2>2, BoxAdds
  <2>. QED
    BY <2>1, <2>3
<1>7. \A k \in Int : BoxAfter(k) = Box(W, x, Entry(4, yes, 16 - 2 * k, 0),
                                       Entry(1, no, 0, k + 1))
  BY DEF BoxAfter, Box, Entry, Truths
<1>8. BoxAfter(0) = Box(W, x, Entry(4, yes, 16, 0), Entry(1, no, 0, 1))
  BY <1>4, <1>7
<1>. QED
  BY <1>1, <1>3, <1>5, <1>6, <1>8 DEF NextBox, NextList

LEMMA BoxOfRound ==
  ASSUME NEW x, NEW W, x \in W, NEW k \in 0 .. FirstPenalty - 1,
         scenario.writers = W, scenario.down = {x}
  PROVE  /\ NextBox(BoxAfter(k), {}) = BoxAfter(k + 1)
         /\ \A list : NextList(list, BoxAfter(k), {}) = list
<1>. PICK yes, no : Truths(yes, no)
  BY DEF Truths
<1>1. \A l \in Int : BoxAfter(l) = Box(W, x, Entry(4, yes, 16 - 2 * l, 0), Entry(1, no, 0, l + 1))
  BY DEF BoxAfter, Box, Entry, Truths
<1>2. PICK c \in Int : c = 16 - 2 * k
  OBVIOUS
<1>3. /\ ~(c - 1 <= 1) /\ c - 1 - 1 = 16 - 2 * (k + 1)
      /\ (k + 1) + 1 = k + 2 /\ k + 1 \in Int /\ k \in Int
  BY <1>2 DEF FirstPenalty
<1>4. Decrease(BoxAfter(k)) = Box(W, x, Entry(4, yes, c - 1, 0), Entry(1, no, 0, k + 1))
  BY <1>1, <1>2, <1>3, BoxDecreases
<1>5. AddToBox(Decrease(BoxAfter(k)), {}) = Decrease(BoxAfter(k))
  BY <1>4, BoxAddsNone
<1>6. /\ Released(Decrease(BoxAfter(k))) = {}
      /\ Elapse(Decrease(BoxAfter(k)))
           = Box(W, x, Entry(4, yes, c - 1 - 1, 0), Entry(1, no, 0, (k + 1) + 1))
  BY <1>3, <1>4, BoxElapses
<1>7. Elapse(Decrease(BoxAfter(k))) = BoxAfter(k + 1)
  BY <1>1, <1>3, <1>6
<1>8. AddToBox(BoxAfter(k + 1), {}) = BoxAfter(k + 1)
  BY <1>1, <1>3, BoxAddsNone
<1>. QED
  BY <1>5, <1>6, <1>7, <1>8 DEF NextBox, NextList

----------------------------------------------------------------------------
(* Messages.                                                                *)

LEMMA GoodTogether ==
  ASSUME NEW P, NEW Q, GoodMessages(P), GoodMessages(Q)
  PROVE  GoodMessages(P \cup Q) /\ \A R \in SUBSET P : GoodMessages(R)
BY DEF GoodMessages

----------------------------------------------------------------------------
(* The steps of a cancellation before its verdict.                          *)

\* The lists are as long as there are writers nobody has lost, or longer.
LEMMA SizeOfList ==
  ASSUME IInv, NEW n \in Writers
  PROVE  /\ Size(n) \in Nat
         /\ EnoughReach => Size(n) >= 4
<1>. DEFINE Reaching == {x \in scenario.writers :
                           \A m \in scenario.writers \ scenario.down :
                             {m, x} \notin scenario.links}
<1>1. scenario \in Scenarios /\ scenario.writers \subseteq Writers
  BY CancellationAssumption DEF IInv, Scenario
<1>2. Reaching = scenario.writers \ Lost
  BY <1>1 DEF Lost, Up
<1>3. Reaching \subseteq round_writer_list[n]
      /\ round_writer_list[n] \subseteq Writers
  BY <1>2 DEF IInv, MembersInv
<1>4. IsFiniteSet(round_writer_list[n]) /\ Size(n) \in Nat
  BY <1>3, FS_Subset, FS_CardinalityType, CancellationAssumption DEF Size
<1>5. IsFiniteSet(Reaching) /\ Cardinality(Reaching) \in Nat
      /\ Cardinality(Reaching) <= Size(n)
  BY <1>3, <1>4, FS_Subset, FS_CardinalityType DEF Size
<1>6. EnoughReach => Cardinality(Reaching) >= 4
  BY <1>1 DEF EnoughReach
<1>. HIDE DEF Reaching
<1>. QED
  BY <1>4, <1>5, <1>6

\* A step that leaves the configuration alone and accuses only the lost.
LEMMA StepKeeps ==
  ASSUME IInv, Frame, NEW n \in Writers,
         NEW next \in {"proposals", "requested", "ballot", "dead"},
         pc' = [pc EXCEPT ![n] = next],
         NEW acc \in Ids, accused' = [accused EXCEPT ![n] = acc],
         next \in Accusing => acc \in Lost,
         NEW lost \in Seq(Lost),
         disconnected_nodes' = [disconnected_nodes EXCEPT ![n] = lost],
         NEW votes \in [accuser : Nat, accused : Nat, all : Nat],
         ballot' = [ballot EXCEPT ![n] = votes],
         next = "ballot" => /\ votes.accuser <= votes.all
                            /\ 3 * (votes.accuser - 1) <= Size(n),
         GoodMessages(msgs')
  PROVE  IInv'
<1>1. /\ UNCHANGED <<scenario, inactive, round_writer_list, penalty_box>>
      /\ Lost' = Lost
  BY DEF Frame, Lost, Up
<1>2. AccusationInv'
  <2>1. /\ inactive' \in [Writers -> SUBSET Lost]
        /\ disconnected_nodes' \in [Writers -> Seq(Lost)]
        /\ accused' \in [Writers -> Ids]
    BY <1>1 DEF IInv, AccusationInv
  <2>2. ASSUME NEW k \in Writers, pc'[k] \in Accusing
        PROVE  accused'[k] \in Lost
    BY <2>2 DEF IInv, AccusationInv, BallotInv
  <2>3. GoodMessages(msgs)'
    BY <1>1 DEF GoodMessages
  <2>. QED
    BY <1>1, <2>1, <2>2, <2>3 DEF AccusationInv
<1>3. BallotInv'
  <2>1. /\ pc' \in [Writers -> {"crashed", "round", "proposals", "requested",
                                "ballot", "dead"}]
        /\ ballot' \in [Writers -> [accuser : Nat, accused : Nat, all : Nat]]
    BY DEF IInv, BallotInv
  <2>2. ASSUME NEW k \in Writers, pc'[k] = "ballot"
        PROVE  /\ ballot'[k].accuser <= ballot'[k].all
               /\ 3 * (ballot'[k].accuser - 1) <= Size(k)'
    <3>1. Size(k)' = Size(k)
      BY <1>1 DEF Size
    <3>2. CASE k = n
      BY <2>2, <3>1, <3>2 DEF IInv, BallotInv
    <3>3. CASE k # n
      BY <2>2, <3>1, <3>3 DEF IInv, BallotInv
    <3>. QED
      BY <3>2, <3>3
  <2>. QED
    BY <2>1, <2>2 DEF BallotInv
<1>4. MembersInv'
  BY <1>1 DEF IInv, MembersInv
<1>. QED
  BY <1>1, <1>2, <1>3, <1>4 DEF IInv

\* A vote, whoever asks for it.
LEMMA VoteKeeps ==
  ASSUME IInv, Frame, NEW n \in Writers, NEW v, NEW acc, NEW accd \in Lost,
         NEW queue, GoodMessages(queue), Vote(n, v, acc, accd, queue)
  PROVE  IInv'
<1>. DEFINE votes == IF accd \in Range(Disconnected(n))
                     THEN [accuser |-> 0, accused |-> 1, all |-> 1]
                     ELSE [accuser |-> 1, accused |-> 0, all |-> 1]
<1>1. /\ pc' = [pc EXCEPT ![n] = "ballot"]
      /\ accused' = [accused EXCEPT ![n] = accd]
      /\ disconnected_nodes' = [disconnected_nodes EXCEPT ![n] = Disconnected(n)]
      /\ ballot' = [ballot EXCEPT ![n] = votes]
      /\ msgs' = queue \cup VoteFor(n, Choice(n, acc, accd))
  BY DEF Vote
<1>2. votes \in [accuser : Nat, accused : Nat, all : Nat]
  OBVIOUS
<1>3. votes.accuser <= votes.all /\ 3 * (votes.accuser - 1) <= Size(n)
  BY SizeOfList
<1>4. GoodMessages(msgs')
  BY <1>1, GoodTogether DEF GoodMessages, VoteFor
<1>5. Disconnected(n) \in Seq(Lost) /\ accd \in Ids
  BY DisconnectedLost DEF Lost, Ids
<1>. HIDE DEF votes
<1>. QED
  BY <1>1, <1>2, <1>3, <1>4, <1>5, StepKeeps

LEMMA RequestVoteKeeps ==
  ASSUME IInv, Frame, NEW n \in Writers, NEW v, NEW acc, NEW accd \in Lost,
         NEW queue, GoodMessages(queue), RequestVote(n, v, acc, accd, queue)
  PROVE  IInv'
<1>1. GoodMessages(queue \cup Request(n, v, acc, accd))
  BY DEF GoodMessages, Request
<1>. QED
  BY <1>1, VoteKeeps DEF RequestVote

\* A step that changes neither the ballot, the accused nor what was lost.
LEMMA WaitKeeps ==
  ASSUME IInv, Frame, NEW n \in Writers,
         NEW next \in {"proposals", "requested", "dead"},
         pc' = [pc EXCEPT ![n] = next],
         next \in Accusing => pc[n] \in Accusing,
         UNCHANGED <<accused, ballot, disconnected_nodes>>, GoodMessages(msgs')
  PROVE  IInv'
<1>1. /\ UNCHANGED <<scenario, inactive, round_writer_list, penalty_box>>
      /\ Lost' = Lost
  BY DEF Frame, Lost, Up
<1>2. AccusationInv'
  <2>1. ASSUME NEW k \in Writers, pc'[k] \in Accusing
        PROVE  accused[k] \in Lost
    <3>1. CASE k = n
      BY <2>1, <3>1 DEF IInv, AccusationInv, BallotInv
    <3>2. CASE k # n
      BY <2>1, <3>2 DEF IInv, AccusationInv, BallotInv
    <3>. QED
      BY <3>1, <3>2
  <2>2. GoodMessages(msgs)'
    BY <1>1 DEF GoodMessages
  <2>. QED
    BY <1>1, <2>1, <2>2 DEF IInv, AccusationInv
<1>3. BallotInv'
  <2>1. pc' \in [Writers -> {"crashed", "round", "proposals", "requested",
                             "ballot", "dead"}]
    BY DEF IInv, BallotInv
  <2>2. ASSUME NEW k \in Writers, pc'[k] = "ballot"
        PROVE  k # n /\ pc[k] = "ballot" /\ Size(k)' = Size(k)
    BY <1>1, <2>2 DEF IInv, BallotInv, Size
  <2>. QED
    BY <2>1, <2>2 DEF IInv, BallotInv
<1>4. MembersInv'
  BY <1>1 DEF IInv, MembersInv
<1>. QED
  BY <1>1, <1>2, <1>3, <1>4 DEF IInv

LEMMA EnterViewKeeps ==
  ASSUME IInv, Frame, NEW n \in Writers, NEW v,
         NEW queue, GoodMessages(queue), EnterView(n, v, queue),
         pc[n] \in Accusing
  PROVE  IInv'
<1>. DEFINE last == v >= Cardinality(DOMAIN penalty_box[n])
<1>1. CASE /\ ~last /\ IsCoordinator(n, v)
           /\ RequestVote(n, v, IF accuser[n] = 0 THEN n ELSE accuser[n],
                          accused[n], queue)
  <2>1. accused[n] \in Lost
    BY DEF IInv, AccusationInv
  <2>. QED
    BY <1>1, <2>1, RequestVoteKeeps
<1>2. CASE /\ pc' = [pc EXCEPT ![n] = IF last THEN "dead" ELSE "requested"]
           /\ msgs' = queue
           /\ UNCHANGED <<accusation, ballot, disconnected_nodes>>
  <2>1. (IF last THEN "dead" ELSE "requested")
          \in {"proposals", "requested", "dead"}
    OBVIOUS
  <2>2. UNCHANGED <<accused, ballot, disconnected_nodes>>
    BY <1>2 DEF accusation
  <2>. HIDE DEF last
  <2>. QED
    BY <1>2, <2>1, <2>2, WaitKeeps
<1>. QED
  BY <1>1, <1>2 DEF EnterView

LEMMA SendNewViewKeeps ==
  ASSUME IInv, Frame, NEW n \in Writers, NEW v,
         NEW queue, GoodMessages(queue), SendNewView(n, v, queue),
         pc[n] \in Accusing
  PROVE  IInv'
<1>. DEFINE sent == (queue \ ViewQueue(n)) \cup ViewChange(n, "new_view", v)
<1>1. GoodMessages(sent)
  BY DEF GoodMessages, ViewChange
<1>2. CASE EnterView(n, view[n] + 1, sent)
  <2>. HIDE DEF sent
  <2>. QED
    BY <1>1, <1>2, EnterViewKeeps
<1>3. CASE /\ pc' = [pc EXCEPT ![n] = "dead"]
           /\ UNCHANGED <<accusation, ballot, disconnected_nodes, msgs>>
  <2>1. UNCHANGED <<accused, ballot, disconnected_nodes>>
    BY <1>3 DEF accusation
  <2>2. GoodMessages(msgs')
    BY <1>3 DEF IInv, AccusationInv
  <2>. QED
    BY <1>3, <2>1, <2>2, WaitKeeps
<1>. QED
  BY <1>2, <1>3 DEF SendNewView

\* A proposal, of a node's own or after another's.
LEMMA ProposeKeeps ==
  ASSUME IInv, Frame, NEW n \in Writers, NEW acc, NEW accd \in Lost,
         NEW queue, GoodMessages(queue), Propose(n, acc, accd, queue)
  PROVE  IInv'
<1>. DEFINE next == IF height[n] \in Json THEN "dead"
                    ELSE IF IsCoordinator(n, 0) THEN "proposals"
                    ELSE "requested"
<1>1. /\ pc' = [pc EXCEPT ![n] = next]
      /\ accused' = [accused EXCEPT ![n] = accd]
      /\ disconnected_nodes' = [disconnected_nodes EXCEPT ![n] = Disconnected(n)]
      /\ msgs' = queue \/ msgs' = queue \cup Proposal(n, accd)
      /\ ballot' = ballot
  BY DEF Propose
<1>2. GoodMessages(msgs')
  BY <1>1 DEF GoodMessages, Proposal
<1>3. /\ next \in {"proposals", "requested", "ballot", "dead"}
      /\ next # "ballot"
  OBVIOUS
<1>4. /\ ballot[n] \in [accuser : Nat, accused : Nat, all : Nat]
      /\ ballot' = [ballot EXCEPT ![n] = ballot[n]]
  BY <1>1 DEF IInv, BallotInv
<1>5. Disconnected(n) \in Seq(Lost) /\ accd \in Ids
  BY DisconnectedLost DEF Lost, Ids
<1>. HIDE DEF next
<1>. QED
  BY <1>1, <1>2, <1>3, <1>4, <1>5, StepKeeps

----------------------------------------------------------------------------
(* The actions of a node.                                                   *)

LEMMA FollowProposalKeeps ==
  ASSUME IInv, NEW n \in Writers, FollowProposal(n)
  PROVE  IInv'
<1>1. Frame /\ GoodMessages(msgs)
  BY DEF FollowProposal, IInv, AccusationInv
<1>2. PICK m \in Proposals(n) : Propose(n, m.from, m.faulty_node, msgs \ {m})
  BY DEF FollowProposal
<1>3. m.faulty_node \in Lost
  BY <1>1 DEF GoodMessages, Proposals, Inbox
<1>4. GoodMessages(msgs \ {m})
  BY <1>1 DEF GoodMessages
<1>. QED
  BY <1>1, <1>2, <1>3, <1>4, ProposeKeeps

LEMMA OwnProposalKeeps ==
  ASSUME IInv, NEW n \in Writers, OwnProposal(n)
  PROVE  IInv'
<1>1. Disconnected(n)[1] \in Lost
  BY DisconnectedLost DEF OwnProposal
<1>. QED
  BY <1>1, ProposeKeeps DEF OwnProposal, IInv, AccusationInv

LEMMA EndOfProposalsKeeps ==
  ASSUME IInv, Frame, NEW n \in Writers, NEW queue, GoodMessages(queue),
         EndOfProposals(n, queue), pc[n] = "proposals"
  PROVE  IInv'
<1>1. pc[n] \in Accusing /\ accused[n] \in Lost
  BY DEF IInv, AccusationInv, Accusing
<1>. QED
  BY <1>1, SendNewViewKeeps, RequestVoteKeeps DEF EndOfProposals

LEMMA ProposalsKeep ==
  ASSUME IInv, NEW n \in Writers,
         LastProposal(n) \/ OneMoreProposal(n) \/ ProposalsTimeOut(n)
  PROVE  IInv'
<1>1. Frame /\ GoodMessages(msgs) /\ pc[n] = "proposals"
  BY DEF LastProposal, OneMoreProposal, ProposalsTimeOut, IInv, AccusationInv
<1>2. CASE LastProposal(n)
  <2>1. PICK m \in Proposals(n) : EndOfProposals(n, msgs \ {m})
    BY <1>2 DEF LastProposal
  <2>2. GoodMessages(msgs \ {m})
    BY <1>1 DEF GoodMessages
  <2>. QED
    BY <1>1, <2>1, <2>2, EndOfProposalsKeeps
<1>3. CASE OneMoreProposal(n)
  <2>1. /\ pc[n] = "proposals"
        /\ UNCHANGED <<pc, accused, ballot, disconnected_nodes>>
    BY <1>3 DEF OneMoreProposal, accusation
  <2>2. PICK m \in Proposals(n) :
          \/ msgs' = msgs \ {m}
          \/ \E v : msgs' = (msgs \ {m}) \cup ViewChange(n, "view_change", v)
    BY <1>3 DEF OneMoreProposal
  <2>3. GoodMessages(msgs')
    BY <1>1, <2>2 DEF GoodMessages, ViewChange
  <2>4. pc' = [pc EXCEPT ![n] = "proposals"]
    BY <2>1 DEF IInv, BallotInv
  <2>. QED
    BY <1>1, <2>1, <2>3, <2>4, WaitKeeps DEF Accusing
<1>4. CASE ProposalsTimeOut(n)
  <2>1. PICK queue : /\ queue = msgs \/ queue = msgs \cup ViewChange(n, "view_change", 1)
                     /\ EndOfProposals(n, queue)
    BY <1>4 DEF ProposalsTimeOut
  <2>2. GoodMessages(queue)
    BY <1>1, <2>1 DEF GoodMessages, ViewChange
  <2>. QED
    BY <1>1, <2>1, <2>2, EndOfProposalsKeeps
<1>. QED
  BY <1>2, <1>3, <1>4

LEMMA RequestsKeep ==
  ASSUME IInv, NEW n \in Writers,
         \/ TakeRequest(n) \/ JoinViewChange(n) \/ NewView(n)
         \/ RequestTimesOut(n)
  PROVE  IInv'
<1>1. /\ Frame /\ GoodMessages(msgs)
      /\ pc[n] \in Accusing /\ accused[n] \in Lost
  BY DEF TakeRequest, JoinViewChange, NewView, RequestTimesOut, IInv,
         AccusationInv, Accusing
<1>2. \A v : GoodMessages(msgs \cup ViewChange(n, "view_change", v))
  BY <1>1 DEF GoodMessages, ViewChange
<1>3. CASE TakeRequest(n)
  <2>1. PICK m \in Receivable(n, "request_cancel") :
          Vote(n, view[n], m.vote[1], m.vote[2], msgs \ {m})
    BY <1>3 DEF TakeRequest
  <2>2. m.vote[2] \in Lost /\ GoodMessages(msgs \ {m})
    BY <1>1 DEF GoodMessages, Receivable, Inbox
  <2>. QED
    BY <1>1, <2>1, <2>2, VoteKeeps
<1>4. CASE JoinViewChange(n)
  <2>1. /\ pc[n] = "requested"
        /\ UNCHANGED <<pc, accused, ballot, disconnected_nodes>>
        /\ msgs' = msgs \cup ViewChange(n, "view_change", view[n] + 1)
    BY <1>4 DEF JoinViewChange, accusation
  <2>2. pc' = [pc EXCEPT ![n] = "requested"]
    BY <2>1 DEF IInv, BallotInv
  <2>3. GoodMessages(msgs')
    BY <1>2, <2>1
  <2>. QED
    BY <1>1, <2>1, <2>2, <2>3, WaitKeeps
<1>5. CASE NewView(n)
  BY <1>1, <1>5, SendNewViewKeeps DEF NewView
<1>6. CASE RequestTimesOut(n)
  <2>1. CASE EnterView(n, view[n] + 1, msgs)
    BY <1>1, <2>1, EnterViewKeeps
  <2>2. CASE Vote(n, view[n], accuser[n], accused[n],
                  msgs \cup ViewChange(n, "view_change", view[n] + 1))
    BY <1>1, <1>2, <2>2, VoteKeeps
  <2>. QED
    BY <1>6, <2>1, <2>2 DEF RequestTimesOut
<1>. QED
  BY <1>3, <1>4, <1>5, <1>6

LEMMA DeathKeeps ==
  ASSUME IInv, NEW n \in Writers, Die(n)
  PROVE  IInv'
<1>1. Frame /\ GoodMessages(msgs')
  BY DEF Die, Frame, memVars, IInv, AccusationInv
<1>. QED
  BY <1>1, WaitKeeps DEF Die, accusation, memVars, Accusing

LEMMA NoticeKeeps ==
  ASSUME IInv, NEW n \in Up, NEW m \in Writers, Notice(n, m)
  PROVE  IInv'
<1>1. /\ Lost' = Lost
      /\ UNCHANGED <<scenario, pc, ballot, accused, disconnected_nodes,
                     round_writer_list, penalty_box, msgs>>
  BY DEF Notice, Lost, Up, memVars, accusation
<1>2. m \in Lost /\ n \in Writers
  BY CancellationAssumption DEF Notice, Lost, Up, IInv, Scenario
<1>3. inactive' \in [Writers -> SUBSET Lost]
  BY <1>2 DEF Notice, IInv, AccusationInv
<1>4. AccusationInv'
  BY <1>1, <1>3 DEF IInv, AccusationInv, GoodMessages
<1>5. BallotInv' /\ MembersInv'
  BY <1>1 DEF IInv, BallotInv, MembersInv, Size
<1>. QED
  BY <1>1, <1>4, <1>5 DEF IInv

LEMMA TakeVoteKeeps ==
  ASSUME IInv, NEW n \in Writers, Size(n) >= 4, TakeVote(n)
  PROVE  IInv'
<1>1. Frame /\ pc[n] = "ballot" /\ Open(n)
      /\ UNCHANGED <<pc, accused, disconnected_nodes>>
  BY DEF TakeVote, accusation
<1>2. PICK m \in msgs, i, j \in {0, 1} :
        /\ ballot' = [ballot EXCEPT ![n] =
             [accuser |-> ballot[n].accuser + i,
              accused |-> ballot[n].accused + j, all |-> ballot[n].all + 1]]
        /\ msgs' = msgs \ {m}
  <2>1. \A c : (IF c THEN 1 ELSE 0) \in {0, 1}
    OBVIOUS
  <2>. QED
    BY <2>1 DEF TakeVote, Receivable, Inbox
<1>. DEFINE a == ballot[n].accuser
            all == ballot[n].all
            votes == [accuser |-> a + i, accused |-> ballot[n].accused + j,
                      all |-> all + 1]
<1>3. a \in Nat /\ all \in Nat /\ ballot[n].accused \in Nat /\ a <= all
  BY <1>1 DEF IInv, BallotInv
<1>4. votes \in [accuser : Nat, accused : Nat, all : Nat]
  BY <1>3
<1>5. votes.accuser <= votes.all
  BY <1>3
<1>6. 3 * (votes.accuser - 1) <= Size(n)
  <2>1. Size(n) \in Nat
    BY SizeOfList
  <2>2. all = 1 \/ 3 * a <= Size(n)
    BY <1>1 DEF Open
  <2>3. votes.accuser - 1 <= a
    BY <1>3
  <2>. HIDE DEF a, all
  <2>. QED
    BY <1>3, <2>1, <2>2
<1>7. GoodMessages(msgs')
  BY <1>2 DEF GoodMessages, IInv, AccusationInv
<1>8. /\ pc' = [pc EXCEPT ![n] = "ballot"]
      /\ accused' = [accused EXCEPT ![n] = accused[n]]
      /\ disconnected_nodes' =
           [disconnected_nodes EXCEPT ![n] = disconnected_nodes[n]]
      /\ accused[n] \in Ids /\ accused[n] \in Lost
      /\ disconnected_nodes[n] \in Seq(Lost)
  BY <1>1 DEF IInv, AccusationInv, BallotInv, Accusing
<1>9. ballot' = [ballot EXCEPT ![n] = votes]
  BY <1>2
<1>. HIDE DEF votes
<1>. QED
  BY <1>1, <1>4, <1>5, <1>6, <1>7, <1>8, <1>9, StepKeeps

\* The end of a round, which excludes none but the lost.
LEMMA NextRoundKeeps ==
  ASSUME IInv, NEW n \in Writers, NEW disconnected \in SUBSET Lost,
         NextRound(n, disconnected), UNCHANGED scenario
  PROVE  MembersInv' /\ disconnected_nodes' \in [Writers -> Seq(Lost)]
<1>1. scenario.writers \subseteq Writers
  BY CancellationAssumption DEF IInv, Scenario
<1>2. /\ Lost' = Lost
      /\ penalty_box' = [penalty_box EXCEPT ![n] = NextBox(@, disconnected)]
      /\ round_writer_list' = [round_writer_list EXCEPT ![n] =
           NextList(@, penalty_box[n], disconnected)]
      /\ disconnected_nodes' = [disconnected_nodes EXCEPT ![n] = <<>>]
  BY DEF NextRound, Lost, Up
<1>3. /\ DOMAIN penalty_box[n] = scenario.writers /\ Flagged(penalty_box[n])
      /\ InBox(penalty_box[n]) \subseteq Lost
      /\ round_writer_list[n] \subseteq Writers
      /\ scenario.writers \ Lost \subseteq round_writer_list[n]
  BY DEF IInv, MembersInv
<1>. DEFINE box == NextBox(penalty_box[n], disconnected)
            list == NextList(round_writer_list[n], penalty_box[n], disconnected)
<1>4. /\ DOMAIN box = DOMAIN penalty_box[n] /\ Flagged(box)
      /\ InBox(box) \subseteq InBox(penalty_box[n])
                                \cup (disconnected \cap DOMAIN penalty_box[n])
      /\ round_writer_list[n] \ disconnected \subseteq list
      /\ list \subseteq round_writer_list[n] \cup DOMAIN penalty_box[n]
  BY <1>3, BoxAndListNext
<1>6. InBox(box) \subseteq Lost
  BY <1>3, <1>4
<1>7. list \subseteq Writers /\ scenario.writers \ Lost \subseteq list
  BY <1>1, <1>3, <1>4
<1>8. penalty_box' = [penalty_box EXCEPT ![n] = box]
      /\ round_writer_list' = [round_writer_list EXCEPT ![n] = list]
  BY <1>2
<1>. HIDE DEF box, list
<1>9. MembersInv'
  <2>1. round_writer_list' \in [Writers -> SUBSET Writers]
        /\ DOMAIN penalty_box' = Writers
    BY <1>7, <1>8 DEF IInv, MembersInv
  <2>2. ASSUME NEW k \in Writers
        PROVE  /\ scenario.writers \ Lost \subseteq round_writer_list'[k]
               /\ DOMAIN penalty_box'[k] = scenario.writers
               /\ Flagged(penalty_box'[k])
               /\ InBox(penalty_box'[k]) \subseteq Lost
    <3>1. CASE k = n
      BY <1>3, <1>4, <1>6, <1>7, <1>8, <3>1 DEF IInv, MembersInv
    <3>2. CASE k # n
      BY <1>8, <3>2 DEF IInv, MembersInv
    <3>. QED
      BY <3>1, <3>2
  <2>3. \A k \in Writers : /\ Flagged(penalty_box[k])' <=> Flagged(penalty_box'[k])
                           /\ InBox(penalty_box[k])' = InBox(penalty_box'[k])
    BY DEF Flagged, InBox
  <2>. QED
    BY <1>2, <2>1, <2>2, <2>3 DEF MembersInv
<1>10. disconnected_nodes' \in [Writers -> Seq(Lost)]
  BY <1>2 DEF IInv, AccusationInv
<1>. QED
  BY <1>9, <1>10

\* A third of the votes and one is no majority of four or more: the ballot
\* always closes before it can sanction the accuser.
LEMMA AccusedSanctioned ==
  ASSUME IInv, NEW n \in Writers, Size(n) >= 4, pc[n] = "ballot"
  PROVE  Sanctioned(n) = {accused[n]} /\ accused[n] \in Lost
<1>1. Size(n) \in Nat
  BY SizeOfList
<1>2. ballot[n].accuser \in Nat /\ 3 * (ballot[n].accuser - 1) <= Size(n)
  BY DEF IInv, BallotInv
<1>3. ~(2 * ballot[n].accuser > Size(n))
  BY <1>1, <1>2
<1>. QED
  BY <1>3 DEF Sanctioned, IInv, AccusationInv, Accusing

LEMMA VerdictKeeps ==
  ASSUME IInv, NEW n \in Writers, Size(n) >= 4, Verdict(n)
  PROVE  IInv'
<1>1. /\ pc[n] = "ballot" /\ NextRound(n, Sanctioned(n))
      /\ pc' = [pc EXCEPT ![n] = "round"]
      /\ accused' = [accused EXCEPT ![n] = 0]
      /\ ballot' = [ballot EXCEPT ![n] =
                      [accuser |-> 0, accused |-> 0, all |-> 0]]
      /\ UNCHANGED <<scenario, inactive, msgs>>
      /\ Lost' = Lost
  BY DEF Verdict, Lost, Up
<1>2. Sanctioned(n) = {accused[n]} /\ accused[n] \in Lost
  BY <1>1, AccusedSanctioned
<1>3. MembersInv' /\ disconnected_nodes' \in [Writers -> Seq(Lost)]
  BY <1>1, <1>2, NextRoundKeeps
<1>4. AccusationInv'
  <2>1. ASSUME NEW k \in Writers, pc'[k] \in Accusing
        PROVE  k # n /\ pc[k] \in Accusing /\ accused'[k] = accused[k]
    BY <1>1, <2>1 DEF IInv, AccusationInv, BallotInv, Accusing
  <2>2. accused' \in [Writers -> Ids]
    BY <1>1 DEF IInv, AccusationInv, Ids
  <2>. QED
    BY <1>1, <1>3, <2>1, <2>2 DEF IInv, AccusationInv, GoodMessages, Ids
<1>5. BallotInv'
  <2>1. /\ pc' \in [Writers -> {"crashed", "round", "proposals", "requested",
                                "ballot", "dead"}]
        /\ ballot' \in [Writers -> [accuser : Nat, accused : Nat, all : Nat]]
    BY <1>1 DEF IInv, BallotInv
  <2>2. ASSUME NEW k \in Writers, pc'[k] = "ballot"
        PROVE  /\ ballot'[k].accuser <= ballot'[k].all
               /\ 3 * (ballot'[k].accuser - 1) <= Size(k)'
    <3>1. k # n /\ pc[k] = "ballot" /\ ballot'[k] = ballot[k]
      BY <1>1, <2>2 DEF IInv, BallotInv
    <3>2. Size(k)' = Size(k)
      BY <1>1, <3>1 DEF Size, NextRound, IInv, MembersInv
    <3>. QED
      BY <3>1, <3>2 DEF IInv, BallotInv
  <2>. QED
    BY <2>1, <2>2 DEF BallotInv
<1>. QED
  BY <1>1, <1>3, <1>4, <1>5 DEF IInv

LEMMA CompleteRoundKeeps ==
  ASSUME IInv, NEW n \in Writers, CompleteRound(n)
  PROVE  IInv'
<1>1. /\ pc[n] = "round" /\ NextRound(n, {})
      /\ UNCHANGED <<scenario, inactive, pc, accused, ballot, msgs>>
      /\ Lost' = Lost
  BY DEF CompleteRound, Completes, Lost, Up, accusation
<1>2. MembersInv' /\ disconnected_nodes' \in [Writers -> Seq(Lost)]
  BY <1>1, NextRoundKeeps
<1>3. AccusationInv'
  BY <1>1, <1>2 DEF IInv, AccusationInv, GoodMessages
<1>4. BallotInv'
  <2>1. ASSUME NEW k \in Writers, pc[k] = "ballot"
        PROVE  Size(k)' = Size(k)
    BY <1>1, <2>1 DEF Size, NextRound, IInv, MembersInv
  <2>. QED
    BY <1>1, <2>1 DEF IInv, BallotInv
<1>. QED
  BY <1>1, <1>2, <1>3, <1>4 DEF IInv

----------------------------------------------------------------------------
(* One crash: what a step before the verdict may do to the other nodes.     *)

\* Messages a node sends carry its number of cancellations.
Sends(n, queue) ==
  \A m \in queue : m \in msgs \/ m.cancel_number = cancel_number[n]

Local(n) ==
  /\ \A k \in Writers \ {n} : /\ pc'[k] = pc[k]
                              /\ disconnected_nodes'[k] = disconnected_nodes[k]
  /\ Sends(n, msgs')

LEMMA VoteLocal ==
  ASSUME IInv, NEW n \in Writers, NEW v, NEW acc, NEW accd, NEW queue,
         Sends(n, queue), Vote(n, v, acc, accd, queue)
  PROVE  Local(n)
<1>1. /\ pc' = [pc EXCEPT ![n] = "ballot"]
      /\ disconnected_nodes' = [disconnected_nodes EXCEPT ![n] = Disconnected(n)]
      /\ msgs' = queue \cup VoteFor(n, Choice(n, acc, accd))
  BY DEF Vote
<1>2. Sends(n, msgs')
  BY <1>1 DEF Sends, VoteFor
<1>. QED
  BY <1>1, <1>2 DEF Local, IInv, AccusationInv, BallotInv

LEMMA EnterViewLocal ==
  ASSUME IInv, NEW n \in Writers, NEW v, NEW queue, Sends(n, queue),
         \/ \E acc, accd : RequestVote(n, v, acc, accd, queue)
         \/ EnterView(n, v, queue)
  PROVE  Local(n)
<1>1. CASE \E acc, accd : RequestVote(n, v, acc, accd, queue)
  <2>1. PICK acc, accd : RequestVote(n, v, acc, accd, queue)
    BY <1>1
  <2>2. Sends(n, queue \cup Request(n, v, acc, accd))
    BY DEF Sends, Request
  <2>. QED
    BY <2>1, <2>2, VoteLocal DEF RequestVote
<1>2. CASE \E next : /\ pc' = [pc EXCEPT ![n] = next] /\ msgs' = queue
                     /\ UNCHANGED disconnected_nodes
  BY <1>2 DEF Local, IInv, AccusationInv, BallotInv
<1>. QED
  BY <1>1, <1>2 DEF EnterView

LEMMA SendNewViewLocal ==
  ASSUME IInv, NEW n \in Writers, NEW v, NEW queue, Sends(n, queue),
         SendNewView(n, v, queue)
  PROVE  Local(n)
<1>1. Sends(n, (queue \ ViewQueue(n)) \cup ViewChange(n, "new_view", v))
  BY DEF Sends, ViewChange
<1>2. CASE EnterView(n, view[n] + 1,
                     (queue \ ViewQueue(n)) \cup ViewChange(n, "new_view", v))
  BY <1>1, <1>2, EnterViewLocal
<1>3. CASE /\ pc' = [pc EXCEPT ![n] = "dead"]
           /\ UNCHANGED <<disconnected_nodes, msgs>>
  BY <1>3 DEF Local, Sends, IInv, AccusationInv, BallotInv
<1>. QED
  BY <1>2, <1>3 DEF SendNewView

LEMMA ProposeLocal ==
  ASSUME IInv, NEW n \in Writers, NEW acc, NEW accd, NEW queue, Sends(n, queue),
         Propose(n, acc, accd, queue)
  PROVE  Local(n)
<1>1. /\ \E next : pc' = [pc EXCEPT ![n] = next]
      /\ disconnected_nodes' = [disconnected_nodes EXCEPT ![n] = Disconnected(n)]
      /\ msgs' = queue \/ msgs' = queue \cup Proposal(n, accd)
  BY DEF Propose
<1>2. Sends(n, msgs')
  BY <1>1 DEF Sends, Proposal
<1>. QED
  BY <1>1, <1>2 DEF Local, IInv, AccusationInv, BallotInv

\* What a node does before its verdict: everything but to go on to a round.
CancelStep(n) ==
  \/ FollowProposal(n) \/ OwnProposal(n) \/ BadProposal(n)
  \/ LastProposal(n) \/ OneMoreProposal(n) \/ ProposalsTimeOut(n)
  \/ TakeRequest(n) \/ BadRequest(n) \/ JoinViewChange(n) \/ NewView(n)
  \/ RequestTimesOut(n) \/ TakeVote(n)

LEMMA CancelStepFrame ==
  ASSUME NEW n, CancelStep(n)
  PROVE  UNCHANGED <<scenario, cancel_number, height, round_writer_list,
                     penalty_box>>
BY DEF CancelStep, FollowProposal, OwnProposal, BadProposal, LastProposal,
       OneMoreProposal, ProposalsTimeOut, TakeRequest, BadRequest,
       JoinViewChange, NewView, RequestTimesOut, TakeVote, Frame, Die, memVars

LEMMA CancelStepLocal ==
  ASSUME IInv, NEW n \in Writers, CancelStep(n)
  PROVE  Local(n)
<1>1. Sends(n, msgs) /\ \A m : Sends(n, msgs \ {m})
  BY DEF Sends
<1>2. \A v : /\ Sends(n, msgs \cup ViewChange(n, "view_change", v))
             /\ \A m : Sends(n, (msgs \ {m}) \cup ViewChange(n, "view_change", v))
  BY DEF Sends, ViewChange
<1>3. CASE FollowProposal(n) \/ OwnProposal(n)
  BY <1>1, <1>3, ProposeLocal DEF FollowProposal, OwnProposal
<1>4. CASE BadProposal(n) \/ BadRequest(n)
  <2>1. Die(n)
    BY <1>4 DEF BadProposal, BadRequest
  <2>. QED
    BY <1>1, <2>1 DEF Die, memVars, Local, IInv, BallotInv
<1>5. ASSUME NEW queue, Sends(n, queue), EndOfProposals(n, queue)
      PROVE  Local(n)
  BY <1>5, SendNewViewLocal, EnterViewLocal DEF EndOfProposals
<1>6. CASE LastProposal(n) \/ ProposalsTimeOut(n)
  BY <1>1, <1>2, <1>5, <1>6 DEF LastProposal, ProposalsTimeOut
<1>7. CASE OneMoreProposal(n)
  <2>1. UNCHANGED <<pc, disconnected_nodes>>
    BY <1>7 DEF OneMoreProposal
  <2>2. PICK m \in Proposals(n) :
          \/ msgs' = msgs \ {m}
          \/ \E v : msgs' = (msgs \ {m}) \cup ViewChange(n, "view_change", v)
    BY <1>7 DEF OneMoreProposal
  <2>. QED
    BY <1>1, <1>2, <2>1, <2>2 DEF Local
<1>8. CASE TakeRequest(n)
  BY <1>1, <1>8, VoteLocal DEF TakeRequest
<1>9. CASE JoinViewChange(n)
  BY <1>2, <1>9 DEF JoinViewChange, Local
<1>10. CASE NewView(n)
  BY <1>1, <1>10, SendNewViewLocal DEF NewView
<1>11. CASE RequestTimesOut(n)
  BY <1>1, <1>2, <1>11, EnterViewLocal, VoteLocal DEF RequestTimesOut
<1>12. CASE TakeVote(n)
  BY <1>1, <1>12 DEF TakeVote, Local
<1>. QED
  BY <1>3, <1>4, <1>6, <1>7, <1>8, <1>9, <1>10, <1>11, <1>12 DEF CancelStep

----------------------------------------------------------------------------
(* One crash: every node's one cancellation.                                *)

\* Only the crashed writer is lost.
LEMMA OnlyOneLost ==
  ASSUME IInv, OneCrash
  PROVE  \E x \in scenario.writers :
           /\ scenario.down = {x} /\ Lost \subseteq {x} /\ x \notin Up
           /\ scenario.ahead = {} /\ Cardinality(scenario.writers) >= 4
<1>1. PICK x \in scenario.writers :
        scenario.down = {x} /\ \A l \in scenario.links : x \in l
  BY DEF OneCrash, IInv
<1>2. x \notin Up
  BY <1>1 DEF Up
<1>3. Lost \subseteq {x}
  BY <1>1, <1>2 DEF Lost
<1>. QED
  BY <1>1, <1>2, <1>3 DEF OneCrash, IInv

\* A node that has sanctioned it does not begin another cancellation.
LEMMA CancelBefore ==
  ASSUME IInv, VerdictInv, OneCrash, NEW n \in Writers, CancelStep(n)
  PROVE  Before(n)
<1>1. ASSUME After(n) PROVE FALSE
  <2>1. pc[n] = "round" /\ cancel_number[n] = 1
    BY <1>1 DEF After
  <2>2. FollowProposal(n) \/ OwnProposal(n) \/ BadProposal(n)
    BY <2>1 DEF CancelStep, LastProposal, OneMoreProposal, ProposalsTimeOut,
                TakeRequest, BadRequest, JoinViewChange, NewView,
                RequestTimesOut, TakeVote
  <2>3. Proposals(n) = {}
    BY <2>1 DEF Proposals, Inbox, VerdictInv
  <2>4. OwnProposal(n)
    BY <2>2, <2>3 DEF FollowProposal, BadProposal
  <2>5. PICK x \in scenario.writers : scenario.down = {x} /\ Lost \subseteq {x}
    BY OnlyOneLost
  <2>6. InBox(penalty_box[n]) = {x}
    BY <1>1, <2>5 DEF After, BoxAfter, InBox
  <2>7. inactive[n] \ (InBox(penalty_box[n])
                         \cup Range(disconnected_nodes[n])) = {}
    BY <2>5, <2>6 DEF IInv, AccusationInv
  <2>8. InOrder({}) = <<>>
    BY FS_EmptySet DEF InOrder
  <2>9. Disconnected(n) = <<>>
    <3>1. disconnected_nodes[n] = <<>>
      BY <1>1 DEF After
    <3>2. <<>> \o <<>> = <<>>
      OBVIOUS
    <3>. QED
      BY <2>7, <2>8, <3>1, <3>2 DEF Disconnected
  <2>. QED
    BY <2>4, <2>9 DEF OwnProposal
<1>. QED
  BY <1>1 DEF VerdictInv

LEMMA CancelStepVerdict ==
  ASSUME IInv, VerdictInv, OneCrash, NEW n \in Writers, CancelStep(n)
  PROVE  VerdictInv'
<1>1. Before(n) /\ Local(n)
  BY CancelBefore, CancelStepLocal
<1>2. UNCHANGED <<scenario, cancel_number, height, round_writer_list, penalty_box>>
  BY CancelStepFrame
<1>3. ASSUME NEW k \in Writers PROVE Before(k)' \/ After(k)'
  <2>1. Before(k) => Before(k)'
    BY <1>2 DEF Before
  <2>2. After(k) /\ k # n => After(k)'
    BY <1>1, <1>2 DEF After, Local, BoxAfter
  <2>. QED
    BY <1>1, <2>1, <2>2 DEF VerdictInv
<1>4. \A m \in msgs' : m.cancel_number = 0
  BY <1>1 DEF Local, Sends, Before, VerdictInv
<1>. QED
  BY <1>2, <1>3, <1>4 DEF VerdictInv

LEMMA VerdictStep ==
  ASSUME IInv, VerdictInv, OneCrash, NEW n \in Writers, Verdict(n)
  PROVE  VerdictInv'
<1>1. PICK x \in scenario.writers :
        /\ scenario.down = {x} /\ Lost \subseteq {x}
        /\ Cardinality(scenario.writers) >= 4
  BY OnlyOneLost
<1>2. Before(n)
  BY DEF VerdictInv, After, Verdict
<1>3. Sanctioned(n) = {x}
  <2>1. Size(n) >= 4
    BY <1>1, <1>2 DEF Before, Size
  <2>. QED
    BY <1>1, <2>1, AccusedSanctioned DEF Verdict
<1>4. /\ UNCHANGED <<scenario, height, msgs>>
      /\ cancel_number' = [cancel_number EXCEPT ![n] = 1]
      /\ pc' = [pc EXCEPT ![n] = "round"]
      /\ disconnected_nodes' = [disconnected_nodes EXCEPT ![n] = <<>>]
      /\ penalty_box' = [penalty_box EXCEPT ![n] = BoxAfter(0)]
      /\ round_writer_list' =
           [round_writer_list EXCEPT ![n] = scenario.writers \ {x}]
  <2>1. /\ NextBox(penalty_box[n], {x}) = BoxAfter(0)
        /\ NextList(round_writer_list[n], penalty_box[n], {x})
             = scenario.writers \ {x}
    BY <1>1, <1>2, BoxOfVerdict DEF Before
  <2>2. cancel_number[n] = 0 /\ 0 + 1 = 1
    BY <1>2 DEF Before
  <2>. QED
    BY <1>3, <2>1, <2>2 DEF Verdict, NextRound
<1>5. After(n)'
  <2>1. BoxAfter(0)' = BoxAfter(0)
    BY <1>4 DEF BoxAfter
  <2>2. 0 \in 0 .. FirstPenalty /\ height[n] = StartHeight + 0
    BY <1>2, CancellationAssumption DEF Before, FirstPenalty
  <2>3. /\ cancel_number'[n] = 1 /\ pc'[n] = "round"
        /\ disconnected_nodes'[n] = <<>> /\ height'[n] = height[n]
        /\ round_writer_list'[n] = scenario'.writers \ scenario'.down
        /\ penalty_box'[n] = BoxAfter(0)
    BY <1>1, <1>4 DEF IInv, AccusationInv, BallotInv, MembersInv, VerdictInv
  <2>4. \E k \in 0 .. FirstPenalty :
          height'[n] = StartHeight + k /\ penalty_box'[n] = BoxAfter(k)'
    BY <2>1, <2>2, <2>3
  <2>. QED
    BY <2>3, <2>4 DEF After
<1>6. ASSUME NEW k \in Writers, k # n PROVE Before(k)' \/ After(k)'
  <2>1. /\ cancel_number'[k] = cancel_number[k] /\ pc'[k] = pc[k]
        /\ disconnected_nodes'[k] = disconnected_nodes[k]
        /\ round_writer_list'[k] = round_writer_list[k]
        /\ penalty_box'[k] = penalty_box[k]
    BY <1>4, <1>6 DEF IInv, AccusationInv, BallotInv, MembersInv, VerdictInv
  <2>2. Before(k) => Before(k)'
    BY <1>4, <2>1 DEF Before
  <2>3. After(k) => After(k)'
    <3>1. \A l : BoxAfter(l)' = BoxAfter(l)
      BY <1>4 DEF BoxAfter
    <3>. QED
      BY <1>4, <2>1, <3>1 DEF After
  <2>. QED
    BY <2>2, <2>3 DEF VerdictInv
<1>7. cancel_number' \in [Writers -> {0, 1}]
  BY <1>4 DEF VerdictInv
<1>. QED
  BY <1>4, <1>5, <1>6, <1>7 DEF VerdictInv

\* No round comes to its end while the crashed writer is on the list, and none
\* after it was released.
LEMMA CompleteStep ==
  ASSUME IInv, VerdictInv, OneCrash, MaxHeight <= StartHeight + FirstPenalty,
         NEW n \in Writers, CompleteRound(n)
  PROVE  VerdictInv'
<1>1. PICK x \in scenario.writers :
        scenario.down = {x} /\ Lost \subseteq {x} /\ x \notin Up
  BY OnlyOneLost
<1>2. After(n)
  <2>1. x \notin round_writer_list[n]
    BY <1>1 DEF CompleteRound, Completes, TakesPart
  <2>. QED
    BY <2>1 DEF VerdictInv, Before
<1>3. PICK k \in 0 .. FirstPenalty :
        height[n] = StartHeight + k /\ penalty_box[n] = BoxAfter(k)
  BY <1>2 DEF After
<1>4. k \in 0 .. FirstPenalty - 1 /\ height[n] + 1 = StartHeight + (k + 1)
      /\ k + 1 \in 0 .. FirstPenalty
  BY <1>3, CancellationAssumption DEF CompleteRound, Completes, FirstPenalty
<1>5. /\ UNCHANGED <<scenario, cancel_number, pc, msgs>>
      /\ height' = [height EXCEPT ![n] = StartHeight + (k + 1)]
      /\ disconnected_nodes' = [disconnected_nodes EXCEPT ![n] = <<>>]
      /\ penalty_box' = [penalty_box EXCEPT ![n] = BoxAfter(k + 1)]
      /\ round_writer_list' =
           [round_writer_list EXCEPT ![n] = round_writer_list[n]]
  <2>1. /\ NextBox(penalty_box[n], {}) = BoxAfter(k + 1)
        /\ NextList(round_writer_list[n], penalty_box[n], {})
             = round_writer_list[n]
    BY <1>1, <1>3, <1>4, BoxOfRound
  <2>. QED
    BY <1>4, <2>1 DEF CompleteRound, NextRound
<1>6. After(n)'
  <2>1. BoxAfter(k + 1)' = BoxAfter(k + 1)
    BY <1>5 DEF BoxAfter
  <2>2. /\ cancel_number'[n] = 1 /\ pc'[n] = "round"
        /\ disconnected_nodes'[n] = <<>> /\ height'[n] = StartHeight + (k + 1)
        /\ round_writer_list'[n] = scenario'.writers \ scenario'.down
        /\ penalty_box'[n] = BoxAfter(k + 1)
    BY <1>2, <1>5 DEF After, IInv, AccusationInv, BallotInv, MembersInv,
                     VerdictInv
  <2>3. \E l \in 0 .. FirstPenalty :
          height'[n] = StartHeight + l /\ penalty_box'[n] = BoxAfter(l)'
    BY <1>4, <2>1, <2>2
  <2>. QED
    BY <2>2, <2>3 DEF After
<1>7. ASSUME NEW l \in Writers, l # n PROVE Before(l)' \/ After(l)'
  <2>1. /\ height'[l] = height[l]
        /\ disconnected_nodes'[l] = disconnected_nodes[l]
        /\ round_writer_list'[l] = round_writer_list[l]
        /\ penalty_box'[l] = penalty_box[l]
    BY <1>5, <1>7 DEF IInv, AccusationInv, MembersInv, VerdictInv
  <2>2. Before(l) => Before(l)'
    BY <1>5, <2>1 DEF Before
  <2>3. After(l) => After(l)'
    <3>1. \A j : BoxAfter(j)' = BoxAfter(j)
      BY <1>5 DEF BoxAfter
    <3>. QED
      BY <1>5, <2>1, <3>1 DEF After
  <2>. QED
    BY <2>2, <2>3 DEF VerdictInv
<1>8. height' \in [Writers -> Nat]
  BY <1>4, <1>5, CancellationAssumption DEF VerdictInv
<1>. QED
  BY <1>5, <1>6, <1>7, <1>8 DEF VerdictInv

LEMMA VerdictNext ==
  ASSUME IInv, VerdictInv, OneCrash, MaxHeight <= StartHeight + FirstPenalty,
         [Next]_vars
  PROVE  VerdictInv'
<1>1. Up \subseteq Writers
  BY CancellationAssumption DEF IInv, Scenario, Up
<1>2. CASE /\ UNCHANGED <<scenario, pc, cancel_number, height, disconnected_nodes,
                          round_writer_list, penalty_box, msgs>>
  <2>1. \A k : BoxAfter(k)' = BoxAfter(k)
    BY <1>2 DEF BoxAfter
  <2>2. ASSUME NEW n \in Writers PROVE Before(n)' \/ After(n)'
    <3>1. Before(n) => Before(n)'
      BY <1>2 DEF Before
    <3>2. After(n) => After(n)'
      BY <1>2, <2>1 DEF After
    <3>. QED
      BY <3>1, <3>2 DEF VerdictInv
  <2>. QED
    BY <1>2, <2>2 DEF VerdictInv
<1>3. CASE \E n \in Up : NodeStep(n)
  <2>1. PICK n \in Writers : NodeStep(n)
    BY <1>1, <1>3
  <2>2. CancelStep(n) \/ Verdict(n) \/ CompleteRound(n)
    BY <2>1 DEF NodeStep, Timely, CancelStep
  <2>. QED
    BY <2>2, CancelStepVerdict, VerdictStep, CompleteStep
<1>4. CASE (\E n \in Up : \E m \in Writers : Notice(n, m)) \/ UNCHANGED vars
  BY <1>2, <1>4 DEF Notice, vars, memVars
<1>. QED
  BY <1>3, <1>4 DEF Next

----------------------------------------------------------------------------
(* One crash that every writer notices: nobody waits for what never comes.  *)

LEMMA TheCrash ==
  ASSUME IInv, OneCrash, Noticed(scenario)
  PROVE  \E x \in scenario.writers :
           /\ Up = scenario.writers \ {x} /\ Lost \subseteq {x}
           /\ \A l \in scenario.links : x \in l
           /\ \A m \in Up : {m, x} \in scenario.links
           /\ scenario.patient
           /\ First \in Up /\ First # x
           /\ \A y \in scenario.writers : First <= y
           /\ Up \subseteq Writers /\ scenario.writers \subseteq Writers
           /\ Cardinality(scenario.writers) >= 4
<1>1. scenario \in Scenarios /\ scenario.writers \subseteq Writers
      /\ Writers \subseteq Nat
  BY CancellationAssumption DEF IInv, Scenario
<1>2. PICK x \in scenario.writers :
        scenario.down = {x} /\ \A l \in scenario.links : x \in l
  BY <1>1 DEF OneCrash
<1>3. x \notin Up /\ Up = scenario.writers \ {x}
  BY <1>2 DEF Up
<1>4. Lost \subseteq {x}
  BY <1>2, <1>3 DEF Lost
<1>5. /\ \A m \in Up : {m, x} \in scenario.links
      /\ scenario.patient /\ \E m \in scenario.writers : m < x
  BY <1>1, <1>2 DEF Noticed, Up
<1>6. First \in scenario.writers /\ \A y \in scenario.writers : First <= y
  BY <1>1, <1>2, MinOfNats DEF First
<1>7. First # x
  <2>1. PICK m \in scenario.writers : m < x
    BY <1>5
  <2>2. First <= m /\ First \in Nat /\ m \in Nat /\ x \in Nat
    BY <1>1, <1>6, <2>1
  <2>. QED
    BY <2>1, <2>2
<1>8. Cardinality(scenario.writers) >= 4
  BY <1>1 DEF OneCrash
<1>. QED
  BY <1>1, <1>2, <1>3, <1>4, <1>5, <1>6, <1>7, <1>8

\* The first of the writers coordinates view 0.
LEMMA FirstCoordinates ==
  ASSUME IInv, OneCrash, NEW n \in Writers, Before(n)
  PROVE  IsCoordinator(n, 0) <=> n = First
<1>. DEFINE W == scenario.writers
            box == [m \in W |-> NewEntry]
            before(x, y) ==
              \/ box[x].honesty_counter > box[y].honesty_counter
              \/ box[x].honesty_counter = box[y].honesty_counter /\ x < y
            Ahead(x) == {y \in W : before(y, x)}
<1>1. First \in W /\ (\A y \in W : First <= y) /\ W \subseteq Nat /\ IsFiniteSet(W)
  <2>1. W \subseteq Writers /\ Writers \subseteq Nat /\ IsFiniteSet(Writers)
    BY CancellationAssumption DEF IInv, Scenario
  <2>2. W # {} /\ W \subseteq Nat /\ IsFiniteSet(W)
    BY <2>1, FS_Subset, OnlyOneLost
  <2>. QED
    BY <2>2, MinOfNats DEF First
<1>2. \A x, y \in W : before(x, y) <=> x < y
  BY DEF NewEntry
<1>. HIDE DEF before
<1>3. ASSUME NEW x \in W
      PROVE  Cardinality(Ahead(x)) = 0 <=> x = First
  <2>1. IsFiniteSet(Ahead(x))
    <3>1. Ahead(x) \in SUBSET W
      OBVIOUS
    <3>. QED
      BY <1>1, <3>1, FS_Subset
  <2>2. Cardinality(Ahead(x)) = 0 <=> Ahead(x) = {}
    BY <2>1, FS_EmptySet
  <2>3. Ahead(x) = {} => x = First
    <3>1. SUFFICES ASSUME Ahead(x) = {}, x # First PROVE FALSE
      OBVIOUS
    <3>2. First < x
      BY <1>1, <3>1
    <3>. QED
      BY <1>1, <1>2, <3>1, <3>2
  <2>4. Ahead(First) = {}
    BY <1>1, <1>2
  <2>. QED
    BY <2>2, <2>3, <2>4
<1>4. CancelCoordinator(box, 0) =
        CHOOSE x \in W : Cardinality(Ahead(x)) = 0
  BY DEF CancelCoordinator, before
<1>. HIDE DEF Ahead
<1>5. CancelCoordinator(box, 0) = First
  BY <1>1, <1>3, <1>4
<1>6. penalty_box[n] = box
  BY DEF Before
<1>. QED
  BY <1>5, <1>6 DEF IsCoordinator

\* While the cancellation lasts, a node that has lost the crashed one says so.
LEMMA KnowsLoss ==
  ASSUME IInv, OneCrash, Noticed(scenario), NEW n \in Up, Before(n)
  PROVE  Noticing(n) \/ Disconnected(n) # <<>>
<1>1. PICK x \in scenario.writers :
        /\ Up = scenario.writers \ {x} /\ Lost \subseteq {x}
        /\ \A m \in Up : {m, x} \in scenario.links
        /\ Up \subseteq Writers /\ scenario.writers \subseteq Writers
  BY TheCrash
<1>2. SUFFICES ASSUME ~Noticing(n) PROVE Disconnected(n) # <<>>
  OBVIOUS
<1>3. inactive[n] = {x}
  <2>1. x \in inactive[n]
    BY <1>1, <1>2 DEF Noticing
  <2>. QED
    BY <1>1, <2>1 DEF IInv, AccusationInv
<1>4. InBox(penalty_box[n]) = {}
  BY DEF Before, InBox, NewEntry
<1>5. disconnected_nodes[n] \in Seq(Lost)
  BY <1>1 DEF IInv, AccusationInv
<1>. DEFINE S == inactive[n] \ (InBox(penalty_box[n])
                                  \cup Range(disconnected_nodes[n]))
<1>6. S \subseteq Lost /\ IsFiniteSet(S) /\ \A y \in S : y \in Nat
  <2>1. S \in SUBSET Writers /\ S \subseteq inactive[n]
    BY <1>1, <1>3
  <2>2. inactive[n] \subseteq Lost
    BY <1>1 DEF IInv, AccusationInv
  <2>. HIDE DEF S
  <2>3. IsFiniteSet(S)
    BY <2>1, FS_Subset, CancellationAssumption
  <2>. QED
    BY <2>1, <2>2, <2>3, CancellationAssumption
<1>7. disconnected_nodes[n] = <<>> => S = {x}
  BY <1>3, <1>4 DEF Range
<1>8. Disconnected(n) = disconnected_nodes[n] \o InOrder(S)
  BY DEF Disconnected
<1>. HIDE DEF S
<1>9. InOrder(S) \in Seq(S) /\ DOMAIN InOrder(S) = 1 .. Cardinality(S)
  BY <1>6, InOrderOf DEF InOrder
<1>10. PICK t \in Seq(Lost) : t = InOrder(S)
  BY <1>6, <1>9
<1>11. disconnected_nodes[n] = <<>> => t # <<>>
  <2>1. SUFFICES ASSUME disconnected_nodes[n] = <<>>, t = <<>> PROVE FALSE
    OBVIOUS
  <2>2. DOMAIN t = 1 .. 1
    BY <1>7, <1>9, <1>10, <2>1, FS_Singleton
  <2>. QED
    BY <2>1, <2>2
<1>. QED
  BY <1>5, <1>8, <1>10, <1>11

\* So does whoever is still in its round.
LEMMA RoundMoves ==
  ASSUME IInv, VerdictInv, OneCrash, Noticed(scenario),
         NEW n \in Up, pc[n] = "round", cancel_number[n] = 0
  PROVE  Noticing(n) \/ Ready(n)
<1>1. n \in Writers
  BY TheCrash
<1>2. Before(n)
  BY <1>1 DEF VerdictInv, After
<1>. QED
  BY <1>2, KnowsLoss DEF Ready

\* The size of a quorum while the cancellation lasts.
LEMMA QuorumSize ==
  ASSUME IInv, OneCrash, Noticed(scenario), NEW n \in Writers, Before(n)
  PROVE  /\ IsFiniteSet(Up \ {First}) /\ Cardinality(Up \ {First}) \in Nat
         /\ Size(n) = Cardinality(Up \ {First}) + 2 /\ Size(n) >= 4
         /\ Supermajority(n) \in Nat /\ Supermajority(n) >= 3
         /\ Supermajority(n) <= Cardinality(Up \ {First}) + 1
         /\ Minority(n) >= 1
<1>1. PICK x \in scenario.writers :
        /\ Up = scenario.writers \ {x} /\ First \in Up
        /\ scenario.writers \subseteq Writers
        /\ Cardinality(scenario.writers) >= 4
  BY TheCrash
<1>2. IsFiniteSet(scenario.writers) /\ Cardinality(scenario.writers) \in Nat
  BY <1>1, FS_Subset, FS_CardinalityType, CancellationAssumption
<1>3. IsFiniteSet(Up) /\ Cardinality(Up) = Cardinality(scenario.writers) - 1
  BY <1>1, <1>2, FS_RemoveElement
<1>4. /\ IsFiniteSet(Up \ {First})
      /\ Cardinality(Up \ {First}) = Cardinality(scenario.writers) - 2
  <2>1. /\ IsFiniteSet(Up \ {First})
        /\ Cardinality(Up \ {First}) = Cardinality(Up) - 1
    BY <1>1, <1>3, FS_RemoveElement
  <2>. QED
    BY <1>2, <1>3, <2>1
<1>5. Size(n) = Cardinality(scenario.writers)
  BY DEF Size, Before
<1>6. ASSUME NEW N \in Nat, N >= 4
      PROVE  LET s == 2 * ((N - 1) \div 3) + 1 IN
             s \in Nat /\ s >= 3 /\ s <= N - 1 /\ ((N - 1) \div 3) + 1 >= 1
  BY <1>6
<1>7. PICK N \in Nat : N = Size(n) /\ N >= 4 /\ Cardinality(Up \ {First}) = N - 2
  BY <1>1, <1>2, <1>4, <1>5
<1>8. /\ Supermajority(n) = 2 * ((N - 1) \div 3) + 1
      /\ Minority(n) = ((N - 1) \div 3) + 1
  BY <1>7 DEF Supermajority, Minority
<1>9. N - 1 = (N - 2) + 1 /\ N = (N - 2) + 2 /\ N - 2 \in Nat
  BY <1>7
<1>10. /\ Cardinality(Up \ {First}) \in Nat
       /\ Size(n) = Cardinality(Up \ {First}) + 2
       /\ N - 1 = Cardinality(Up \ {First}) + 1
  BY <1>7, <1>9
<1>. QED
  BY <1>4, <1>6, <1>7, <1>8, <1>10

\* No timeout expires.
LEMMA NoTimeout ==
  ASSUME IInv, VerdictInv, TimelyInv, OneCrash, Noticed(scenario),
         NEW n \in Up, pc[n] \in {"proposals", "requested"}
  PROVE  ~MayExpire
<1>1. /\ First \in Up /\ Up \subseteq Writers /\ scenario.patient
  BY TheCrash
<1>2. SUFFICES \E k \in Up : Noticing(k) \/ Ready(k)
  BY <1>1 DEF MayExpire
<1>3. ASSUME NEW k \in Writers
      PROVE  /\ cancel_number[k] = 0 => Before(k)
             /\ Before(k) => cancel_number[k] = 0
             /\ After(k) => cancel_number[k] = 1 /\ pc[k] = "round"
             /\ Before(k) \/ After(k)
  BY DEF VerdictInv, Before, After
<1>4. n \in Writers /\ Before(n)
  BY <1>1, <1>3
<1>5. CASE Asked
  <2>1. n # First /\ pc[n] = "requested" /\ cancel_number[n] = 0
    BY <1>1, <1>3, <1>4, <1>5 DEF Asked, TimelyInv
  <2>2. PICK m \in msgs : m.type = "request_cancel" /\ m.to = n
    BY <1>5, <2>1 DEF TimelyInv, AskedInv
  <2>3. m \in Receivable(n, "request_cancel")
    BY <2>1, <2>2 DEF Receivable, Inbox
  <2>4. Ready(n)
    BY <2>1, <2>3 DEF Ready
  <2>. QED
    BY <2>4
<1>6. CASE ~Asked
  <2>1. CollectInv /\ Before(First) /\ pc[First] \in {"round", "proposals"}
    BY <1>1, <1>3, <1>6 DEF Asked, TimelyInv
  <2>2. CASE \E k \in Up : pc[k] = "round"
    <3>1. PICK k \in Up : pc[k] = "round"
      BY <2>2
    <3>2. cancel_number[k] = 0
      BY <1>1, <1>3, <2>1, <3>1 DEF CollectInv
    <3>. QED
      BY <3>1, <3>2, RoundMoves
  <2>3. CASE \A k \in Up : pc[k] # "round"
    <3>1. pc[First] = "proposals" /\ cancel_number[First] = 0
      BY <1>1, <1>3, <2>1, <2>3
    <3>2. \A k \in Up \ {First} : pc[k] = "requested"
      BY <2>1, <2>3 DEF CollectInv
    <3>3. CASE Counted = Up \ {First}
      <4>1. received[First] = 1 + Cardinality(Up \ {First})
            /\ received[First] < Supermajority(First)
        BY <2>1, <3>1, <3>3 DEF CollectInv
      <4>2. /\ Cardinality(Up \ {First}) \in Nat /\ Supermajority(First) \in Nat
            /\ Supermajority(First) <= Cardinality(Up \ {First}) + 1
        BY <1>1, <2>1, QuorumSize
      <4>. QED
        BY <4>1, <4>2
    <3>4. CASE Counted # Up \ {First}
      <4>1. PICK k \in Up \ {First} : ProposalsOf(k) # {}
        BY <3>2, <3>4 DEF Counted
      <4>2. PICK p \in msgs : p.type = "propose_cancel" /\ p.to = First
        BY <4>1 DEF ProposalsOf
      <4>3. p.cancel_number = 0
        BY DEF VerdictInv
      <4>4. p \in Proposals(First)
        BY <3>1, <4>2, <4>3 DEF Proposals, Inbox
      <4>5. Ready(First)
        BY <3>1, <4>4 DEF Ready
      <4>. QED
        BY <1>1, <4>5
    <3>. QED
      BY <3>3, <3>4
  <2>. QED
    BY <2>2, <2>3
<1>. QED
  BY <1>5, <1>6

LEMMA FlagFalls ==
  ASSUME NEW f, DOMAIN f = Writers, \A k \in Writers : ~f[k], NEW n \in Writers
  PROVE  /\ DOMAIN [f EXCEPT ![n] = FALSE] = Writers
         /\ \A k \in Writers : ~[f EXCEPT ![n] = FALSE][k]
BY Zenon

\* Nobody asks for another view.
LEMMA NoViewChange ==
  ASSUME IInv, VerdictInv, TimelyInv, OneCrash, Noticed(scenario), NEW n \in Up,
         cancel_number[n] = 0
  PROVE  ~SeesViewChange(n) /\ ~SeesNewView(n)
<1>1. n \in Writers
  BY TheCrash
<1>2. Before(n)
  BY <1>1 DEF VerdictInv, After
<1>3. ViewQueue(n) = {}
  BY DEF ViewQueue, Inbox, TimelyInv
<1>4. ViewChanges(n) = {}
      /\ {m \in ViewChanges(n) : IsCoordinator(n, m.view)} = {}
  BY <1>3 DEF ViewChanges
<1>5. Cardinality({}) = 0
  BY FS_EmptySet
<1>6. Minority(n) >= 1 /\ Supermajority(n) >= 3
  <2>. HIDE DEF Minority, Supermajority
  <2>. QED
    BY <1>1, <1>2, QuorumSize
<1>7. ~(0 >= Minority(n)) /\ ~(0 >= Supermajority(n))
  <2>1. Size(n) \in Nat /\ Minority(n) \in Int /\ Supermajority(n) \in Int
    <3>1. Size(n) \in Nat
      BY <1>1, <1>2, QuorumSize
    <3>. QED
      BY <3>1 DEF Minority, Supermajority
  <2>. QED
    BY <1>6, <2>1
<1>8. SeesViewChange(n) <=> 0 >= Minority(n)
  BY <1>4, <1>5 DEF SeesViewChange
<1>9. SeesNewView(n) <=> 0 >= Supermajority(n)
  BY <1>4, <1>5 DEF SeesNewView
<1>. QED
  BY <1>7, <1>8, <1>9

\* No block that comes with a message is refused.
LEMMA NoRaise ==
  ASSUME VerdictInv, NEW n \in Writers, cancel_number[n] = 0
  PROVE  ~AppendRaises(n, StartHeight)
<1>1. height[n] = StartHeight /\ StartHeight \in Nat
  BY CancellationAssumption DEF VerdictInv, Before, After
<1>. QED
  BY <1>1 DEF AppendRaises

(* Steps that keep it.                                                      *)

\* A step after the first writer has sent its request.
LEMMA AskedStays ==
  ASSUME IInv, OneCrash, Noticed(scenario), TimelyInv, Asked, NEW n \in Up,
         scenario' = scenario, received' \in [Writers -> Nat],
         DOMAIN view_changed' = Writers, \A k \in Writers : ~view_changed'[k],
         \A k \in Writers \ {n} :
           pc'[k] = pc[k] /\ cancel_number'[k] = cancel_number[k],
         pc'[n] \in {"round", "requested", "ballot"},
         pc'[n] = "requested" => n # First,
         n = First => pc'[n] = "ballot" \/ cancel_number'[n] = 1,
         \A m \in msgs' : \/ m \in msgs
                          \/ m.type = "propose_cancel" /\ m.block = StartHeight
                          \/ m.type = "vote_cancel",
         \A m \in msgs : m.type = "request_cancel" /\ m.to # n => m \in msgs',
         n # First /\ cancel_number'[n] = 0 /\ pc'[n] # "ballot" =>
           \E m \in msgs' : m.type = "request_cancel" /\ m.to = n
  PROVE  TimelyInv'
<1>1. Up' = Up /\ First' = First /\ First \in Up /\ Up \subseteq Writers
  BY TheCrash DEF Up, First
<1>2. Asked'
  BY <1>1 DEF Asked
<1>3. AskedInv'
  <2>1. ASSUME NEW k \in Up \ {First}, cancel_number'[k] = 0, pc'[k] # "ballot"
        PROVE  \E m \in msgs' : m.type = "request_cancel" /\ m.to = k
    <3>1. CASE k = n
      BY <2>1, <3>1
    <3>2. CASE k # n
      <4>1. cancel_number[k] = 0 /\ pc[k] # "ballot"
        BY <1>1, <2>1, <3>2
      <4>2. PICK m \in msgs : m.type = "request_cancel" /\ m.to = k
        BY <4>1 DEF TimelyInv, AskedInv
      <4>. QED
        BY <3>2, <4>2
    <3>. QED
      BY <3>1, <3>2
  <2>. QED
    BY <1>1, <2>1 DEF AskedInv
<1>4. ASSUME NEW k \in Up
      PROVE  /\ pc'[k] \in {"round", "proposals", "requested", "ballot"}
             /\ pc'[k] = "proposals" => k = First
             /\ pc'[k] = "requested" => k # First
  BY <1>1 DEF TimelyInv
<1>5. ASSUME NEW m \in msgs'
      PROVE  /\ m.type \in {"propose_cancel", "request_cancel", "vote_cancel"}
             /\ m.type # "vote_cancel" => m.block = StartHeight
  BY DEF TimelyInv
<1>. QED
  BY <1>1, <1>2, <1>3, <1>4, <1>5 DEF TimelyInv

\* Another node's proposal, before the first writer's request.
LEMMA ProposalJoins ==
  ASSUME IInv, OneCrash, Noticed(scenario), TimelyInv, ~Asked,
         NEW n \in Up \ {First}, pc[n] = "round",
         scenario' = scenario, received' \in [Writers -> Nat],
         received'[First] = received[First],
         Size(First)' = Size(First), cancel_number' = cancel_number,
         DOMAIN view_changed' = Writers, \A k \in Writers : ~view_changed'[k],
         \A k \in Writers \ {n} : pc'[k] = pc[k],
         pc'[n] = "requested",
         NEW queue \in SUBSET msgs, \A m \in msgs : m.to # n => m \in queue,
         NEW accd, height[n] = StartHeight, First \in Reached(n),
         msgs' = queue \cup Proposal(n, accd)
  PROVE  TimelyInv'
<1>1. Up' = Up /\ First' = First /\ First \in Up /\ Up \subseteq Writers
  BY TheCrash DEF Up, First
<1>2. CollectInv /\ pc[First] # "ballot" /\ ~Asked'
  BY <1>1 DEF TimelyInv, Asked
<1>3. ASSUME NEW m \in msgs'
      PROVE  \/ m \in queue
             \/ m.type = "propose_cancel" /\ m.block = StartHeight /\ m.from = n
  BY DEF Proposal
<1>4. ASSUME NEW k \in Up
      PROVE  /\ pc'[k] \in {"round", "proposals", "requested", "ballot"}
             /\ pc'[k] = "proposals" => k = First
             /\ pc'[k] = "requested" => k # First
  BY <1>1 DEF TimelyInv
<1>5. ASSUME NEW m \in msgs'
      PROVE  /\ m.type \in {"propose_cancel", "request_cancel", "vote_cancel"}
             /\ m.type # "vote_cancel" => m.block = StartHeight
             /\ m.type = "propose_cancel"
             /\ m.to = First => m.from \in Up \ {First} /\ pc'[m.from] = "requested"
  <2>1. CASE m \in queue
    BY <1>1, <1>2, <2>1 DEF TimelyInv, CollectInv
  <2>2. CASE m \notin queue
    BY <1>3, <2>2
  <2>. QED
    BY <2>1, <2>2
<1>. DEFINE to(k) == [type |-> "propose_cancel", from |-> n, to |-> k,
                      cancel_number |-> cancel_number[n], faulty_node |-> accd,
                      block |-> height[n]]
<1>6. PICK new \in Proposal(n, accd) :
        /\ new.type = "propose_cancel" /\ new.from = n /\ new.to = First
        /\ \A m \in Proposal(n, accd) : m.to = First => m = new
  <2>1. Proposal(n, accd) = {to(k) : k \in Reached(n)}
    BY Zenon DEF Proposal
  <2>2. to(First) \in Proposal(n, accd)
    BY <2>1
  <2>3. \A k : /\ to(k).type = "propose_cancel" /\ to(k).from = n
              /\ to(k).to = k
    OBVIOUS
  <2>. HIDE DEF to
  <2>4. \A m \in Proposal(n, accd) : m.to = First => m = to(First)
    BY <2>1, <2>3
  <2>. QED
    BY <2>2, <2>3, <2>4
<1>7. ASSUME NEW p \in msgs', NEW q \in msgs', p.to = First, q.to = First,
             p.from = q.from
      PROVE  p = q
  <2>1. ASSUME NEW m \in queue, m.to = First PROVE m.from # n
    BY <1>2, <2>1 DEF CollectInv
  <2>2. ASSUME NEW m \in Proposal(n, accd) PROVE m.from = n
    BY <2>2 DEF Proposal
  <2>3. CASE p \in queue /\ q \in queue
    BY <1>2, <1>7, <2>3 DEF CollectInv
  <2>4. CASE p \in Proposal(n, accd) /\ q \in Proposal(n, accd)
    BY <1>6, <1>7, <2>4
  <2>5. p.from = n => p \in Proposal(n, accd)
    BY <1>7, <2>1
  <2>6. q.from = n => q \in Proposal(n, accd)
    BY <1>7, <2>1
  <2>. QED
    BY <1>7, <2>2, <2>3, <2>4, <2>5, <2>6
<1>8. Counted' = Counted
  <2>1. ASSUME NEW k \in Up \ {First}, k # n
        PROVE  ProposalsOf(k)' = ProposalsOf(k)
    <3>1. ASSUME NEW p \in msgs', p.from = k, p.to = First
          PROVE  p \in msgs
      BY <1>3, <2>1, <3>1
    <3>2. ASSUME NEW p \in msgs, p.to = First
          PROVE  p \in msgs'
      BY <3>2
    <3>. QED
      BY <1>1, <3>1, <3>2 DEF ProposalsOf
  <2>2. ProposalsOf(n)' # {}
    BY <1>1, <1>6 DEF ProposalsOf
  <2>. QED
    BY <1>1, <2>1, <2>2 DEF Counted
<1>9. pc'[First] = pc[First]
  BY <1>1
<1>10. CollectInv'
  <2>1. ASSUME NEW k \in Up \ {First}
        PROVE  pc'[k] \in {"round", "requested"} /\ cancel_number'[k] = 0
    BY <1>1, <1>2 DEF CollectInv
  <2>2. Supermajority(First)' = Supermajority(First)
    BY <1>1 DEF Supermajority
  <2>. QED
    BY <1>1, <1>2, <1>5, <1>7, <1>8, <1>9, <2>1, <2>2 DEF CollectInv
<1>. QED
  BY <1>1, <1>2, <1>4, <1>5, <1>10 DEF TimelyInv

\* The first writer's own.
LEMMA CollectStarts ==
  ASSUME IInv, VerdictInv, OneCrash, Noticed(scenario), TimelyInv, ~Asked,
         pc[First] = "round",
         scenario' = scenario, received' \in [Writers -> Nat],
         Size(First)' = Size(First), cancel_number' = cancel_number,
         DOMAIN view_changed' = Writers, \A k \in Writers : ~view_changed'[k],
         \A k \in Writers \ {First} : pc'[k] = pc[k],
         pc'[First] = "proposals", height[First] = StartHeight,
         NEW queue \in SUBSET msgs, NEW accd,
         msgs' = queue \cup Proposal(First, accd),
         \/ queue = msgs /\ received'[First] = 1
         \/ \E p \in msgs : /\ p.to = First /\ queue = msgs \ {p}
                            /\ received'[First] = 2
  PROVE  TimelyInv'
<1>1. Up' = Up /\ First' = First /\ First \in Up /\ Up \subseteq Writers
  BY TheCrash DEF Up, First
<1>2. CollectInv /\ pc[First] # "ballot" /\ ~Asked'
  BY <1>1 DEF TimelyInv, Asked
<1>3. ASSUME NEW m \in msgs'
      PROVE  \/ m \in queue
             \/ m.type = "propose_cancel" /\ m.block = StartHeight /\ m.to # First
  <2>1. CASE m \in queue
    BY <2>1
  <2>2. CASE m \in Proposal(First, accd)
    <3>1. PICK k \in Reached(First) :
            m = [type |-> "propose_cancel", from |-> First, to |-> k,
                 cancel_number |-> cancel_number[First], faulty_node |-> accd,
                 block |-> height[First]]
      BY <2>2 DEF Proposal
    <3>2. k # First
      BY DEF Reached
    <3>. QED
      BY <3>1, <3>2
  <2>. QED
    BY <2>1, <2>2
<1>4. ASSUME NEW k \in Up
      PROVE  /\ pc'[k] \in {"round", "proposals", "requested", "ballot"}
             /\ pc'[k] = "proposals" => k = First
             /\ pc'[k] = "requested" => k # First
  BY <1>1 DEF TimelyInv
<1>5. ASSUME NEW m \in msgs'
      PROVE  /\ m.type \in {"propose_cancel", "request_cancel", "vote_cancel"}
             /\ m.type # "vote_cancel" => m.block = StartHeight
             /\ m.type = "propose_cancel"
             /\ m.to = First => /\ m \in queue /\ m.from \in Up \ {First}
                                /\ pc'[m.from] = "requested"
  BY <1>1, <1>2, <1>3 DEF TimelyInv, CollectInv
<1>6. ASSUME NEW p \in msgs', NEW q \in msgs', p.to = First, q.to = First,
             p.from = q.from
      PROVE  p = q
  BY <1>2, <1>5, <1>6 DEF CollectInv
<1>7. \A k : ProposalsOf(k)' = {p \in queue : p.type = "propose_cancel"
                                               /\ p.from = k /\ p.to = First}
  BY <1>1, <1>5 DEF ProposalsOf
<1>8. \A k \in Up \ {First} : pc'[k] = pc[k]
  BY <1>1
<1>9. received'[First] = 1 + Cardinality(Counted') /\ received'[First] \in {1, 2}
  <2>1. CASE queue = msgs /\ received'[First] = 1
    <3>1. Counted' = {}
      BY <1>1, <1>2, <1>7, <1>8, <2>1 DEF Counted, ProposalsOf, CollectInv
    <3>2. Cardinality(Counted') = 0
      BY <3>1, FS_EmptySet
    <3>. QED
      BY <2>1, <3>2
  <2>2. CASE \E p \in msgs : /\ p.to = First /\ queue = msgs \ {p}
                             /\ received'[First] = 2
    <3>1. PICK p \in msgs : p.to = First /\ queue = msgs \ {p}
      BY <2>2
    <3>2. Counted' = {p.from}
      <4>1. p.from \in Up \ {First} /\ pc[p.from] = "requested"
        BY <1>2, <3>1 DEF CollectInv
      <4>2. ProposalsOf(p.from)' = {}
        BY <1>2, <1>7, <3>1 DEF CollectInv
      <4>3. ASSUME NEW k \in Up \ {First}, k # p.from, pc[k] = "requested"
            PROVE  ProposalsOf(k)' # {}
        <5>1. ProposalsOf(k) # {}
          BY <1>2, <4>3 DEF CollectInv, Counted
        <5>. QED
          BY <1>7, <3>1, <4>3, <5>1 DEF ProposalsOf
      <4>. QED
        BY <1>1, <1>8, <4>1, <4>2, <4>3 DEF Counted
    <3>3. Cardinality(Counted') = 1
      BY <3>2, FS_Singleton
    <3>4. received'[First] = 2
      BY <2>2
    <3>. QED
      BY <3>3, <3>4
  <2>3. \/ queue = msgs /\ received'[First] = 1
        \/ \E p \in msgs : /\ p.to = First /\ queue = msgs \ {p}
                           /\ received'[First] = 2
    OBVIOUS
  <2>. QED
    BY <2>1, <2>2, <2>3
<1>10. CollectInv'
  <2>1. ASSUME NEW k \in Up \ {First}
        PROVE  pc'[k] \in {"round", "requested"} /\ cancel_number'[k] = 0
    BY <1>1, <1>2 DEF CollectInv
  <2>2. Supermajority(First)' = Supermajority(First) /\ Supermajority(First) \in Nat
        /\ Supermajority(First) >= 3
    <3>1. Before(First)
      BY <1>1, <1>2 DEF VerdictInv, After, Asked
    <3>. QED
      BY <1>1, <3>1, QuorumSize DEF Supermajority
  <2>3. received'[First] < Supermajority(First)'
    BY <1>9, <2>2
  <2>. QED
    BY <1>1, <1>2, <1>5, <1>6, <1>9, <2>1, <2>3 DEF CollectInv
<1>. QED
  BY <1>1, <1>2, <1>4, <1>5, <1>10 DEF TimelyInv

\* One more counted.
LEMMA CollectGoesOn ==
  ASSUME IInv, VerdictInv, OneCrash, Noticed(scenario), TimelyInv, ~Asked,
         UNCHANGED <<scenario, pc, view_changed, cancel_number, round_writer_list>>,
         pc[First] = "proposals", received[First] + 1 < Supermajority(First),
         received' = [received EXCEPT ![First] = @ + 1],
         NEW p \in msgs, p.to = First, msgs' = msgs \ {p}
  PROVE  TimelyInv'
<1>1. Up' = Up /\ First' = First /\ First \in Up /\ Up \subseteq Writers
  BY TheCrash DEF Up, First
<1>2. CollectInv /\ ~Asked'
  BY <1>1 DEF TimelyInv, Asked
<1>3. received' \in [Writers -> Nat] /\ received'[First] = received[First] + 1
  BY <1>1 DEF TimelyInv
<1>4. /\ p.from \in Up \ {First} /\ pc[p.from] = "requested"
      /\ p.type = "propose_cancel"
  BY <1>2 DEF CollectInv
<1>5. Counted' = Counted \cup {p.from} /\ p.from \notin Counted
  <2>1. ProposalsOf(p.from)' = {}
    BY <1>1, <1>2 DEF CollectInv, ProposalsOf
  <2>2. \A k : k # p.from => ProposalsOf(k)' = ProposalsOf(k)
    BY <1>1 DEF ProposalsOf
  <2>3. ProposalsOf(p.from) # {}
    BY <1>4 DEF ProposalsOf
  <2>. QED
    BY <1>1, <1>4, <2>1, <2>2, <2>3 DEF Counted
<1>6. Cardinality(Counted') = Cardinality(Counted) + 1 /\ Cardinality(Counted) \in Nat
  <2>1. IsFiniteSet(Counted)
    <3>1. Before(First)
      BY <1>1, <1>2 DEF VerdictInv, After, Asked
    <3>2. IsFiniteSet(Up \ {First}) /\ Counted \in SUBSET (Up \ {First})
      BY <1>1, <3>1, QuorumSize DEF Counted
    <3>. QED
      BY <3>2, FS_Subset
  <2>. QED
    BY <1>5, <2>1, FS_AddElement, FS_CardinalityType
<1>7. received[First] = 1 + Cardinality(Counted)
  BY <1>2 DEF CollectInv
<1>8. received'[First] = 1 + Cardinality(Counted')
  BY <1>3, <1>6, <1>7
<1>9. Supermajority(First)' = Supermajority(First)
  BY <1>1 DEF Supermajority, Size
<1>10. CollectInv'
  BY <1>1, <1>2, <1>3, <1>8, <1>9 DEF CollectInv
<1>. QED
  BY <1>1, <1>2, <1>3, <1>10 DEF TimelyInv

\* The request, which everybody gets.
LEMMA RequestGoesOut ==
  ASSUME IInv, VerdictInv, OneCrash, Noticed(scenario), TimelyInv,
         UNCHANGED <<scenario, view_changed, cancel_number, received>>,
         height[First] = StartHeight, NEW v, NEW acc, NEW accd, NEW id,
         pc' = [pc EXCEPT ![First] = "ballot"],
         NEW queue \in SUBSET msgs,
         msgs' = (queue \cup Request(First, v, acc, accd)) \cup VoteFor(First, id)
  PROVE  TimelyInv'
<1>1. Up' = Up /\ First' = First /\ First \in Up /\ Up \subseteq Writers
  BY TheCrash DEF Up, First
<1>2. /\ pc'[First] = "ballot" /\ \A k \in Writers \ {First} : pc'[k] = pc[k]
  BY <1>1 DEF IInv, BallotInv
<1>3. Asked'
  BY <1>1, <1>2 DEF Asked
<1>4. Up \ {First} \subseteq Reached(First)
  BY TheCrash DEF Reached, IInv, AccusationInv
<1>5. ASSUME NEW k \in Up \ {First}
      PROVE  \E m \in msgs' : m.type = "request_cancel" /\ m.to = k
  <2>1. k \in Reached(First)
    BY <1>4
  <2>. DEFINE m == [type |-> "request_cancel", from |-> First, to |-> k,
                    cancel_number |-> cancel_number[First], view |-> v,
                    vote |-> <<acc, accd>>, block |-> height[First]]
  <2>2. m \in Request(First, v, acc, accd)
    BY <2>1 DEF Request
  <2>3. m.type = "request_cancel" /\ m.to = k
    OBVIOUS
  <2>. HIDE DEF m
  <2>. QED
    BY <2>2, <2>3
<1>6. ASSUME NEW m \in msgs'
      PROVE  /\ m.type \in {"propose_cancel", "request_cancel", "vote_cancel"}
             /\ m.type # "vote_cancel" => m.block = StartHeight
  <2>1. CASE m \in queue
    BY <2>1 DEF TimelyInv
  <2>2. CASE m \in Request(First, v, acc, accd)
    BY <2>2 DEF Request
  <2>3. CASE m \in VoteFor(First, id)
    BY <2>3 DEF VoteFor
  <2>. QED
    BY <2>1, <2>2, <2>3
<1>7. AskedInv'
  BY <1>1, <1>5 DEF AskedInv
<1>. QED
  BY <1>1, <1>2, <1>3, <1>6, <1>7 DEF TimelyInv

\* A node accuses, by itself or as a proposal it has received does.
LEMMA ProposeTimely ==
  ASSUME IInv, VerdictInv, OneCrash, Noticed(scenario), TimelyInv,
         StartHeight \notin Json, NEW n \in Up, pc[n] = "round", Before(n),
         NEW acc, NEW accd, NEW queue,
         \/ acc = 0 /\ queue = msgs
         \/ \E p \in msgs : /\ p.type = "propose_cancel" /\ p.to = n
                            /\ acc = p.from /\ queue = msgs \ {p},
         Propose(n, acc, accd, queue), Frame
  PROVE  TimelyInv'
<1>1. /\ n \in Writers /\ First \in Up /\ First \in Writers
      /\ Up \subseteq Writers /\ Writers \subseteq Nat \ {0}
      /\ height[n] = StartHeight
  BY TheCrash, CancellationAssumption DEF Before
<1>2. /\ scenario' = scenario /\ cancel_number' = cancel_number
      /\ Size(First)' = Size(First)
  BY DEF Frame, Size, First
<1>3. /\ pc'[n] = IF n = First THEN "proposals" ELSE "requested"
      /\ \A k \in Writers \ {n} : pc'[k] = pc[k]
  <2>1. pc' = [pc EXCEPT ![n] = IF n = First THEN "proposals" ELSE "requested"]
    BY <1>1, FirstCoordinates DEF Propose
  <2>. QED
    BY <1>1, <2>1 DEF IInv, BallotInv
<1>4. /\ received' \in [Writers -> Nat]
      /\ received'[n] = IF acc = 0 THEN 1 ELSE 2
      /\ \A k \in Writers \ {n} : received'[k] = received[k]
  <2>1. received' = [received EXCEPT ![n] = IF acc = 0 THEN 1 ELSE 2]
        /\ received \in [Writers -> Nat]
    BY DEF Propose, TimelyInv
  <2>2. CASE acc = 0
    BY <1>1, <2>1, <2>2
  <2>3. CASE acc # 0
    BY <1>1, <2>1, <2>3
  <2>. QED
    BY <2>2, <2>3
<1>5. DOMAIN view_changed' = Writers /\ \A k \in Writers : ~view_changed'[k]
  <2>1. view_changed' = [view_changed EXCEPT ![n] = FALSE]
    BY Zenon DEF Propose
  <2>2. DOMAIN view_changed = Writers /\ \A k \in Writers : ~view_changed[k]
    BY DEF TimelyInv
  <2>3. /\ DOMAIN [view_changed EXCEPT ![n] = FALSE] = Writers
        /\ \A k \in Writers : ~[view_changed EXCEPT ![n] = FALSE][k]
    BY <1>1, <2>2, FlagFalls
  <2>. QED
    BY <2>1, <2>3, Zenon
<1>6. msgs' = queue \cup Proposal(n, accd)
  BY <1>1 DEF Propose
<1>7. queue \in SUBSET msgs /\ \A m \in msgs : m.to # n => m \in queue
  OBVIOUS
<1>8. \A m \in Proposal(n, accd) : m.type = "propose_cancel" /\ m.block = StartHeight
  BY <1>1 DEF Proposal
<1>9. CASE Asked
  <2>1. n # First
    BY <1>1, <1>9 DEF Asked, Before
  <2>2. PICK r \in msgs : r.type = "request_cancel" /\ r.to = n
    BY <1>9, <2>1 DEF TimelyInv, AskedInv, Before
  <2>3. r \in msgs'
    BY <1>6, <2>2
  <2>4. \A m \in msgs' : \/ m \in msgs
                         \/ m.type = "propose_cancel" /\ m.block = StartHeight
    BY <1>6, <1>7, <1>8
  <2>5. \A m \in msgs : m.type = "request_cancel" /\ m.to # n => m \in msgs'
    BY <1>6, <1>7
  <2>. QED
    BY <1>1, <1>2, <1>3, <1>4, <1>5, <1>9, <2>1, <2>2, <2>3, <2>4, <2>5, AskedStays
<1>10. CASE ~Asked /\ n # First
  <2>1. First \in Reached(n)
    BY <1>10, TheCrash DEF Reached, IInv, AccusationInv
  <2>. QED
    BY <1>1, <1>2, <1>3, <1>4, <1>5, <1>6, <1>7, <1>10, <2>1, ProposalJoins
<1>11. CASE ~Asked /\ n = First
  <2>1. \/ queue = msgs /\ received'[First] = 1
        \/ \E p \in msgs : /\ p.to = First /\ queue = msgs \ {p}
                           /\ received'[First] = 2
    <3>1. \A p \in msgs : p.to = First => p.from # 0
      BY <1>1, <1>11 DEF TimelyInv, CollectInv
    <3>. QED
      BY <1>4, <1>11, <3>1
  <2>. QED
    BY <1>1, <1>2, <1>3, <1>4, <1>5, <1>6, <1>7, <1>11, <2>1, CollectStarts
<1>. QED
  BY <1>9, <1>10, <1>11

\* A message that has been read, and does not kill the reader.
LEMMA ProposalRead ==
  ASSUME IInv, VerdictInv, OneCrash, Noticed(scenario), TimelyInv,
         NEW n \in Up, Before(n), NEW m \in Proposals(n)
  PROVE  /\ m \in msgs /\ m.type = "propose_cancel" /\ m.to = n
         /\ ~AppendRaises(n, m.block)
<1>1. m \in msgs /\ m.type = "propose_cancel" /\ m.to = n
  BY DEF Proposals, Inbox
<1>2. n \in Writers /\ cancel_number[n] = 0 /\ m.block = StartHeight
  BY <1>1, TheCrash DEF Before, TimelyInv
<1>. QED
  BY <1>1, <1>2, NoRaise

LEMMA ProposalsTimely ==
  ASSUME IInv, VerdictInv, OneCrash, Noticed(scenario), TimelyInv,
         StartHeight \notin Json, NEW n \in Up, Before(n),
         \/ FollowProposal(n) \/ OwnProposal(n) \/ BadProposal(n)
         \/ LastProposal(n) \/ OneMoreProposal(n)
  PROVE  TimelyInv'
<1>1. /\ n \in Writers /\ First \in Up /\ Up \subseteq Writers
      /\ height[n] = StartHeight /\ cancel_number[n] = 0 /\ ~view_changed[n]
  BY TheCrash DEF Before, TimelyInv
<1>2. CASE FollowProposal(n)
  <2>1. PICK m \in Proposals(n) :
          pc[n] = "round" /\ Propose(n, m.from, m.faulty_node, msgs \ {m}) /\ Frame
    BY <1>2 DEF FollowProposal
  <2>2. m \in msgs /\ m.type = "propose_cancel" /\ m.to = n
    BY ProposalRead
  <2>3. \E p \in msgs : /\ p.type = "propose_cancel" /\ p.to = n
                        /\ m.from = p.from /\ msgs \ {m} = msgs \ {p}
    BY <2>2
  <2>. QED
    BY <2>1, <2>3, ProposeTimely
<1>3. CASE OwnProposal(n)
  BY <1>3, ProposeTimely DEF OwnProposal
<1>4. CASE BadProposal(n)
  BY <1>4, ProposalRead DEF BadProposal
<1>5. pc[n] = "proposals" => n = First
  BY DEF TimelyInv
<1>6. CASE LastProposal(n)
  <2>1. PICK m \in Proposals(n) : EndOfProposals(n, msgs \ {m})
    BY <1>6 DEF LastProposal
  <2>2. n = First /\ RequestVote(n, 0, accuser[n], accused[n], msgs \ {m}) /\ Frame
    BY <1>1, <1>5, <1>6, <2>1 DEF LastProposal, EndOfProposals
  <2>3. PICK id : id = Choice(n, accuser[n], accused[n])
    OBVIOUS
  <2>4. /\ pc' = [pc EXCEPT ![First] = "ballot"]
        /\ msgs' = ((msgs \ {m}) \cup Request(First, 0, accuser[n], accused[n]))
                      \cup VoteFor(First, id)
        /\ UNCHANGED <<view_changed, received>>
    BY <2>2, <2>3 DEF RequestVote, Vote, waits
  <2>5. UNCHANGED <<scenario, cancel_number>>
    BY <2>2 DEF Frame
  <2>. QED
    BY <1>1, <2>2, <2>4, <2>5, RequestGoesOut
<1>7. CASE OneMoreProposal(n)
  <2>1. n = First /\ pc[n] = "proposals" /\ received[n] + 1 < Supermajority(n)
    BY <1>5, <1>7 DEF OneMoreProposal
  <2>2. ~Asked
    BY <1>1, <2>1 DEF Asked
  <2>3. ~SeesViewChange(n)
    BY <1>1, NoViewChange
  <2>4. PICK m \in Proposals(n) :
          msgs' = msgs \ {m} /\ UNCHANGED <<view_changed, min_view_change>>
    BY <1>1, <1>7, <2>3 DEF OneMoreProposal
  <2>5. /\ UNCHANGED <<scenario, pc, view_changed, cancel_number, round_writer_list>>
        /\ received' = [received EXCEPT ![First] = @ + 1]
    BY <1>7, <2>1, <2>4 DEF OneMoreProposal, Frame
  <2>6. m \in msgs /\ m.to = First
    BY <2>1, ProposalRead
  <2>. QED
    BY <2>1, <2>2, <2>4, <2>5, <2>6, CollectGoesOn
<1>. QED
  BY <1>2, <1>3, <1>4, <1>6, <1>7

\* The request is taken, which has been sent.
LEMMA RequestTimely ==
  ASSUME IInv, VerdictInv, OneCrash, Noticed(scenario), TimelyInv,
         NEW n \in Up, Before(n), TakeRequest(n)
  PROVE  TimelyInv'
<1>1. /\ n \in Writers /\ First \in Up /\ Up \subseteq Writers /\ First \in Writers
      /\ pc[n] = "requested" /\ n # First
  BY TheCrash DEF TimelyInv, TakeRequest
<1>2. PICK m \in Receivable(n, "request_cancel") :
        Vote(n, view[n], m.vote[1], m.vote[2], msgs \ {m})
  BY DEF TakeRequest
<1>3. m \in msgs /\ m.type = "request_cancel" /\ m.to = n
  BY DEF Receivable, Inbox
<1>4. Asked
  BY <1>3 DEF TimelyInv, CollectInv
<1>5. PICK id : id = Choice(n, m.vote[1], m.vote[2])
  OBVIOUS
<1>6. /\ pc' = [pc EXCEPT ![n] = "ballot"]
      /\ msgs' = (msgs \ {m}) \cup VoteFor(n, id)
      /\ UNCHANGED <<view_changed, received>>
  BY <1>2, <1>5 DEF Vote, waits
<1>7. UNCHANGED <<scenario, cancel_number>>
  BY DEF TakeRequest, Frame
<1>8. pc'[n] = "ballot" /\ \A k \in Writers \ {n} : pc'[k] = pc[k]
  BY <1>1, <1>6 DEF IInv, BallotInv
<1>9. \A l \in msgs' : l \in msgs \/ l.type = "vote_cancel"
  BY <1>6 DEF VoteFor
<1>10. \A l \in msgs : l.type = "request_cancel" /\ l.to # n => l \in msgs'
  BY <1>3, <1>6
<1>11. /\ received' \in [Writers -> Nat]
       /\ DOMAIN view_changed' = Writers /\ \A k \in Writers : ~view_changed'[k]
  BY <1>6 DEF TimelyInv
<1>. QED
  BY <1>1, <1>4, <1>7, <1>8, <1>9, <1>10, <1>11, AskedStays

\* Nobody votes before.
LEMMA VotesAsked ==
  ASSUME TimelyInv, NEW n \in Up, pc[n] = "ballot" \/ cancel_number[n] = 1
  PROVE  Asked
BY DEF Asked, TimelyInv, CollectInv

LEMMA TakeVoteTimely ==
  ASSUME IInv, VerdictInv, OneCrash, Noticed(scenario), TimelyInv,
         NEW n \in Up, TakeVote(n)
  PROVE  TimelyInv'
<1>1. n \in Writers /\ First \in Up /\ pc[n] = "ballot" /\ Asked
  BY TheCrash, VotesAsked DEF TakeVote
<1>2. /\ UNCHANGED <<scenario, cancel_number, pc, received, view_changed>>
      /\ \E m \in msgs : m.type = "vote_cancel" /\ msgs' = msgs \ {m}
  BY DEF TakeVote, Frame, waits, Receivable, Inbox
<1>3. /\ received' \in [Writers -> Nat]
      /\ DOMAIN view_changed' = Writers /\ \A k \in Writers : ~view_changed'[k]
  BY <1>2 DEF TimelyInv
<1>. QED
  BY <1>1, <1>2, <1>3, AskedStays

LEMMA VerdictTimely ==
  ASSUME IInv, VerdictInv, OneCrash, Noticed(scenario), TimelyInv,
         NEW n \in Up, Before(n), Verdict(n)
  PROVE  TimelyInv'
<1>1. n \in Writers /\ First \in Up /\ Asked
  BY TheCrash, VotesAsked DEF Verdict
<1>2. /\ UNCHANGED <<scenario, msgs>>
      /\ pc' = [pc EXCEPT ![n] = "round"]
      /\ cancel_number' = [cancel_number EXCEPT ![n] = @ + 1]
      /\ received' = [received EXCEPT ![n] = 0]
  BY DEF Verdict
<1>3. /\ pc'[n] = "round" /\ cancel_number'[n] = 1
      /\ \A k \in Writers \ {n} :
           pc'[k] = pc[k] /\ cancel_number'[k] = cancel_number[k]
  BY <1>1, <1>2 DEF IInv, BallotInv, VerdictInv, Before
<1>4. received' \in [Writers -> Nat]
  BY <1>1, <1>2 DEF TimelyInv
<1>5. DOMAIN view_changed' = Writers /\ \A k \in Writers : ~view_changed'[k]
  <2>1. view_changed' = [view_changed EXCEPT ![n] = FALSE]
    BY Zenon DEF Verdict
  <2>2. DOMAIN view_changed = Writers /\ \A k \in Writers : ~view_changed[k]
    BY DEF TimelyInv
  <2>3. /\ DOMAIN [view_changed EXCEPT ![n] = FALSE] = Writers
        /\ \A k \in Writers : ~[view_changed EXCEPT ![n] = FALSE][k]
    BY <1>1, <2>2, FlagFalls
  <2>. QED
    BY <2>1, <2>3, Zenon
<1>. QED
  BY <1>1, <1>2, <1>3, <1>4, <1>5, AskedStays

LEMMA CompleteTimely ==
  ASSUME IInv, VerdictInv, OneCrash, Noticed(scenario), TimelyInv,
         NEW n \in Up, CompleteRound(n)
  PROVE  TimelyInv'
<1>1. n \in Writers /\ First \in Up
  BY TheCrash
<1>2. After(n)
  <2>1. PICK x \in scenario.writers : scenario.down = {x} /\ x \notin Up
    BY OnlyOneLost
  <2>2. x \notin round_writer_list[n]
    BY <2>1 DEF CompleteRound, Completes, TakesPart
  <2>. QED
    BY <1>1, <2>1, <2>2 DEF VerdictInv, Before
<1>3. cancel_number[n] = 1 /\ pc[n] = "round"
  BY <1>2 DEF After
<1>4. Asked
  BY <1>3, VotesAsked
<1>5. UNCHANGED <<scenario, msgs, pc, cancel_number, received, view_changed>>
  BY DEF CompleteRound, waits
<1>6. /\ received' \in [Writers -> Nat]
      /\ DOMAIN view_changed' = Writers /\ \A k \in Writers : ~view_changed'[k]
  BY <1>5 DEF TimelyInv
<1>. QED
  BY <1>1, <1>3, <1>4, <1>5, <1>6, AskedStays

LEMMA TimelyNext ==
  ASSUME IInv, VerdictInv, OneCrash, Noticed(scenario), TimelyInv,
         StartHeight \notin Json, [Next]_vars
  PROVE  TimelyInv'
<1>1. CASE UNCHANGED <<scenario, pc, cancel_number, received, view_changed,
                       round_writer_list, msgs>>
  <2>1. Up' = Up /\ First' = First /\ (Asked <=> Asked')
        /\ Supermajority(First)' = Supermajority(First)
    BY <1>1 DEF Up, First, Asked, Supermajority, Size
  <2>2. Counted' = Counted
    BY <1>1, <2>1 DEF Counted, ProposalsOf
  <2>3. CollectInv => CollectInv'
    BY <1>1, <2>1, <2>2 DEF CollectInv
  <2>4. AskedInv => AskedInv'
    BY <1>1, <2>1 DEF AskedInv
  <2>. QED
    BY <1>1, <2>1, <2>3, <2>4 DEF TimelyInv
<1>2. ASSUME NEW n \in Up, NodeStep(n) PROVE TimelyInv'
  <2>1. n \in Writers
    BY TheCrash
  <2>2. Timely(n)
    <3>1. CASE pc[n] \in {"proposals", "requested"}
      BY <1>2, <3>1, NoTimeout DEF NodeStep
    <3>2. CASE pc[n] \notin {"proposals", "requested"}
      BY <1>2, <3>2 DEF NodeStep
    <3>. QED
      BY <3>1, <3>2
  <2>3. CASE CompleteRound(n)
    BY <2>3, CompleteTimely
  <2>4. CASE Verdict(n)
    <3>1. Before(n)
      BY <2>1, <2>4 DEF VerdictInv, After, Verdict
    <3>. QED
      BY <2>4, <3>1, VerdictTimely
  <2>5. CASE CancelStep(n)
    <3>1. Before(n) /\ cancel_number[n] = 0
      BY <2>1, <2>5, CancelBefore DEF Before
    <3>2. CASE \/ FollowProposal(n) \/ OwnProposal(n) \/ BadProposal(n)
               \/ LastProposal(n) \/ OneMoreProposal(n)
      BY <3>1, <3>2, ProposalsTimely
    <3>3. CASE TakeRequest(n) \/ TakeVote(n)
      BY <3>1, <3>3, RequestTimely, TakeVoteTimely
    <3>4. ~BadRequest(n)
      BY <2>1, <3>1, NoRaise DEF BadRequest, Receivable, Inbox, TimelyInv
    <3>5. ~JoinViewChange(n) /\ ~NewView(n)
      BY <3>1, NoViewChange DEF JoinViewChange, NewView
    <3>6. \/ FollowProposal(n) \/ OwnProposal(n) \/ BadProposal(n)
          \/ LastProposal(n) \/ OneMoreProposal(n) \/ TakeRequest(n)
          \/ TakeVote(n) \/ CompleteRound(n) \/ Verdict(n)
      BY <2>2, <3>4, <3>5 DEF Timely
    <3>. QED
      BY <2>3, <2>4, <3>2, <3>3, <3>6
  <2>. QED
    BY <2>2, <2>3, <2>4, <2>5 DEF Timely, CancelStep
<1>3. CASE (\E n \in Up : \E m \in Writers : Notice(n, m)) \/ UNCHANGED vars
  BY <1>1, <1>3 DEF Notice, vars, waits, memVars
<1>. QED
  BY <1>2, <1>3 DEF Next

----------------------------------------------------------------------------
(* One of four has crashed: nobody gets beyond view 1.                      *)

LEMMA ThreeUp ==
  ASSUME IInv, OneCrash, OneOfFour(scenario)
  PROVE  /\ Up \subseteq Writers /\ Cardinality(scenario.writers) = 4
         /\ IsFiniteSet(Up) /\ Cardinality(Up) = 3
<1>1. PICK x \in scenario.writers : scenario.down = {x}
  BY DEF OneCrash, IInv
<1>2. scenario.writers \subseteq Writers /\ IsFiniteSet(scenario.writers)
  BY FS_Subset, CancellationAssumption DEF IInv, Scenario
<1>3. Up = scenario.writers \ {x}
  BY <1>1 DEF Up
<1>4. Cardinality(scenario.writers) = 4
  BY DEF OneOfFour
<1>5. IsFiniteSet(Up) /\ Cardinality(Up) = 4 - 1
  BY <1>1, <1>2, <1>3, <1>4, FS_RemoveElement
<1>. QED
  BY <1>2, <1>3, <1>4, <1>5

\* No node counts more view changes than there are others that have voted.
LEMMA ViewChangesVoted ==
  ASSUME IInv, VerdictInv, OneCrash, OneOfFour(scenario), FourInv,
         NEW n \in Up, Before(n), pc[n] # "ballot"
  PROVE  /\ ~SeesNewView(n)
         /\ SeesViewChange(n) => view[n] = 0 /\ \A k \in Up \ {n} : Voted(k)
<1>1. /\ n \in Writers /\ ~Voted(n) /\ view[n] \in {0, 1}
  BY ThreeUp DEF Before, Voted, FourInv
<1>2. Minority(n) = 2 /\ Supermajority(n) = 3
  <2>1. Size(n) = 4
    BY ThreeUp DEF Before, Size
  <2>. QED
    BY <2>1 DEF Minority, Supermajority
<1>. DEFINE V == ViewChanges(n)
<1>3. ASSUME NEW m \in V
      PROVE  /\ m \in msgs /\ m.type = "view_change" /\ m.to = n
             /\ m.view = 1 /\ m.view > view[n]
             /\ Voted(m.from) /\ m.from \in Up \ {n}
  <2>1. m \in msgs /\ m.to = n /\ m.type \in {"view_change", "new_view"}
        /\ m.view > view[n]
    BY DEF ViewChanges, ViewQueue, Inbox
  <2>2. m.type = "view_change"
    BY <1>1, <2>1 DEF FourInv, Asking
  <2>3. m.view = 1 /\ Voted(m.from) /\ m.from \in Up
    BY <1>1, <2>1, <2>2 DEF FourInv, Asking
  <2>4. m.from # n
    BY <1>1, <2>3
  <2>. QED
    BY <2>1, <2>2, <2>3, <2>4
<1>4. ASSUME NEW p \in V, NEW q \in V, p.from = q.from PROVE p = q
  BY <1>1, <1>3, <1>4 DEF FourInv, Asking
<1>. HIDE DEF V
<1>5. ASSUME NEW T, IsFiniteSet(T), \A m \in V : m.from \in T
      PROVE  IsFiniteSet(V) /\ Cardinality(V) \in Nat
             /\ Cardinality(V) <= Cardinality(T)
  <2>. DEFINE f == [m \in V |-> m.from]
  <2>1. f \in Injection(V, T)
    BY <1>4, <1>5 DEF Injection, IsInjective
  <2>. QED
    BY <1>5, <2>1, FS_Injection, FS_CardinalityType
<1>6. IsFiniteSet(Up \ {n}) /\ Cardinality(Up \ {n}) = 2
  <2>1. IsFiniteSet(Up \ {n}) /\ Cardinality(Up \ {n}) = 3 - 1
    BY ThreeUp, FS_RemoveElement
  <2>. QED
    BY <2>1
<1>7. IsFiniteSet(V) /\ Cardinality(V) \in Nat /\ Cardinality(V) <= 2
  BY <1>3, <1>5, <1>6
<1>8. ~SeesNewView(n)
  <2>. DEFINE C == {m \in V : IsCoordinator(n, m.view)}
  <2>1. C \subseteq V
    OBVIOUS
  <2>2. Cardinality(C) <= Cardinality(V) /\ Cardinality(C) \in Nat
    BY <1>7, <2>1, FS_Subset, FS_CardinalityType
  <2>3. ~(Cardinality(C) >= 3)
    BY <1>7, <2>2
  <2>4. SeesNewView(n) <=> Cardinality(C) >= Supermajority(n)
    BY DEF SeesNewView, V
  <2>. QED
    BY <1>2, <2>3, <2>4
<1>9. ASSUME SeesViewChange(n)
      PROVE  view[n] = 0 /\ \A k \in Up \ {n} : Voted(k)
  <2>1. Cardinality(V) >= 2
    BY <1>2, <1>9 DEF SeesViewChange, V
  <2>2. view[n] = 0
    <3>1. V # {}
      BY <2>1, FS_EmptySet
    <3>. QED
      BY <1>1, <1>3, <3>1
  <2>3. ASSUME NEW k \in Up \ {n}, ~Voted(k) PROVE FALSE
    <3>1. IsFiniteSet((Up \ {n}) \ {k}) /\ Cardinality((Up \ {n}) \ {k}) = 2 - 1
      BY <1>6, FS_RemoveElement
    <3>2. \A m \in V : m.from \in (Up \ {n}) \ {k}
      BY <1>3, <2>3
    <3>3. Cardinality(V) <= 2 - 1
      BY <1>5, <3>1, <3>2
    <3>. QED
      BY <1>7, <2>1, <3>3
  <2>. QED
    BY <2>2, <2>3
<1>. QED
  BY <1>8, <1>9

\* A step of n that sends what is in sent.
LEMMA FourStays ==
  ASSUME FourInv, Up \subseteq Writers, NEW n \in Up, scenario' = scenario,
         DOMAIN view' = Writers, DOMAIN view_changed' = Writers,
         DOMAIN min_view_change' = Writers,
         \A k \in Writers \ {n} :
           /\ pc'[k] = pc[k] /\ cancel_number'[k] = cancel_number[k]
           /\ view'[k] = view[k] /\ (view_changed'[k] <=> view_changed[k])
           /\ min_view_change'[k] = min_view_change[k],
         pc'[n] \in {"round", "proposals", "requested", "ballot"},
         view'[n] \in {0, 1},
         view'[n] = 1 \/ view_changed'[n] => \A k \in Up \ {n} : Voted(k),
         pc'[n] = "requested" /\ view'[n] = 1 => ~view_changed'[n],
         pc'[n] = "round" /\ cancel_number'[n] = 0 =>
           ~view_changed'[n] /\ view'[n] = 0,
         pc'[n] = "proposals" =>
           /\ view'[n] = 0
           /\ view_changed'[n] =>
                \E m \in msgs' : /\ m.type = "view_change" /\ m.to = n
                                 /\ m.view = min_view_change'[n],
         Voted(n) => Voted(n)', Changed(n) => Changed(n)',
         NEW sent, \A m \in msgs' : m \in msgs \/ m \in sent,
         \A m \in msgs : m.to # n => m \in msgs',
         \A m \in sent :
           /\ \/ m.type \in {"propose_cancel", "request_cancel", "vote_cancel"}
              \/ /\ m.type \in Asking /\ m.from = n /\ m.to \in Up \ {n}
                 /\ Changed(n)'
                 /\ \/ Voted(m.to)
                    \/ /\ m.type = "view_change" /\ m.view = 1
                       /\ Voted(n)' /\ ~Changed(n)
           /\ m.type # "vote_cancel" => m.block = StartHeight,
         \A p, q \in sent : /\ p.type \in Asking /\ q.type \in Asking
                            /\ p.to = q.to
                            => p = q \/ Voted(p.to)
  PROVE  FourInv'
<1>1. Up' = Up
  BY DEF Up
<1>2. \A k \in Up \ {n} : (Voted(k)' <=> Voted(k)) /\ (Changed(k)' <=> Changed(k))
  BY DEF Voted, Changed
<1>3. \A k \in Up : (Voted(k) => Voted(k)') /\ (Changed(k) => Changed(k)')
  BY <1>2
<1>4. ASSUME NEW k \in Up
      PROVE  /\ pc'[k] \in {"round", "proposals", "requested", "ballot"}
             /\ view'[k] \in {0, 1}
             /\ view'[k] = 1 \/ view_changed'[k] => \A l \in Up \ {k} : Voted(l)'
             /\ pc'[k] = "requested" /\ view'[k] = 1 => ~view_changed'[k]
             /\ pc'[k] = "round" /\ cancel_number'[k] = 0 =>
                  ~view_changed'[k] /\ view'[k] = 0
             /\ pc'[k] = "proposals" =>
                  /\ view'[k] = 0
                  /\ view_changed'[k] =>
                       \E m \in msgs' : /\ m.type = "view_change" /\ m.to = k
                                        /\ m.view = min_view_change'[k]
  <2>1. CASE k = n
    BY <1>3, <2>1
  <2>2. CASE k # n
    <3>1. /\ pc'[k] = pc[k] /\ cancel_number'[k] = cancel_number[k]
          /\ view'[k] = view[k] /\ (view_changed'[k] <=> view_changed[k])
          /\ min_view_change'[k] = min_view_change[k]
      BY <2>2
    <3>2. ASSUME pc'[k] = "proposals", view_changed'[k]
          PROVE  \E m \in msgs' : /\ m.type = "view_change" /\ m.to = k
                                  /\ m.view = min_view_change'[k]
      <4>1. PICK m \in msgs : /\ m.type = "view_change" /\ m.to = k
                              /\ m.view = min_view_change[k]
        BY <3>1, <3>2 DEF FourInv
      <4>. QED
        BY <2>2, <3>1, <4>1
    <3>. QED
      BY <1>3, <3>1, <3>2 DEF FourInv
  <2>. QED
    BY <2>1, <2>2
<1>5. ASSUME NEW m \in msgs
      PROVE  /\ m.type \in {"propose_cancel", "request_cancel", "vote_cancel"}
                             \cup Asking
             /\ m.type # "vote_cancel" => m.block = StartHeight
             /\ m.type \in Asking =>
                  /\ m.from \in Up /\ m.to \in Up \ {m.from} /\ Changed(m.from)'
                  /\ \/ Voted(m.to)'
                     \/ m.type = "view_change" /\ m.view = 1 /\ Voted(m.from)'
  BY <1>3 DEF FourInv
<1>6. ASSUME NEW m \in sent
      PROVE  /\ m.type \in {"propose_cancel", "request_cancel", "vote_cancel"}
                             \cup Asking
             /\ m.type # "vote_cancel" => m.block = StartHeight
             /\ m.type \in Asking =>
                  /\ m.from \in Up /\ m.to \in Up \ {m.from} /\ Changed(m.from)'
                  /\ \/ Voted(m.to)'
                     \/ m.type = "view_change" /\ m.view = 1 /\ Voted(m.from)'
  BY <1>3 DEF Asking
<1>7. ASSUME NEW p \in msgs', NEW q \in msgs',
             p.type \in Asking, q.type \in Asking, p.from = q.from, p.to = q.to
      PROVE  p = q \/ Voted(p.to)'
  <2>1. CASE p \in msgs /\ q \in msgs
    <3>1. p.to \in Up /\ (p = q \/ Voted(p.to))
      BY <1>7, <2>1 DEF FourInv
    <3>. QED
      BY <1>3, <3>1
  <2>2. CASE p \in sent /\ q \in sent
    <3>1. p.to \in Up /\ (p = q \/ Voted(p.to))
      BY <1>7, <2>2 DEF Asking
    <3>. QED
      BY <1>3, <3>1
  <2>3. ASSUME NEW a \in msgs, NEW b \in sent, a.type \in Asking,
               b.type \in Asking, a.from = b.from, a.to = b.to
        PROVE  Voted(b.to)'
    <3>1. b.from = n /\ Changed(n)
      BY <2>3 DEF FourInv, Asking
    <3>2. b.to \in Up /\ Voted(b.to)
      BY <2>3, <3>1 DEF Asking
    <3>. QED
      BY <1>3, <3>2
  <2>. QED
    BY <1>7, <2>1, <2>2, <2>3
<1>8. \A m \in msgs' : m \in msgs \/ m \in sent
  OBVIOUS
<1>. QED
  BY <1>1, <1>4, <1>5, <1>6, <1>7, <1>8 DEF FourInv

\* A step may send nothing.
LEMMA NothingSent == \E none : \A m : m \notin none
<1>1. \E S : S = {}
  OBVIOUS
<1>2. PICK S : S = {}
  BY <1>1
<1>3. \A m : m \notin S
  BY <1>2
<1>. QED
  BY <1>3, Zenon

\* A flag is set or reset.
LEMMA FlagSet ==
  ASSUME NEW f, DOMAIN f = Writers, NEW n \in Writers
  PROVE  /\ DOMAIN [f EXCEPT ![n] = TRUE] = Writers
         /\ DOMAIN [f EXCEPT ![n] = FALSE] = Writers
         /\ ~[f EXCEPT ![n] = FALSE][n]
         /\ \A k \in Writers \ {n} :
              /\ [f EXCEPT ![n] = TRUE][k] <=> f[k]
              /\ [f EXCEPT ![n] = FALSE][k] <=> f[k]
BY Zenon

\* What n sends when it asks for a view, or announces one.
LEMMA AskingSent ==
  ASSUME NEW n \in Up, height[n] = StartHeight, NEW type \in Asking, NEW v,
         NEW m \in ViewChange(n, type, v)
  PROVE  /\ m.type = type /\ m.from = n /\ m.to \in Up \ {n}
         /\ m.view = v /\ m.block = StartHeight
         /\ \A l \in ViewChange(n, type, v) : m.to = l.to => m = l
<1>1. PICK k \in Reached(n) :
        m = [type |-> type, from |-> n, to |-> k,
             cancel_number |-> cancel_number[n], view |-> v,
             block |-> height[n], count |-> received[n]]
  BY DEF ViewChange
<1>2. k \in Up \ {n}
  BY DEF Reached
<1>3. ASSUME NEW l \in ViewChange(n, type, v), m.to = l.to
      PROVE  m = l
  <2>1. PICK j \in Reached(n) :
          l = [type |-> type, from |-> n, to |-> j,
               cancel_number |-> cancel_number[n], view |-> v,
               block |-> height[n], count |-> received[n]]
    BY DEF ViewChange
  <2>2. k = j
    BY <1>1, <1>3, <2>1
  <2>. QED
    BY <1>1, <2>1, <2>2
<1>. QED
  BY <1>1, <1>2, <1>3

LEMMA FourProposes ==
  ASSUME IInv, VerdictInv, OneCrash, OneOfFour(scenario), FourInv,
         StartHeight \notin Json, NEW n \in Up, pc[n] = "round", Before(n),
         NEW acc, NEW accd, NEW queue \in SUBSET msgs,
         \A m \in msgs : m.to # n => m \in queue,
         Propose(n, acc, accd, queue), Frame
  PROVE  FourInv'
<1>1. /\ n \in Writers /\ Up \subseteq Writers
      /\ height[n] = StartHeight /\ cancel_number[n] = 0
  BY ThreeUp DEF Before
<1>2. /\ scenario' = scenario /\ cancel_number' = cancel_number
  BY DEF Frame
<1>3. PICK next \in {"proposals", "requested"} : pc' = [pc EXCEPT ![n] = next]
  BY <1>1 DEF Propose
<1>4. msgs' = queue \cup Proposal(n, accd)
  BY <1>1 DEF Propose
<1>5. pc'[n] = next /\ \A k \in Writers \ {n} : pc'[k] = pc[k]
  BY <1>1, <1>3 DEF IInv, BallotInv
<1>6. /\ DOMAIN view' = Writers /\ view'[n] = 0
      /\ \A k \in Writers \ {n} : view'[k] = view[k]
      /\ DOMAIN min_view_change' = Writers
      /\ \A k \in Writers \ {n} : min_view_change'[k] = min_view_change[k]
  BY <1>1 DEF Propose, FourInv
<1>7. /\ DOMAIN view_changed' = Writers /\ ~view_changed'[n]
      /\ \A k \in Writers \ {n} : view_changed'[k] <=> view_changed[k]
  <2>1. view_changed' = [view_changed EXCEPT ![n] = FALSE]
    BY Zenon DEF Propose
  <2>2. DOMAIN view_changed = Writers
    BY DEF FourInv
  <2>. QED
    BY <1>1, <2>1, <2>2, FlagSet, Zenon
<1>8. ~Voted(n) /\ ~Changed(n)
  BY <1>1 DEF Voted, Changed, FourInv
<1>9. \A m \in Proposal(n, accd) : m.type = "propose_cancel" /\ m.block = StartHeight
  BY <1>1 DEF Proposal
<1>10. \A m \in Proposal(n, accd) : m.type \notin Asking
  BY <1>9 DEF Asking
<1>11. /\ \A m \in msgs' : m \in msgs \/ m \in Proposal(n, accd)
       /\ \A m \in msgs : m.to # n => m \in msgs'
  BY <1>4
<1>. QED
  BY <1>1, <1>2, <1>5, <1>6, <1>7, <1>8, <1>9, <1>10, <1>11, FourStays

\* The vote, with what is sent before it.
LEMMA FourVotes ==
  ASSUME IInv, VerdictInv, OneCrash, OneOfFour(scenario), FourInv,
         NEW n \in Up, pc[n] # "ballot", Before(n),
         NEW v \in {0, 1}, v = 1 => \A k \in Up \ {n} : Voted(k),
         view[n] = 1 => v = 1,
         NEW acc, NEW accd, NEW queue, NEW extra,
         \A m \in queue : m \in msgs \/ m \in extra,
         \A m \in msgs : m.to # n => m \in queue,
         \A m \in extra :
           /\ \/ m.type = "request_cancel"
              \/ /\ m.type \in Asking /\ m.from = n /\ m.to \in Up \ {n}
                 /\ \/ Voted(m.to)
                    \/ m.type = "view_change" /\ m.view = 1 /\ ~Changed(n)
           /\ m.block = StartHeight,
         \A p, q \in extra : /\ p.type \in Asking /\ q.type \in Asking
                             /\ p.to = q.to
                             => p = q \/ Voted(p.to),
         Vote(n, v, acc, accd, queue), Frame
  PROVE  FourInv'
<1>1. n \in Writers /\ Up \subseteq Writers
  BY ThreeUp
<1>2. PICK id : id = Choice(n, acc, accd)
  OBVIOUS
<1>3. /\ pc' = [pc EXCEPT ![n] = "ballot"] /\ view' = [view EXCEPT ![n] = v]
      /\ view_changed' = view_changed /\ min_view_change' = min_view_change
      /\ msgs' = queue \cup VoteFor(n, id)
      /\ scenario' = scenario /\ cancel_number' = cancel_number
  BY <1>2 DEF Vote, waits, Frame
<1>4. pc'[n] = "ballot" /\ \A k \in Writers \ {n} : pc'[k] = pc[k]
  BY <1>1, <1>3 DEF IInv, BallotInv
<1>5. /\ DOMAIN view' = Writers /\ view'[n] = v
      /\ \A k \in Writers \ {n} : view'[k] = view[k]
  BY <1>1, <1>3 DEF FourInv
<1>6. Voted(n)' /\ Changed(n)'
  BY <1>4 DEF Voted, Changed
<1>. DEFINE sent == extra \cup VoteFor(n, id)
<1>7. \A m \in VoteFor(n, id) : m.type = "vote_cancel" /\ m.type \notin Asking
  BY DEF VoteFor, Asking
<1>8. /\ \A m \in msgs' : m \in msgs \/ m \in sent
      /\ \A m \in msgs : m.to # n => m \in msgs'
  BY <1>3
<1>9. ASSUME NEW m \in sent
      PROVE  /\ \/ m.type \in {"propose_cancel", "request_cancel", "vote_cancel"}
                \/ /\ m.type \in Asking /\ m.from = n /\ m.to \in Up \ {n}
                   /\ Changed(n)'
                   /\ \/ Voted(m.to)
                      \/ /\ m.type = "view_change" /\ m.view = 1
                         /\ Voted(n)' /\ ~Changed(n)
             /\ m.type # "vote_cancel" => m.block = StartHeight
  BY <1>6, <1>7
<1>10. ASSUME NEW p \in sent, NEW q \in sent, p.type \in Asking,
              q.type \in Asking, p.to = q.to
       PROVE  p = q \/ Voted(p.to)
  BY <1>7, <1>10
<1>11. /\ DOMAIN view_changed' = Writers /\ DOMAIN min_view_change' = Writers
       /\ \A k \in Writers \ {n} : view_changed'[k] <=> view_changed[k]
       /\ view'[n] = 1 \/ view_changed'[n] => \A k \in Up \ {n} : Voted(k)
  BY <1>3, <1>5 DEF FourInv
<1>. HIDE DEF sent
<1>. QED
  BY <1>1, <1>3, <1>4, <1>5, <1>6, <1>8, <1>9, <1>10, <1>11, FourStays

\* View 1 is entered when the others have voted.
LEMMA FourEnters ==
  ASSUME IInv, VerdictInv, OneCrash, OneOfFour(scenario), FourInv,
         NEW n \in Up, pc[n] # "ballot", Before(n), view[n] = 0,
         \A k \in Up \ {n} : Voted(k),
         NEW queue, NEW extra,
         \A m \in queue : m \in msgs \/ m \in extra,
         \A m \in msgs : m.to # n => m \in queue,
         \A m \in extra : /\ m.type \in Asking /\ m.from = n
                          /\ m.to \in Up \ {n} /\ m.block = StartHeight,
         EnterView(n, 1, queue), Frame
  PROVE  FourInv'
<1>1. /\ n \in Writers /\ Up \subseteq Writers
      /\ height[n] = StartHeight /\ cancel_number[n] = 0
  BY ThreeUp DEF Before
<1>2. ~(1 >= Cardinality(DOMAIN penalty_box[n]))
  <2>1. Cardinality(DOMAIN penalty_box[n]) = 4
    BY <1>1, ThreeUp DEF IInv, MembersInv
  <2>. QED
    BY <2>1
<1>3. CASE IsCoordinator(n, 1)
  <2>1. PICK acc : RequestVote(n, 1, acc, accused[n], queue)
    BY <1>2, <1>3 DEF EnterView
  <2>. DEFINE request == Request(n, 1, acc, accused[n])
              all == extra \cup request
  <2>2. Vote(n, 1, acc, accused[n], queue \cup request)
    BY <2>1 DEF RequestVote
  <2>3. \A m \in request : /\ m.type = "request_cancel" /\ m.type \notin Asking
                           /\ m.block = StartHeight
    BY <1>1 DEF Request, Asking
  <2>. HIDE DEF request
  <2>4. /\ \A m \in queue \cup request : m \in msgs \/ m \in all
        /\ \A m \in msgs : m.to # n => m \in queue \cup request
    OBVIOUS
  <2>5. \A m \in all :
          /\ \/ m.type = "request_cancel"
             \/ /\ m.type \in Asking /\ m.from = n /\ m.to \in Up \ {n}
                /\ Voted(m.to)
          /\ m.block = StartHeight
    BY <2>3
  <2>6. \A p, q \in all : p.type \in Asking => Voted(p.to)
    BY <2>3
  <2>. HIDE DEF all
  <2>. QED
    BY <1>1, <2>2, <2>4, <2>5, <2>6, FourVotes
<1>4. CASE ~IsCoordinator(n, 1)
  <2>1. /\ pc' = [pc EXCEPT ![n] = "requested"]
        /\ view' = [view EXCEPT ![n] = 1] /\ msgs' = queue
        /\ min_view_change' = min_view_change
    BY <1>2, <1>4 DEF EnterView
  <2>2. pc'[n] = "requested" /\ \A k \in Writers \ {n} : pc'[k] = pc[k]
    BY <1>1, <2>1 DEF IInv, BallotInv
  <2>3. /\ DOMAIN view' = Writers /\ view'[n] = 1
        /\ \A k \in Writers \ {n} : view'[k] = view[k]
        /\ DOMAIN min_view_change' = Writers
    BY <1>1, <2>1 DEF FourInv
  <2>4. /\ DOMAIN view_changed' = Writers /\ ~view_changed'[n]
        /\ \A k \in Writers \ {n} : view_changed'[k] <=> view_changed[k]
    <3>1. view_changed' = [view_changed EXCEPT ![n] = FALSE]
      BY <1>2, <1>4, Zenon DEF EnterView
    <3>2. DOMAIN view_changed = Writers
      BY DEF FourInv
    <3>. QED
      BY <1>1, <3>1, <3>2, FlagSet, Zenon
  <2>5. /\ Changed(n)' /\ scenario' = scenario /\ cancel_number' = cancel_number
        /\ ~Voted(n)
    BY <1>1, <2>3 DEF Changed, Frame, Voted
  <2>6. /\ \A m \in msgs' : m \in msgs \/ m \in extra
        /\ \A m \in msgs : m.to # n => m \in msgs'
    BY <2>1
  <2>7. ASSUME NEW m \in extra
        PROVE  /\ \/ m.type \in {"propose_cancel", "request_cancel", "vote_cancel"}
                  \/ /\ m.type \in Asking /\ m.from = n /\ m.to \in Up \ {n}
                     /\ Changed(n)'
                     /\ \/ Voted(m.to)
                        \/ /\ m.type = "view_change" /\ m.view = 1
                           /\ Voted(n)' /\ ~Changed(n)
               /\ m.type # "vote_cancel" => m.block = StartHeight
    BY <2>5
  <2>8. ASSUME NEW p \in extra, NEW q \in extra, p.type \in Asking,
               q.type \in Asking, p.to = q.to
        PROVE  p = q \/ Voted(p.to)
    OBVIOUS
  <2>9. ASSUME NEW k \in Writers \ {n}
        PROVE  /\ pc'[k] = pc[k] /\ cancel_number'[k] = cancel_number[k]
               /\ view'[k] = view[k] /\ (view_changed'[k] <=> view_changed[k])
               /\ min_view_change'[k] = min_view_change[k]
    BY <2>1, <2>2, <2>3, <2>4, <2>5
  <2>10. /\ pc'[n] \in {"round", "proposals", "requested", "ballot"}
         /\ pc'[n] # "round" /\ pc'[n] # "proposals"
    BY <2>2
  <2>. QED
    BY <1>1, <2>2, <2>3, <2>4, <2>5, <2>6, <2>7, <2>8, <2>9, <2>10, FourStays
<1>. QED
  BY <1>3, <1>4

LEMMA FourRequests ==
  ASSUME IInv, VerdictInv, OneCrash, OneOfFour(scenario), FourInv,
         NEW n \in Up, Before(n),
         TakeRequest(n) \/ JoinViewChange(n) \/ RequestTimesOut(n)
  PROVE  FourInv'
<1>1. /\ n \in Writers /\ Up \subseteq Writers
      /\ pc[n] = "requested" /\ height[n] = StartHeight /\ ~Voted(n)
      /\ view[n] \in {0, 1}
      /\ view[n] = 1 => ~view_changed[n]
      /\ view[n] = 1 \/ view_changed[n] => \A k \in Up \ {n} : Voted(k)
  BY ThreeUp DEF Before, Voted, FourInv, TakeRequest, JoinViewChange,
                 RequestTimesOut
<1>2. PICK none : \A m : m \notin none
  BY NothingSent
<1>3. CASE TakeRequest(n)
  <2>1. PICK m \in Receivable(n, "request_cancel") :
          Vote(n, view[n], m.vote[1], m.vote[2], msgs \ {m}) /\ Frame
    BY <1>3 DEF TakeRequest
  <2>2. m.to = n
    BY DEF Receivable, Inbox
  <2>3. /\ \A l \in msgs \ {m} : l \in msgs \/ l \in none
        /\ \A l \in msgs : l.to # n => l \in msgs \ {m}
    BY <2>2
  <2>. QED
    BY <1>1, <1>2, <2>1, <2>3, FourVotes
<1>. DEFINE sent == ViewChange(n, "view_change", view[n] + 1)
<1>4. ASSUME NEW m \in sent
      PROVE  /\ m.type = "view_change" /\ m.type \in Asking /\ m.from = n
             /\ m.to \in Up \ {n} /\ m.block = StartHeight
             /\ view[n] = 0 => m.view = 1
             /\ \A l \in sent : m.to = l.to => m = l
  BY <1>1, AskingSent DEF Asking
<1>5. CASE JoinViewChange(n)
  <2>1. view[n] = 0 /\ \A k \in Up \ {n} : Voted(k)
    BY <1>1, <1>5, ViewChangesVoted DEF JoinViewChange
  <2>2. /\ UNCHANGED <<pc, view, scenario, cancel_number, min_view_change>>
        /\ msgs' = msgs \cup sent
    BY <1>5 DEF JoinViewChange, Frame
  <2>3. /\ DOMAIN view_changed' = Writers
        /\ \A k \in Writers \ {n} : view_changed'[k] <=> view_changed[k]
    <3>1. view_changed' = [view_changed EXCEPT ![n] = TRUE]
      BY <1>5, Zenon DEF JoinViewChange
    <3>2. DOMAIN view_changed = Writers
      BY DEF FourInv
    <3>. QED
      BY <1>1, <3>1, <3>2, FlagSet, Zenon
  <2>4. view_changed'[n]
    <3>1. view_changed' = [view_changed EXCEPT ![n] = TRUE]
          /\ DOMAIN view_changed = Writers
      BY <1>5, Zenon DEF JoinViewChange, FourInv
    <3>. QED
      BY <1>1, <3>1, Zenon
  <2>5. Changed(n)'
    BY <2>4 DEF Changed
  <2>6. DOMAIN view' = Writers /\ DOMAIN min_view_change' = Writers
    <3>1. DOMAIN view = Writers /\ DOMAIN min_view_change = Writers
      BY DEF FourInv
    <3>2. view' = view /\ min_view_change' = min_view_change
      BY <1>5 DEF JoinViewChange, Frame
    <3>. QED
      BY <3>1, <3>2
  <2>7. /\ \A m \in msgs' : m \in msgs \/ m \in sent
        /\ \A m \in msgs : m.to # n => m \in msgs'
    BY <2>2
  <2>. HIDE DEF sent
  <2>. QED
    BY <1>1, <1>4, <2>1, <2>2, <2>3, <2>4, <2>5, <2>6, <2>7, FourStays
<1>6. CASE RequestTimesOut(n) /\ view_changed[n]
  <2>1. view[n] = 0 /\ \A k \in Up \ {n} : Voted(k)
    BY <1>1, <1>6
  <2>2. EnterView(n, 1, msgs) /\ Frame
    BY <1>6, <2>1 DEF RequestTimesOut
  <2>. QED
    BY <1>1, <1>2, <2>1, <2>2, FourEnters
<1>7. CASE RequestTimesOut(n) /\ ~view_changed[n]
  <2>1. Vote(n, view[n], accuser[n], accused[n], msgs \cup sent) /\ Frame
    BY <1>7 DEF RequestTimesOut
  <2>2. view[n] = 0 => ~Changed(n)
    BY <1>1, <1>7 DEF Changed
  <2>3. /\ \A m \in msgs \cup sent : m \in msgs \/ m \in sent
        /\ \A m \in msgs : m.to # n => m \in msgs \cup sent
    OBVIOUS
  <2>. HIDE DEF sent
  <2>4. ASSUME NEW m \in sent
        PROVE  /\ \/ m.type = "request_cancel"
                  \/ /\ m.type \in Asking /\ m.from = n /\ m.to \in Up \ {n}
                     /\ \/ Voted(m.to)
                        \/ m.type = "view_change" /\ m.view = 1 /\ ~Changed(n)
               /\ m.block = StartHeight
    BY <1>1, <1>4, <2>2
  <2>5. ASSUME NEW p \in sent, NEW q \in sent, p.type \in Asking,
               q.type \in Asking, p.to = q.to
        PROVE  p = q \/ Voted(p.to)
    BY <1>4, <2>5
  <2>6. /\ pc[n] # "ballot" /\ (view[n] = 1 => view[n] = 1)
        /\ view[n] = 1 => \A k \in Up \ {n} : Voted(k)
    BY <1>1
  <2>. QED
    BY <1>1, <2>1, <2>3, <2>4, <2>5, <2>6, FourVotes, SMTT(30)
<1>. QED
  BY <1>3, <1>5, <1>6, <1>7

\* The coordinator of view 0 goes on to the vote, or to view 1.
LEMMA FourEnds ==
  ASSUME IInv, VerdictInv, OneCrash, OneOfFour(scenario), FourInv,
         NEW n \in Up, Before(n), LastProposal(n) \/ ProposalsTimeOut(n)
  PROVE  FourInv'
<1>1. /\ n \in Writers /\ Up \subseteq Writers
      /\ pc[n] = "proposals" /\ height[n] = StartHeight /\ cancel_number[n] = 0
      /\ view[n] = 0 /\ Frame
      /\ view_changed[n] => \A k \in Up \ {n} : Voted(k)
  BY ThreeUp DEF Before, FourInv, LastProposal, ProposalsTimeOut
<1>. DEFINE sent == ViewChange(n, "view_change", 1)
<1>2. ASSUME NEW m \in sent
      PROVE  /\ m.type = "view_change" /\ m.type \in Asking /\ m.from = n
             /\ m.to \in Up \ {n} /\ m.block = StartHeight /\ m.view = 1
             /\ \A l \in sent : m.to = l.to => m = l
  BY <1>1, AskingSent DEF Asking
<1>3. PICK queue : /\ EndOfProposals(n, queue)
                   /\ \A m \in msgs : m.to # n => m \in queue
                   /\ \A m \in queue : m \in msgs \/ m \in sent
                   /\ view_changed[n] => queue \subseteq msgs
  <2>1. CASE LastProposal(n)
    <3>1. PICK m \in Proposals(n) : EndOfProposals(n, msgs \ {m})
      BY <2>1 DEF LastProposal
    <3>2. m.to = n
      BY DEF Proposals, Inbox
    <3>. HIDE DEF sent
    <3>. QED
      BY <3>1, <3>2
  <2>2. CASE ProposalsTimeOut(n) /\ view_changed[n]
    <3>1. EndOfProposals(n, msgs)
      BY <2>2 DEF ProposalsTimeOut
    <3>. HIDE DEF sent
    <3>. QED
      BY <3>1
  <2>3. CASE ProposalsTimeOut(n) /\ ~view_changed[n]
    <3>1. EndOfProposals(n, msgs \cup sent)
      BY <2>3 DEF ProposalsTimeOut
    <3>. HIDE DEF sent
    <3>. QED
      BY <2>3, <3>1
  <2>. QED
    BY <2>1, <2>2, <2>3
<1>4. CASE ~view_changed[n]
  <2>1. RequestVote(n, 0, accuser[n], accused[n], queue)
    BY <1>3, <1>4 DEF EndOfProposals
  <2>. DEFINE request == Request(n, 0, accuser[n], accused[n])
              all == sent \cup request
  <2>2. Vote(n, 0, accuser[n], accused[n], queue \cup request)
    BY <2>1 DEF RequestVote
  <2>3. \A m \in request : /\ m.type = "request_cancel" /\ m.type \notin Asking
                           /\ m.block = StartHeight
    BY <1>1 DEF Request, Asking
  <2>4. ~Changed(n)
    BY <1>1, <1>4 DEF Changed, Voted
  <2>. HIDE DEF request, sent
  <2>5. /\ \A m \in queue \cup request : m \in msgs \/ m \in all
        /\ \A m \in msgs : m.to # n => m \in queue \cup request
    BY <1>3
  <2>6. ASSUME NEW m \in all
        PROVE  /\ \/ m.type = "request_cancel"
                  \/ /\ m.type \in Asking /\ m.from = n /\ m.to \in Up \ {n}
                     /\ m.type = "view_change" /\ m.view = 1 /\ ~Changed(n)
               /\ m.block = StartHeight
    BY <1>2, <2>3, <2>4
  <2>7. ASSUME NEW p \in all, NEW q \in all, p.type \in Asking, q.type \in Asking,
               p.to = q.to
        PROVE  p = q
    BY <1>2, <2>3, <2>7
  <2>. HIDE DEF all
  <2>. QED
    BY <1>1, <2>2, <2>5, <2>6, <2>7, FourVotes
<1>5. CASE view_changed[n]
  <2>. DEFINE found == {m \in ViewQueue(n) : m.view = min_view_change[n]}
  <2>1. \A m \in ViewQueue(n) : m \in msgs /\ m.to = n /\ m.type # "vote_cancel"
    BY DEF ViewQueue, Inbox
  <2>2. found # {}
    <3>1. PICK m \in msgs : /\ m.type = "view_change" /\ m.to = n
                            /\ m.view = min_view_change[n]
      BY <1>1, <1>5 DEF FourInv
    <3>2. m \in ViewQueue(n)
      BY <3>1 DEF ViewQueue, Inbox
    <3>. QED
      BY <3>1, <3>2
  <2>3. \A m \in found : ~AppendRaises(n, m.block)
    <3>1. \A m \in found : m.block = StartHeight
      BY <2>1 DEF FourInv
    <3>. QED
      BY <1>1, <3>1, NoRaise
  <2>. DEFINE announced == ViewChange(n, "new_view", min_view_change[n])
  <2>4. EnterView(n, 1, (queue \ ViewQueue(n)) \cup announced)
    <3>1. SendNewView(n, min_view_change[n], queue)
      BY <1>3, <1>5 DEF EndOfProposals
    <3>2. view[n] + 1 = 1
      BY <1>1
    <3>. QED
      BY <2>2, <2>3, <3>1, <3>2 DEF SendNewView
  <2>5. \A m \in announced : /\ m.type \in Asking /\ m.from = n
                             /\ m.to \in Up \ {n} /\ m.block = StartHeight
    BY <1>1, AskingSent DEF Asking
  <2>. HIDE DEF announced, sent
  <2>6. /\ \A m \in (queue \ ViewQueue(n)) \cup announced :
             m \in msgs \/ m \in announced
        /\ \A m \in msgs : m.to # n => m \in (queue \ ViewQueue(n)) \cup announced
    BY <1>3, <1>5, <2>1
  <2>. QED
    BY <1>1, <1>5, <2>4, <2>5, <2>6, FourEnters
<1>. QED
  BY <1>4, <1>5

\* It counts one more, and may ask for a view when the others have voted.
LEMMA FourCounts ==
  ASSUME IInv, VerdictInv, OneCrash, OneOfFour(scenario), FourInv,
         NEW n \in Up, Before(n), OneMoreProposal(n)
  PROVE  FourInv'
<1>1. /\ n \in Writers /\ Up \subseteq Writers
      /\ pc[n] = "proposals" /\ height[n] = StartHeight /\ cancel_number[n] = 0
      /\ view[n] = 0 /\ ~Voted(n)
      /\ view_changed[n] => \A k \in Up \ {n} : Voted(k)
      /\ DOMAIN view_changed = Writers /\ DOMAIN min_view_change = Writers
      /\ DOMAIN view = Writers
  BY ThreeUp DEF Before, FourInv, OneMoreProposal, Voted
<1>2. UNCHANGED <<pc, view, scenario, cancel_number>>
  BY DEF OneMoreProposal, Frame
<1>3. PICK p \in Proposals(n) :
        \/ /\ ~view_changed[n] /\ msgs' = msgs \ {p}
           /\ UNCHANGED <<view_changed, min_view_change>>
        \/ /\ view_changed[n] \/ SeesViewChange(n)
           /\ \E v \in IF view_changed[n] THEN {min_view_change[n]}
                       ELSE {c.view : c \in ViewChanges(n)} :
                /\ min_view_change' = [min_view_change EXCEPT ![n] = v]
                /\ msgs' = (msgs \ {p}) \cup ViewChange(n, "view_change", v)
           /\ view_changed' = [view_changed EXCEPT ![n] = TRUE]
  BY Zenon DEF OneMoreProposal
<1>4. p.to = n /\ p.type = "propose_cancel"
  BY DEF Proposals, Inbox
<1>5. CASE /\ ~view_changed[n] /\ msgs' = msgs \ {p}
           /\ UNCHANGED <<view_changed, min_view_change>>
  <2>1. PICK none : \A m : m \notin none
    BY NothingSent
  <2>2. (Voted(n)' <=> Voted(n)) /\ (Changed(n)' <=> Changed(n))
    BY <1>2, <1>5 DEF Voted, Changed
  <2>. QED
    BY <1>1, <1>2, <1>4, <1>5, <2>1, <2>2, FourStays
<1>6. ASSUME view_changed[n] \/ SeesViewChange(n),
             NEW v \in IF view_changed[n] THEN {min_view_change[n]}
                       ELSE {c.view : c \in ViewChanges(n)},
             min_view_change' = [min_view_change EXCEPT ![n] = v],
             msgs' = (msgs \ {p}) \cup ViewChange(n, "view_change", v),
             view_changed' = [view_changed EXCEPT ![n] = TRUE]
      PROVE  FourInv'
  <2>. DEFINE sent == ViewChange(n, "view_change", v)
  <2>1. \A k \in Up \ {n} : Voted(k)
    BY <1>1, <1>6, ViewChangesVoted
  <2>2. PICK c \in msgs : c.type = "view_change" /\ c.to = n /\ c.view = v
    <3>1. CASE view_changed[n]
      BY <1>1, <1>6, <3>1 DEF FourInv
    <3>2. CASE ~view_changed[n]
      <4>1. PICK c \in ViewChanges(n) : c.view = v
        BY <1>6, <3>2
      <4>2. c \in msgs /\ c.to = n /\ c.type \in Asking
        BY DEF ViewChanges, ViewQueue, Inbox, Asking
      <4>3. c.type = "view_change"
        BY <1>1, <4>2 DEF FourInv
      <4>. QED
        BY <4>1, <4>2, <4>3
    <3>. QED
      BY <3>1, <3>2
  <2>3. c \in msgs' /\ \A m \in msgs : m.to # n => m \in msgs'
    BY <1>4, <1>6, <2>2
  <2>4. ASSUME NEW m \in sent
        PROVE  /\ m.type = "view_change" /\ m.type \in Asking /\ m.from = n
               /\ m.to \in Up \ {n} /\ m.block = StartHeight
    BY <1>1, AskingSent DEF Asking
  <2>5. /\ DOMAIN min_view_change' = Writers /\ min_view_change'[n] = v
        /\ \A k \in Writers \ {n} : min_view_change'[k] = min_view_change[k]
    BY <1>1, <1>6
  <2>6. /\ DOMAIN view_changed' = Writers
        /\ \A k \in Writers \ {n} : view_changed'[k] <=> view_changed[k]
    BY <1>1, <1>6, FlagSet, Zenon
  <2>7. view_changed'[n]
    BY <1>1, <1>6, Zenon
  <2>8. Changed(n)' /\ \A m \in msgs' : m \in msgs \/ m \in sent
    BY <1>6, <2>7 DEF Changed
  <2>. HIDE DEF sent
  <2>. QED
    BY <1>1, <1>2, <2>1, <2>2, <2>3, <2>4, <2>5, <2>6, <2>7, <2>8, FourStays
<1>. QED
  BY <1>3, <1>5, <1>6, Zenon

LEMMA FourBallots ==
  ASSUME IInv, VerdictInv, OneCrash, OneOfFour(scenario), FourInv,
         NEW n \in Up, TakeVote(n) \/ Verdict(n) \/ CompleteRound(n)
  PROVE  FourInv'
<1>1. n \in Writers /\ Up \subseteq Writers /\ DOMAIN view = Writers
      /\ DOMAIN view_changed = Writers /\ DOMAIN min_view_change = Writers
  BY ThreeUp DEF FourInv
<1>2. PICK none : \A m : m \notin none
  BY NothingSent
<1>3. CASE TakeVote(n) \/ CompleteRound(n)
  <2>1. /\ UNCHANGED <<scenario, pc, cancel_number, view, view_changed,
                       min_view_change>>
        /\ \A m \in msgs' : m \in msgs
        /\ \A m \in msgs : m.to # n => m \in msgs'
        /\ pc[n] # "proposals"
    BY <1>3 DEF TakeVote, CompleteRound, Completes, Frame, waits, Receivable,
                Inbox
  <2>2. (Voted(n)' <=> Voted(n)) /\ (Changed(n)' <=> Changed(n))
    BY <2>1 DEF Voted, Changed
  <2>3. /\ pc[n] \in {"round", "proposals", "requested", "ballot"}
        /\ view[n] \in {0, 1}
        /\ view[n] = 1 \/ view_changed[n] => \A k \in Up \ {n} : Voted(k)
        /\ pc[n] = "requested" /\ view[n] = 1 => ~view_changed[n]
        /\ pc[n] = "round" /\ cancel_number[n] = 0 =>
             ~view_changed[n] /\ view[n] = 0
    BY DEF FourInv
  <2>. QED
    BY <1>1, <1>2, <2>1, <2>2, <2>3, FourStays
<1>4. CASE Verdict(n)
  <2>1. cancel_number[n] = 0
    BY <1>1, <1>4 DEF VerdictInv, Before, After, Verdict
  <2>2. /\ UNCHANGED <<scenario, msgs>>
        /\ pc' = [pc EXCEPT ![n] = "round"]
        /\ cancel_number' = [cancel_number EXCEPT ![n] = @ + 1]
        /\ view' = [view EXCEPT ![n] = 0]
        /\ min_view_change' = [min_view_change EXCEPT ![n] = 0]
    BY <1>4 DEF Verdict
  <2>3. /\ pc'[n] = "round" /\ cancel_number'[n] = 1
        /\ \A k \in Writers \ {n} :
             pc'[k] = pc[k] /\ cancel_number'[k] = cancel_number[k]
    BY <1>1, <2>1, <2>2 DEF IInv, BallotInv, VerdictInv
  <2>4. /\ DOMAIN view' = Writers /\ view'[n] = 0
        /\ DOMAIN min_view_change' = Writers
        /\ \A k \in Writers \ {n} :
             view'[k] = view[k] /\ min_view_change'[k] = min_view_change[k]
    BY <1>1, <2>2
  <2>5. /\ DOMAIN view_changed' = Writers /\ ~view_changed'[n]
        /\ \A k \in Writers \ {n} : view_changed'[k] <=> view_changed[k]
    <3>1. view_changed' = [view_changed EXCEPT ![n] = FALSE]
      BY <1>4, Zenon DEF Verdict
    <3>. QED
      BY <1>1, <3>1, FlagSet, Zenon
  <2>6. Voted(n)' /\ Changed(n)'
    BY <2>3 DEF Voted, Changed
  <2>. QED
    BY <1>1, <1>2, <2>2, <2>3, <2>4, <2>5, <2>6, FourStays
<1>. QED
  BY <1>3, <1>4

LEMMA FourNext ==
  ASSUME IInv, VerdictInv, OneCrash, OneOfFour(scenario), FourInv,
         StartHeight \notin Json, [Next]_vars
  PROVE  FourInv'
<1>1. CASE UNCHANGED <<scenario, pc, cancel_number, view, view_changed,
                       min_view_change, msgs>>
  <2>1. Up' = Up /\ \A k : (Voted(k)' <=> Voted(k)) /\ (Changed(k)' <=> Changed(k))
    BY <1>1 DEF Up, Voted, Changed
  <2>. QED
    BY <1>1, <2>1 DEF FourInv
<1>2. ASSUME NEW n \in Up, NodeStep(n) PROVE FourInv'
  <2>1. n \in Writers
    BY ThreeUp
  <2>2. CASE TakeVote(n) \/ Verdict(n) \/ CompleteRound(n)
    BY <2>2, FourBallots
  <2>3. CASE CancelStep(n)
    <3>1. Before(n) /\ cancel_number[n] = 0
      BY <2>1, <2>3, CancelBefore DEF Before
    <3>2. CASE FollowProposal(n) \/ OwnProposal(n)
      <4>1. ASSUME NEW acc, NEW accd, NEW queue \in SUBSET msgs,
                   \A m \in msgs : m.to # n => m \in queue,
                   pc[n] = "round", Propose(n, acc, accd, queue), Frame
            PROVE  FourInv'
        BY <3>1, <4>1, FourProposes
      <4>2. CASE FollowProposal(n)
        <5>1. PICK m \in Proposals(n) :
                Propose(n, m.from, m.faulty_node, msgs \ {m})
          BY <4>2 DEF FollowProposal
        <5>2. m.to = n
          BY DEF Proposals, Inbox
        <5>. QED
          BY <4>1, <4>2, <5>1, <5>2 DEF FollowProposal
      <4>3. CASE OwnProposal(n)
        BY <4>1, <4>3 DEF OwnProposal
      <4>. QED
        BY <3>2, <4>2, <4>3
    <3>3. CASE TakeRequest(n) \/ JoinViewChange(n) \/ RequestTimesOut(n)
      BY <3>1, <3>3, FourRequests
    <3>4. CASE LastProposal(n) \/ ProposalsTimeOut(n) \/ OneMoreProposal(n)
      BY <3>1, <3>4, FourEnds, FourCounts
    <3>5. ~BadProposal(n) /\ ~BadRequest(n)
      <4>1. ASSUME NEW m \in msgs, m.type \in {"propose_cancel", "request_cancel"}
            PROVE  ~AppendRaises(n, m.block)
        BY <2>1, <3>1, <4>1, NoRaise DEF FourInv
      <4>. QED
        BY <4>1 DEF BadProposal, BadRequest, Proposals, Receivable, Inbox
    <3>6. ~NewView(n)
      BY <3>1, ViewChangesVoted DEF NewView
    <3>. QED
      BY <2>2, <2>3, <3>2, <3>3, <3>4, <3>5, <3>6 DEF CancelStep
  <2>. QED
    BY <1>2, <2>2, <2>3 DEF NodeStep, Timely, CancelStep
<1>3. CASE (\E n \in Up : \E m \in Writers : Notice(n, m)) \/ UNCHANGED vars
  BY <1>1, <1>3 DEF Notice, vars, waits, memVars
<1>. QED
  BY <1>2, <1>3 DEF Next

----------------------------------------------------------------------------
(* The theorems.                                                            *)

LEMMA InvInit == Init => IInv
<1>. SUFFICES ASSUME Init PROVE IInv
  OBVIOUS
<1>1. scenario \in Scenarios /\ scenario.writers \subseteq Writers
  BY CancellationAssumption DEF Init, Scenario
<1>2. <<>> \in Seq(Lost)
  OBVIOUS
<1>3. AccusationInv
  BY <1>2 DEF Init, AccusationInv, Accusing, GoodMessages, Ids
<1>4. BallotInv
  BY DEF Init, BallotInv
<1>5. MembersInv
  BY <1>1 DEF Init, MembersInv, Flagged, InBox, NewEntry
<1>. QED
  BY <1>1, <1>3, <1>4, <1>5 DEF IInv

\* A ballot is of four writers or more.
LargeBallots == \A n \in Writers : pc[n] = "ballot" => Size(n) >= 4

LEMMA InvNext ==
  ASSUME IInv, LargeBallots, [Next]_vars
  PROVE  IInv'
<1>1. Up \subseteq Writers
  BY CancellationAssumption DEF IInv, Scenario, Up
<1>2. CASE \E n \in Up : \E m \in Writers : Notice(n, m)
  BY <1>2, NoticeKeeps
<1>3. ASSUME NEW n \in Writers, Timely(n)
      PROVE  IInv'
  <2>1. CASE FollowProposal(n) \/ OwnProposal(n)
    BY <2>1, FollowProposalKeeps, OwnProposalKeeps
  <2>2. CASE BadProposal(n) \/ BadRequest(n)
    BY <2>2, DeathKeeps DEF BadProposal, BadRequest
  <2>3. CASE LastProposal(n) \/ OneMoreProposal(n)
    BY <2>3, ProposalsKeep
  <2>4. CASE TakeRequest(n) \/ JoinViewChange(n) \/ NewView(n)
    BY <2>4, RequestsKeep
  <2>5. CASE TakeVote(n) \/ Verdict(n)
    BY <2>5, TakeVoteKeeps, VerdictKeeps DEF LargeBallots, TakeVote, Verdict
  <2>6. CASE CompleteRound(n)
    BY <2>6, CompleteRoundKeeps
  <2>. QED
    BY <1>3, <2>1, <2>2, <2>3, <2>4, <2>5, <2>6 DEF Timely
<1>4. CASE \E n \in Up : NodeStep(n)
  BY <1>1, <1>3, <1>4, ProposalsKeep, RequestsKeep DEF NodeStep
<1>5. CASE UNCHANGED vars
  <2>1. /\ UNCHANGED <<scenario, inactive, pc, accused, ballot,
                       disconnected_nodes, round_writer_list, penalty_box, msgs>>
    BY <1>5 DEF vars, accusation, memVars
  <2>2. Lost' = Lost
    BY <2>1 DEF Lost, Up
  <2>. QED
    BY <2>1, <2>2 DEF IInv, AccusationInv, GoodMessages, BallotInv, MembersInv,
                      Size
<1>. QED
  BY <1>2, <1>4, <1>5 DEF Next

\* Whatever has failed, if four writers at least still reach every writer that
\* is up: every accusation, on its way or in the mind of a node, is of a writer
\* that some writer has lost; no ballot counts for the accuser more than a third
\* of the list and one; and lists hold every writer nobody has lost.
THEOREM CancellationInvariant == EnoughReach => (Spec => []IInv)
<1>. SUFFICES ASSUME EnoughReach PROVE Spec => []IInv
  OBVIOUS
<1>1. IInv /\ [Next]_vars => IInv'
  BY InvNext, SizeOfList DEF LargeBallots
<1>. QED
  BY <1>1, InvInit, PTL DEF Spec

\* If one writer of four or more has crashed and none was ahead, every node makes
\* one verdict until the crashed writer is released, before its next round: no
\* message is of a second cancellation, and the box is a function of the height.
THEOREM OneVerdict ==
  OneCrash /\ MaxHeight <= StartHeight + FirstPenalty
    => (Spec => [](IInv /\ VerdictInv))
<1>. SUFFICES ASSUME OneCrash, MaxHeight <= StartHeight + FirstPenalty
              PROVE  Spec => [](IInv /\ VerdictInv)
  OBVIOUS
<1>1. Init => IInv /\ VerdictInv
  <2>. SUFFICES ASSUME Init PROVE IInv /\ VerdictInv
    OBVIOUS
  <2>1. IInv
    BY InvInit
  <2>2. scenario.ahead = {}
    BY <2>1, OnlyOneLost
  <2>3. VerdictInv
    BY <2>2, CancellationAssumption DEF Init, VerdictInv, Before
  <2>. QED
    BY <2>1, <2>3
<1>2. IInv /\ VerdictInv /\ [Next]_vars => (IInv /\ VerdictInv)'
  <2>. SUFFICES ASSUME IInv, VerdictInv, [Next]_vars PROVE IInv' /\ VerdictInv'
    OBVIOUS
  <2>1. LargeBallots
    BY OnlyOneLost DEF LargeBallots, VerdictInv, Before, After, Size
  <2>. QED
    BY <2>1, InvNext, VerdictNext
<1>. QED
  BY <1>1, <1>2, PTL DEF Spec

\* Then no node that reaches all the others that are up is ever sanctioned,
\* however many cancellations, rounds and releases there are and whichever
\* timeouts expire: get_vote_ballot closes before the accuser has a majority.
\* Nor is one, of four writers, until a crashed writer is first released.
THEOREM OnlyTheFaultySanctionedHolds ==
  EnoughReach \/ (OneCrash /\ MaxHeight <= StartHeight + FirstPenalty)
    => (Spec => []OnlyTheFaultySanctioned)
<1>. SUFFICES ASSUME \/ EnoughReach
                     \/ OneCrash /\ MaxHeight <= StartHeight + FirstPenalty
              PROVE  Spec => []OnlyTheFaultySanctioned
  OBVIOUS
<1>1. IInv => OnlyTheFaultySanctioned
  <2>1. ASSUME IInv, NEW n \in Up, NEW x \in InBox(penalty_box[n])
        PROVE  \E m \in Up : {m, x} \in scenario.links
    <3>1. n \in Writers
      BY <2>1, CancellationAssumption DEF IInv, Scenario, Up
    <3>. QED
      BY <2>1, <3>1 DEF IInv, MembersInv, Lost
  <2>. QED
    BY <2>1 DEF OnlyTheFaultySanctioned
<1>2. CASE EnoughReach
  BY <1>1, <1>2, CancellationInvariant, PTL
<1>3. CASE OneCrash /\ MaxHeight <= StartHeight + FirstPenalty
  BY <1>1, <1>3, OneVerdict, PTL
<1>. QED
  BY <1>2, <1>3

\* So nodes with as many cancellations and blocks know the same members and
\* penalties, whichever votes each of them counted and whatever timed out.
THEOREM SameVerdictHolds ==
  OneCrash /\ MaxHeight <= StartHeight + FirstPenalty
    => (Spec => []SameVerdict)
<1>. SUFFICES ASSUME OneCrash, MaxHeight <= StartHeight + FirstPenalty
              PROVE  Spec => []SameVerdict
  OBVIOUS
<1>1. IInv /\ VerdictInv => SameVerdict
  <2>. SUFFICES ASSUME IInv, VerdictInv, NEW m \in Writers, NEW n \in Writers,
                       cancel_number[m] = cancel_number[n],
                       height[m] = height[n]
                PROVE  /\ round_writer_list[m] = round_writer_list[n]
                       /\ penalty_box[m] = penalty_box[n]
    <3>1. IInv => Up \subseteq Writers
      BY CancellationAssumption DEF IInv, Scenario, Up
    <3>. QED
      BY <3>1 DEF SameVerdict
  <2>1. CASE Before(m) /\ Before(n)
    BY <2>1 DEF Before
  <2>2. CASE After(m) /\ After(n)
    <3>1. PICK k \in 0 .. FirstPenalty :
            height[m] = StartHeight + k /\ penalty_box[m] = BoxAfter(k)
      BY <2>2 DEF After
    <3>2. PICK l \in 0 .. FirstPenalty :
            height[n] = StartHeight + l /\ penalty_box[n] = BoxAfter(l)
      BY <2>2 DEF After
    <3>3. StartHeight + k = StartHeight + l /\ StartHeight \in Nat
      BY <3>1, <3>2, CancellationAssumption
    <3>4. k = l
      BY <3>3
    <3>. QED
      BY <2>2, <3>1, <3>2, <3>4 DEF After
  <2>. QED
    BY <2>1, <2>2 DEF VerdictInv, Before, After
<1>. QED
  BY <1>1, OneVerdict, PTL

LEMMA TimelyInit ==
  ASSUME Init, OneCrash, Noticed(scenario)
  PROVE  TimelyInv
<1>1. IInv
  BY InvInit
<1>2. First \in Up /\ Up \subseteq Writers /\ First \in Writers
  BY <1>1, TheCrash
<1>3. /\ \A n \in Up : pc[n] = "round" /\ cancel_number[n] = 0
      /\ received \in [Writers -> Nat] /\ msgs = {}
  BY <1>2 DEF Init
<1>4. DOMAIN view_changed = Writers /\ \A n \in Writers : ~view_changed[n]
  BY Zenon DEF Init
<1>5. ~Asked /\ Counted = {}
  BY <1>2, <1>3 DEF Asked, Counted
<1>6. CollectInv
  BY <1>2, <1>3, <1>5 DEF CollectInv
<1>. QED
  BY <1>2, <1>3, <1>4, <1>5, <1>6 DEF TimelyInv

LEMMA FourInit ==
  ASSUME Init, OneCrash, OneOfFour(scenario)
  PROVE  FourInv
<1>1. IInv
  BY InvInit
<1>2. Up \subseteq Writers
  BY <1>1, ThreeUp
<1>3. DOMAIN view_changed = Writers /\ \A n \in Writers : ~view_changed[n]
  BY Zenon DEF Init
<1>4. /\ DOMAIN view = Writers /\ DOMAIN min_view_change = Writers /\ msgs = {}
      /\ (\A n \in Writers : view[n] = 0) /\ \A n \in Up : pc[n] = "round"
  BY <1>2 DEF Init
<1>. QED
  BY <1>2, <1>3, <1>4 DEF FourInv

\* If one writer of four or more has crashed, which is not the first, and the
\* others notice in time: no view change is sent, all proposals are counted or
\* under way until the first writer has asked for a vote, and then its request
\* is under way to whoever has not voted.  If it is one of four: whichever
\* timeouts expire, two of the others go no further than the vote in view 0, and
\* the third not beyond view 1, which it enters only when they have voted.
THEOREM SurvivorsInvariant ==
  (/\ OneCrash /\ StartHeight \notin Json
   /\ MaxHeight <= StartHeight + FirstPenalty)
    => (Spec => [](IInv /\ VerdictInv /\ SurvivorsInv))
<1>. SUFFICES ASSUME OneCrash, StartHeight \notin Json,
                     MaxHeight <= StartHeight + FirstPenalty
              PROVE  Spec => [](IInv /\ VerdictInv /\ SurvivorsInv)
  OBVIOUS
<1>1. Spec => [](IInv /\ VerdictInv)
  BY OneVerdict
<1>2. Init => SurvivorsInv
  BY TimelyInit, FourInit DEF SurvivorsInv
<1>3. IInv /\ VerdictInv /\ SurvivorsInv /\ [Next]_vars => SurvivorsInv'
  <2>. SUFFICES ASSUME IInv, VerdictInv, SurvivorsInv, [Next]_vars
                PROVE  SurvivorsInv'
    OBVIOUS
  <2>1. scenario' = scenario
    BY CancelStepFrame DEF Next, NodeStep, Timely, CancelStep, Verdict,
                           CompleteRound, Notice, vars
  <2>2. (Noticed(scenario)' <=> Noticed(scenario))
        /\ (OneOfFour(scenario)' <=> OneOfFour(scenario))
    BY <2>1 DEF Noticed, OneOfFour
  <2>. QED
    BY <2>2, TimelyNext, FourNext DEF SurvivorsInv
<1>. QED
  BY <1>1, <1>2, <1>3, PTL DEF Spec

\* So no exception ends an engine thread: no new view is announced for which
\* send_new_view finds no message, no view is entered after the last, no block
\* that comes with a message is of a node behind, and none that is sent was
\* parsed.
THEOREM NobodyDiesHolds ==
  (/\ OneCrash /\ StartHeight \notin Json
   /\ \A s \in Scenarios : Noticed(s) \/ OneOfFour(s)
   /\ MaxHeight <= StartHeight + FirstPenalty)
    => (Spec => []NobodyDies)
<1>. SUFFICES ASSUME OneCrash, StartHeight \notin Json,
                     \A s \in Scenarios : Noticed(s) \/ OneOfFour(s),
                     MaxHeight <= StartHeight + FirstPenalty
              PROVE  Spec => []NobodyDies
  OBVIOUS
<1>1. IInv /\ SurvivorsInv => NobodyDies
  BY DEF IInv, SurvivorsInv, TimelyInv, FourInv, NobodyDies
<1>. QED
  BY <1>1, SurvivorsInvariant, PTL
=============================================================================
