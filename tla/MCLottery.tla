----------------------------- MODULE MCLottery -----------------------------
(***************************************************************************)
(* The lottery over bounded inputs.  The one variable is the list the      *)
(* coordinator builds in get_otp_numbers, pair by pair and in any order of *)
(* arrival, so the reachable states are all the inputs of calculate_sum.   *)
(***************************************************************************)
EXTENDS Lottery, Bitwise, SequencesExt

CONSTANT Ids   \* ids of the writers that may contend

VARIABLE numbers

\* get_otp_numbers: the next reply is from a writer not heard from yet.
Init == numbers = <<>>

Collect(id, pad) ==
  /\ \A e \in Range(numbers) : e[1] # id
  /\ numbers' = Append(numbers, <<id, pad>>)

Next == \E id \in Ids, pad \in Pads : Collect(id, pad)

Spec == Init /\ [][Next]_numbers

\* The reference: the loop of calculate_sum, with the exclusive or of the
\* community module Bitwise and a scan that keeps the best pair seen so far.
XorAll == FoldLeft(LAMBDA acc, e : acc ^^ e[2], 0, numbers) % Modulus

RingDistance(a, b) ==
  CHOOSE d \in 0 .. Modulus - 1 :
    /\ (a + d) % Modulus = b \/ (b + d) % Modulus = a
    /\ \A c \in 0 .. d - 1 : (a + c) % Modulus # b /\ (b + c) % Modulus # a

Scan ==
  LET Better(e, f) ==
        LET de == RingDistance(e[2], XorAll)
            df == RingDistance(f[2], XorAll)
        IN  IF de < df \/ (de = df /\ e[1] < f[1]) THEN e ELSE f
  IN  FoldLeft(Better, numbers[1], numbers)

\* calculate_sum has exactly one result for every list of replies, whatever
\* the order they arrived in: the XOR of the numbers, and the writer closest
\* to it on the ring with the lowest id winning ties.
OutcomeMatchesReference ==
  numbers # <<>> =>
    \A pad \in Pads, id \in Ids :
      IsOutcome(numbers, pad, id) <=> pad = XorAll /\ id = Scan[1]

\* verify_round_winner accepts an announcement exactly when it is the outcome
\* of the announced list and the verifier's number is in it: a coordinator
\* that miscomputes the pad or the winner is caught by every writer.
VerificationIsExact ==
  numbers # <<>> =>
    \A pad \in Pads, id \in Ids, mine \in Pads :
      VerifyRoundWinner(numbers, pad, id, mine)
        <=> /\ pad = XorAll
            /\ id = Scan[1]
            /\ \E i \in DOMAIN numbers : numbers[i][2] = mine
=============================================================================
