------------------------------ MODULE Lottery ------------------------------
(***************************************************************************)
(* The lottery that picks the writer of a round: generate_pad,             *)
(* calculate_sum and verify_round_winner of src/protoengine.py.            *)
(*                                                                         *)
(* Every contending writer draws a number below Modulus.  The coordinator  *)
(* collects <<id, number>> pairs, XORs the numbers into the round's pad    *)
(* (reduced modulo Modulus) and declares the writer whose number is the    *)
(* circularly closest to the pad, ties going to the lowest id.             *)
(*                                                                         *)
(* calculate_sum is written as the relation IsOutcome that its result      *)
(* satisfies; MCLottery checks that exactly one result satisfies it and    *)
(* that it is the one a direct transcription of the loop computes.  An     *)
(* operator whose name ends in _word is a seeded fault of the next one.    *)
(***************************************************************************)
EXTENDS Integers, Sequences, FiniteSets, Functions

CONSTANTS
  Modulus,   \* self.modulus, 65537 in the code
  PadBits    \* width of a drawn number in bits, 17 in the code

ASSUME LotteryAssumption ==
  /\ Modulus \in Nat \ {0}
  /\ PadBits \in Nat
  /\ Modulus <= 2^PadBits

\* The values generate_pad can return: eight random bytes modulo Modulus.
Pads == 0 .. Modulus - 1

Bit(x, b) == (x \div 2^b) % 2

\* x is the bitwise exclusive or of the numbers in the list of pairs.
IsXor(x, numbers) ==
  \A b \in 0 .. PadBits - 1 :
    LET ones == {i \in DOMAIN numbers : Bit(numbers[i][2], b) = 1}
    IN  Bit(x, b) = Cardinality(ones) % 2

Distance_upOnly(number, pad) == (number - pad) % Modulus

\* How far a drawn number is from the pad, going round the ring 0..Modulus-1.
Distance(number, pad) ==
  LET up   == (number - pad) % Modulus
      down == (pad - number) % Modulus
  IN  IF up < down THEN up ELSE down

\* The key of min(): distance first, then the id.
Beats(e, f, pad) ==
  \/ Distance(e[2], pad) < Distance(f[2], pad)
  \/ Distance(e[2], pad) = Distance(f[2], pad) /\ e[1] <= f[1]

\* calculate_sum(numbers) may return [numbers, pad, winner].
IsOutcome(numbers, pad, winner) ==
  /\ \E x \in 0 .. 2^PadBits - 1 : IsXor(x, numbers) /\ pad = x % Modulus
  /\ \E e \in Range(numbers) :
       /\ e[1] = winner
       /\ \A f \in Range(numbers) : Beats(e, f, pad)

VerifyRoundWinner_anyNumber(numbers, pad, winner, my_number) ==
  IsOutcome(numbers, pad, winner)

\* verify_round_winner: recompute the outcome and look for one's own number.
\* The code compares the number only, not the pair of number and id.
VerifyRoundWinner(numbers, pad, winner, my_number) ==
  /\ IsOutcome(numbers, pad, winner)
  /\ \E e \in Range(numbers) : e[2] = my_number
=============================================================================
