-------------------------- MODULE Zip318Migration --------------------------
(***************************************************************************)
(* A balance crosses the turnstile: each crossing carries the largest      *)
(* denomination that the rest of the balance covers, at most the cap, and  *)
(* what is left below the smallest denomination stays where it is.  The    *)
(* step is zip318's largest_one_two_five ("the greedy decomposition step", *)
(* CHANGELOG.md); the loop around it is the wallet's.                      *)
(***************************************************************************)
EXTENDS Zip318

CONSTANTS
    Balances,     \* the balances considered
    MaxDigits     \* the powers of the radix that the integers have room for

Power[k \in Nat] == IF k = 0 THEN 1 ELSE DENOMINATION_RADIX * Power[k - 1]

(* "floor must be a power of the radix". *)
ASSUME MigrationAssumption ==
    /\ Balances \subseteq 0 .. MaxU64
    /\ MaxDigits \in Nat /\ Power[MaxDigits] > MaxU64
    /\ \E k \in 0 .. MaxDigits : MAX_RESIDUAL_VALUE = Power[k]

VARIABLES
    residual,   \* what has not crossed yet
    last        \* the value of the last crossing, 0 before the first

migration == <<residual, last>>

MigrationInit == residual \in Balances /\ last = 0

(* The denomination of the next crossing. *)
NextDenomination ==
    LargestOneTwoFive(IF residual < DENOM_CAP THEN residual ELSE DENOM_CAP, MAX_RESIDUAL_VALUE)

Cross ==
    /\ residual >= MAX_RESIDUAL_VALUE
    /\ last' = NextDenomination
    /\ residual' = residual - NextDenomination

MigrationSpec == MigrationInit /\ [][Cross]_migration /\ WF_migration(Cross)

----------------------------------------------------------------------------
(* The values that the classifier recognises, by their definition. *)
Series == {m * Power[k] : m \in ONE_TWO_FIVE, k \in 0 .. MaxDigits}

(* What the planner emits is what the classifier admits: the value of every *)
(* crossing passes is_canonical_denomination, which strips zeros where      *)
(* largest_one_two_five multiplies.                                         *)
CrossingsAreCanonical == last # 0 => IsCanonicalDenomination(last)

(* largest_one_two_five loses nothing: no member of the series between the  *)
(* floor and the value asked for is larger than its answer, and the answer  *)
(* is such a member unless the value is below the floor.                    *)
GreedyIsLargest ==
    LET fits == {d \in Series : MAX_RESIDUAL_VALUE <= d /\ d <= residual}
        answer == LargestOneTwoFive(residual, MAX_RESIDUAL_VALUE)
    IN  IF fits = {} THEN answer = 0
        ELSE answer \in fits /\ \A d \in fits : d <= answer

(* The decomposition ends: largest_one_two_five never answers 0 for what    *)
(* is still to be crossed, so a loop that is run to its end leaves only a   *)
(* residual that is too small to cross.                                     *)
EndsInDust == <>[](residual < MAX_RESIDUAL_VALUE)
=============================================================================
