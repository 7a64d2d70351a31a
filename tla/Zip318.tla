------------------------------- MODULE Zip318 -------------------------------
(***************************************************************************)
(* The parameters of ZIP 318 pool migration, zcash_protocol::zip318, and   *)
(* the functions of them: the canonical denominations, the rolling expiry, *)
(* the anchor grid, and the classification of a transaction from what a    *)
(* wallet has observed of it.                                              *)
(*                                                                         *)
(* The constants are the accessors of PoolMigrationConstants, an unsealed  *)
(* trait whose implementors may override any of them; nothing validates    *)
(* an override.  An Option is a set of at most one element: {} is None.    *)
(***************************************************************************)
EXTENDS Integers

CONSTANTS
    MaxHeight,             \* u32::MAX, at which BlockHeight arithmetic saturates
    MaxU64,                \* u64::MAX, past which checked_mul answers None
    EXPIRY_MODULUS,        \* expiry_window().0
    EXPIRY_WINDOW,         \* expiry_window().1
    AnchorBucketInterval,  \* anchor_bucket_interval()
    MAX_RESIDUAL_VALUE,    \* max_residual_value(), the smallest denomination
    DENOM_CAP,             \* denomination_cap()
    PREP_TX_ACTIONS        \* preparation_tx_actions()

(* The code divides by the modulus and by the interval, and strips zeros    *)
(* off any value that the smallest denomination lets through.               *)
ASSUME ParametersAssumption ==
    /\ MaxHeight \in Nat /\ MaxU64 \in Nat
    /\ EXPIRY_MODULUS \in Nat \ {0} /\ EXPIRY_WINDOW \in Nat
    /\ AnchorBucketInterval \in Nat \ {0}
    /\ MAX_RESIDUAL_VALUE \in Nat \ {0} /\ DENOM_CAP \in Nat
    /\ PREP_TX_ACTIONS \in Nat

Heights == 0 .. MaxHeight
Option(S) == {s \in SUBSET S : \A x, y \in s : x = y}

CROSSING_SOURCE_ACTIONS == 2
CROSSING_DESTINATION_ACTIONS == 1
DENOMINATION_RADIX == 10
ONE_TWO_FIVE == {1, 2, 5}

----------------------------------------------------------------------------
(* Denominations. *)

(* The value without its trailing zeros. *)
StripRadix[n \in Nat] ==
    IF n > 0 /\ n % DENOMINATION_RADIX = 0 THEN StripRadix[n \div DENOMINATION_RADIX] ELSE n

(* Mutant: the cap itself is refused. *)
IsCanonicalBelowCap(value) ==
    /\ MAX_RESIDUAL_VALUE <= value /\ value < DENOM_CAP
    /\ StripRadix[value] \in ONE_TWO_FIVE

IsCanonicalDenomination(value) ==
    /\ MAX_RESIDUAL_VALUE <= value /\ value <= DENOM_CAP
    /\ StripRadix[value] \in ONE_TWO_FIVE

(* The largest power of the radix, times floor, that does not exceed hi. *)
LargestPower(hi, floor) ==
    LET climb[pow \in Nat] ==
            IF pow * DENOMINATION_RADIX <= MaxU64 /\ pow * DENOMINATION_RADIX <= hi
            THEN climb[pow * DENOMINATION_RADIX] ELSE pow
    IN  climb[floor]

(* Mutant: a multiple is not compared with hi. *)
MultiplesUnchecked(hi, pow) == {m \in ONE_TWO_FIVE : pow * m <= MaxU64}

(* The significands that fit. *)
Multiples(hi, pow) == {m \in ONE_TWO_FIVE : pow * m <= MaxU64 /\ pow * m <= hi}

(* Mutant: the significands are tried in ascending order. *)
SmallestMultiple(hi, floor) ==
    IF hi < floor THEN 0
    ELSE LET pow == LargestPower(hi, floor)
             ms == Multiples(hi, pow)
         IN  pow * (CHOOSE m \in ms : \A n \in ms : m <= n)

(* Mutant: a value equal to the floor is refused. *)
LargestAboveFloor(hi, floor) ==
    IF hi <= floor THEN 0
    ELSE LET pow == LargestPower(hi, floor)
             ms == Multiples(hi, pow)
         IN  pow * (CHOOSE m \in ms : \A n \in ms : n <= m)

LargestOneTwoFive(hi, floor) ==
    IF hi < floor THEN 0
    ELSE LET pow == LargestPower(hi, floor)
             ms == Multiples(hi, pow)
         IN  pow * (CHOOSE m \in ms : \A n \in ms : n <= m)

----------------------------------------------------------------------------
(* Expiries and anchors. *)
HeightAdd(h, n) == IF h + n > MaxHeight THEN MaxHeight ELSE h + n

CanonicalExpiry(reference) ==
    HeightAdd(reference - (reference % EXPIRY_MODULUS), EXPIRY_WINDOW)

IsCanonicalExpiry(expiry, reference) == expiry = CanonicalExpiry(reference)

(* Mutant: the first canonical expiry is refused. *)
IsCanonicalExpiryPastWindow(expiry) ==
    expiry > EXPIRY_WINDOW /\ expiry % EXPIRY_MODULUS = 0

IsCanonicalExpiryValue(expiry) ==
    expiry >= EXPIRY_WINDOW /\ expiry % EXPIRY_MODULUS = 0

IsBoundary(height) == height % AnchorBucketInterval = 0

----------------------------------------------------------------------------
(* Classification. *)
Labels == {"Unknown", "Nonconforming", "Preparation", "Transfer"}

Zip318Evidence ==
    [source_actions : Option(Nat), destination_actions : Option(Nat),
     other_bundles_present : Option(BOOLEAN), source_is_send_to_self : Option(BOOLEAN),
     sole_destination_value : Option(Nat), expiry_is_canonical : Option(BOOLEAN),
     anchor_on_grid : Option(BOOLEAN), fee_is_canonical : Option(BOOLEAN)]

(* Mutant: an unanswered send-to-self is taken for a refusal. *)
ClassifyPreparationEagerly(e) ==
    IF e.source_actions # {PREP_TX_ACTIONS} THEN "Nonconforming"
    ELSE IF e.source_is_send_to_self = {TRUE} THEN "Preparation" ELSE "Nonconforming"

ClassifyPreparation(e) ==
    IF e.source_actions # {PREP_TX_ACTIONS} THEN "Nonconforming"
    ELSE IF e.source_is_send_to_self = {} THEN "Unknown"
    ELSE IF e.source_is_send_to_self = {TRUE} THEN "Preparation" ELSE "Nonconforming"

ClassifyCrossing(e) ==
    IF e.source_actions # {CROSSING_SOURCE_ACTIONS} THEN "Nonconforming"
    ELSE IF e.sole_destination_value = {} THEN "Unknown"
    ELSE IF \A value \in e.sole_destination_value : IsCanonicalDenomination(value)
    THEN "Transfer" ELSE "Nonconforming"

Refuted(e) == e.anchor_on_grid = {FALSE} \/ e.fee_is_canonical = {FALSE}

(* A clause that every shape shares has no answer yet. *)
Undecided(e) ==
    \/ e.source_actions = {} \/ e.destination_actions = {}
    \/ e.other_bundles_present = {} \/ e.expiry_is_canonical = {}

(* Mutant: the expiry clause is required but not looked at. *)
ClassifyAnyExpiry(e) ==
    IF Refuted(e) THEN "Nonconforming"
    ELSE IF Undecided(e) THEN "Unknown"
    ELSE IF e.other_bundles_present = {TRUE} THEN "Nonconforming"
    ELSE IF e.destination_actions = {0} THEN ClassifyPreparation(e)
    ELSE IF e.destination_actions = {CROSSING_DESTINATION_ACTIONS} THEN ClassifyCrossing(e)
    ELSE "Nonconforming"

Classify(e) ==
    IF Refuted(e) THEN "Nonconforming"
    ELSE IF Undecided(e) THEN "Unknown"
    ELSE IF e.other_bundles_present = {TRUE} \/ e.expiry_is_canonical = {FALSE}
    THEN "Nonconforming"
    ELSE IF e.destination_actions = {0} THEN ClassifyPreparation(e)
    ELSE IF e.destination_actions = {CROSSING_DESTINATION_ACTIONS} THEN ClassifyCrossing(e)
    ELSE "Nonconforming"

(* The stable integer encoding of a label; any other code reads as Unknown. *)
CodeOf == [Unknown |-> 0, Nonconforming |-> 1, Preparation |-> 2, Transfer |-> 3]

(* Mutant: a fourth code for crossings. *)
ToCodeAppended(label) == IF label = "Transfer" THEN 4 ELSE CodeOf[label]

ToCode(label) == CodeOf[label]

FromCode(code) ==
    IF code = 1 THEN "Nonconforming"
    ELSE IF code = 2 THEN "Preparation"
    ELSE IF code = 3 THEN "Transfer"
    ELSE "Unknown"
=============================================================================
