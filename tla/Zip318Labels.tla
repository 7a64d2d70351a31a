---------------------------- MODULE Zip318Labels ----------------------------
(***************************************************************************)
(* A wallet labels a transaction: it learns the clauses of Zip318Evidence  *)
(* one at a time, in any order, as its data arrive; it stores the code of  *)
(* classify's answer; a consumer reads the stored code and caches the      *)
(* first decision that it sees.  Nothing orders these steps: a label may   *)
(* be stored and read at every point of the evidence's growth, and the     *)
(* transaction is mined at any of them.                                    *)
(*                                                                         *)
(* The wallet keeps the two obligations that Zip318Evidence states.  An    *)
(* answer is stable, and it answers a confirmatory clause for every        *)
(* transaction, from the start, or for none.  Counts, bundles, values,     *)
(* anchors and fees are read off the transaction.  Two clauses depend on   *)
(* where the answer comes from: whether the source outputs are a send to   *)
(* self is told exactly of a transaction that the wallet is building, and  *)
(* loosely of a mined one; the expiry is judged by one of the two          *)
(* functions that zip318 offers, and the choice is ExpiryForm.             *)
(***************************************************************************)
EXTENDS Zip318

CONSTANTS
    Transactions,   \* the transactions considered, members of Transaction
    MinedHeights,   \* the heights at which one may be mined
    ExpiryForm      \* "value": is_canonical_expiry_value; "reference": is_canonical_expiry

(* Whom a value-carrying output pays: the internal or an external address   *)
(* of the account, or somebody else.                                        *)
Recipients == {"internal", "external", "foreign"}

(* What is true of a transaction.  The value of the sole destination output *)
(* is None when no destination action carries a value.                      *)
Transaction ==
    [source_actions : Nat, destination_actions : Nat, other_bundles_present : BOOLEAN,
     source_outputs : SUBSET Recipients, sole_destination_value : Option(Nat),
     target : Heights, expiry : Heights, anchor : Heights, fee_is_canonical : BOOLEAN]

Confirmatory == {"anchor_on_grid", "fee_is_canonical"}
NotMined == -1

ASSUME LabelsAssumption ==
    /\ \A t \in Transactions : t \in Transaction
    /\ MinedHeights \subseteq Heights
    /\ ExpiryForm \in {"value", "reference"}

VARIABLES
    tx,         \* the transaction
    capable,    \* the confirmatory clauses that the wallet can answer
    own,        \* whether the wallet is itself building the transaction
    mined,      \* the height it is mined at
    evidence,   \* the Zip318Evidence gathered so far
    code,       \* the stored label, an i64 column that defaults to 0
    cached      \* the label a consumer has cached

vars == <<tx, capable, own, mined, evidence, code, cached>>
fixed == <<tx, capable, own>>

TypeOK ==
    /\ tx \in Transaction /\ capable \subseteq Confirmatory /\ own \in BOOLEAN
    /\ mined \in Heights \union {NotMined}
    /\ evidence \in Zip318Evidence
    /\ code \in 0 .. 3
    /\ cached \in Labels

----------------------------------------------------------------------------
AnchorAnswer == IF "anchor_on_grid" \in capable THEN {IsBoundary(tx.anchor)} ELSE {}
FeeAnswer == IF "fee_is_canonical" \in capable THEN {tx.fee_is_canonical} ELSE {}

(* The least evidence, with the confirmatory answers of a capable source. *)
NoEvidence ==
    [source_actions |-> {}, destination_actions |-> {}, other_bundles_present |-> {},
     source_is_send_to_self |-> {}, sole_destination_value |-> {},
     expiry_is_canonical |-> {},
     anchor_on_grid |-> AnchorAnswer, fee_is_canonical |-> FeeAnswer]

Init ==
    /\ tx \in Transactions /\ capable \in SUBSET Confirmatory /\ own \in BOOLEAN
    /\ mined = NotMined
    /\ evidence = NoEvidence
    /\ code = 0
    /\ cached = "Unknown"

Learn(grown) == evidence' = grown /\ UNCHANGED <<fixed, mined, code, cached>>

WithSourceActions == Learn([evidence EXCEPT !.source_actions = {tx.source_actions}])

WithDestinationActions ==
    Learn([evidence EXCEPT !.destination_actions = {tx.destination_actions}])

WithOtherBundlesPresent ==
    Learn([evidence EXCEPT !.other_bundles_present = {tx.other_bundles_present}])

(* The exact reading, of a transaction the wallet is building: every        *)
(* value-carrying output pays the internal address.                         *)
PaysOnlyItself == tx.source_outputs \subseteq {"internal"}

(* The looser reading, of a mined transaction: the account received on its  *)
(* internal address and on no external one.  Outputs to others cannot be    *)
(* told from padding.                                                       *)
ReceivesOnlyInternally ==
    "internal" \in tx.source_outputs /\ "external" \notin tx.source_outputs

SendToSelfAnswer ==
    IF mined # NotMined THEN {ReceivesOnlyInternally}
    ELSE IF own THEN {PaysOnlyItself} ELSE {}

(* The setter would overwrite an answer.  The wallet keeps the first one,   *)
(* since the two readings of a transaction may differ.                      *)
WithSourceIsSendToSelf ==
    /\ evidence.source_is_send_to_self = {} /\ SendToSelfAnswer # {}
    /\ Learn([evidence EXCEPT !.source_is_send_to_self = SendToSelfAnswer])

WithSoleDestinationValue ==
    Learn([evidence EXCEPT !.sole_destination_value = tx.sole_destination_value])

(* The height-independent form needs no height.  The other form is judged   *)
(* against the mined height, or before that against the target height of a  *)
(* transaction the wallet is building, and otherwise has no answer.         *)
ExpiryAnswer ==
    IF ExpiryForm = "value" THEN {IsCanonicalExpiryValue(tx.expiry)}
    ELSE IF mined # NotMined THEN {IsCanonicalExpiry(tx.expiry, mined)}
    ELSE IF own THEN {IsCanonicalExpiry(tx.expiry, tx.target)}
    ELSE {}

WithExpiryIsCanonical ==
    /\ ExpiryAnswer # {}
    /\ Learn([evidence EXCEPT !.expiry_is_canonical = ExpiryAnswer])

(* A block mines the transaction, from its target height to its expiry. *)
Mine(h) ==
    /\ mined = NotMined /\ tx.target <= h /\ h <= tx.expiry
    /\ mined' = h
    /\ UNCHANGED <<fixed, evidence, code, cached>>

StoreLabel ==
    /\ code' = ToCode(Classify(evidence))
    /\ UNCHANGED <<fixed, mined, evidence, cached>>

(* A consumer keeps the first decision that it reads. *)
ReadLabel ==
    /\ cached = "Unknown"
    /\ cached' = FromCode(code)
    /\ UNCHANGED <<fixed, mined, evidence, code>>

Next ==
    \/ WithSourceActions \/ WithDestinationActions \/ WithOtherBundlesPresent
    \/ WithSourceIsSendToSelf \/ WithSoleDestinationValue \/ WithExpiryIsCanonical
    \/ \E h \in MinedHeights : Mine(h)
    \/ StoreLabel \/ ReadLabel

Spec == Init /\ [][Next]_vars

----------------------------------------------------------------------------
(* What the labels promise.  The shapes are stated of the transaction, with *)
(* every clause, and not of the evidence.                                   *)
Confirmed == ~Refuted([anchor_on_grid |-> AnchorAnswer, fee_is_canonical |-> FeeAnswer])

PreparationLayout ==
    /\ tx.source_actions = PREP_TX_ACTIONS /\ tx.destination_actions = 0
    /\ ~tx.other_bundles_present

(* A preparation splits notes: it has outputs, all to the account itself. *)
PreparationShape == PreparationLayout /\ tx.source_outputs = {"internal"}

TransferShape ==
    /\ tx.source_actions = CROSSING_SOURCE_ACTIONS
    /\ tx.destination_actions = CROSSING_DESTINATION_ACTIONS
    /\ ~tx.other_bundles_present
    /\ \E value \in tx.sole_destination_value : IsCanonicalDenomination(value)

(* A transaction that a migration builds for its target height. *)
StrictlyCanonical ==
    /\ PreparationShape \/ TransferShape
    /\ IsCanonicalExpiry(tx.expiry, tx.target)
    /\ IsBoundary(tx.anchor) /\ tx.fee_is_canonical

(* What a consumer caches stays true of the row it came from: as evidence   *)
(* grows "a decision never becomes a different decision" (the comment on    *)
(* classification_is_monotone_in_the_evidence), and it is never lost.       *)
CachedLabelStands == cached # "Unknown" => FromCode(code) = cached

(* A conforming label over-approximates by what its source could not see,   *)
(* and by no more.  A Transfer has the shape.  A Preparation has the layout *)
(* and sends only to itself until it is mined; afterwards the label admits  *)
(* the look-alikes that also pay somebody else, but none that pays an       *)
(* external address of the account or nothing to its internal one while it  *)
(* pays others.  The answerable confirmatory clauses hold, and the expiry   *)
(* passes the wallet's test.                                                *)
ConformsUpToLookAlikes ==
    /\ FromCode(code) = "Preparation" =>
        /\ PreparationLayout
        /\ PaysOnlyItself \/ (mined # NotMined /\ ReceivesOnlyInternally)
    /\ FromCode(code) = "Transfer" => TransferShape
    /\ FromCode(code) \in {"Preparation", "Transfer"} => Confirmed /\ {TRUE} = ExpiryAnswer

(* The canonical expiry of the target height is past the last height. *)
ExpirySaturates == tx.target - (tx.target % EXPIRY_MODULUS) + EXPIRY_WINDOW > MaxHeight

(* No false negatives, whatever is known and whenever it is stored: a       *)
(* strictly canonical transaction is never labelled Nonconforming, unless   *)
(* it targets the last window of heights, where the canonical expiry is     *)
(* clamped to a height that the value form refuses.                         *)
NoFalseNegatives ==
    StrictlyCanonical /\ ~ExpirySaturates => FromCode(code) # "Nonconforming"
=============================================================================
