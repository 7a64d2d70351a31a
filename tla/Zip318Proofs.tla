---------------------------- MODULE Zip318Proofs ----------------------------
(***************************************************************************)
(* ZIP 318 for every choice of its parameters.                             *)
(*                                                                         *)
(* The labels of a wallet that judges expiries by their value are stable,  *)
(* justified and, when the expiry window is a whole number of moduli,      *)
(* refuse a canonical transaction only where expiries saturate: the        *)
(* evidence only moves up the information order, so a decision once stored *)
(* is the decision of all later evidence.                                  *)
(*                                                                         *)
(* The decomposition of a balance multiplies up from the floor where the   *)
(* classifier divides down.  The recursive functions that model the two    *)
(* loops are what their definitions say (Recursion), and what they compute *)
(* follows by induction (Induction): both are stated for sets and          *)
(* functions, so that the provers can instantiate them.                    *)
(***************************************************************************)
EXTENDS Zip318Labels, Zip318Migration, WellFoundedInduction, TLAPS

(* The information order on evidence: a clause has no answer, or the same.  *)
Below(e, f) ==
    /\ e.source_actions = {} \/ e.source_actions = f.source_actions
    /\ e.destination_actions = {} \/ e.destination_actions = f.destination_actions
    /\ e.other_bundles_present = {} \/ e.other_bundles_present = f.other_bundles_present
    /\ e.source_is_send_to_self = {} \/ e.source_is_send_to_self = f.source_is_send_to_self
    /\ e.sole_destination_value = {} \/ e.sole_destination_value = f.sole_destination_value
    /\ e.expiry_is_canonical = {} \/ e.expiry_is_canonical = f.expiry_is_canonical
    /\ e.anchor_on_grid = f.anchor_on_grid
    /\ e.fee_is_canonical = f.fee_is_canonical

(* All that the wallet can ever learn of the transaction, once its answer   *)
(* to the send-to-self clause is sent.                                      *)
FullEvidence(sent) ==
    [source_actions |-> {tx.source_actions},
     destination_actions |-> {tx.destination_actions},
     other_bundles_present |-> {tx.other_bundles_present},
     source_is_send_to_self |-> sent,
     sole_destination_value |-> tx.sole_destination_value,
     expiry_is_canonical |-> {IsCanonicalExpiryValue(tx.expiry)},
     anchor_on_grid |-> AnchorAnswer, fee_is_canonical |-> FeeAnswer]

(* What the wallet has recorded: what is so, and of the send to self what   *)
(* one of its two sources could tell.                                       *)
Informed == Below(evidence, FullEvidence(evidence.source_is_send_to_self))

SendToSelfFromSource ==
    \/ evidence.source_is_send_to_self = {}
    \/ own /\ evidence.source_is_send_to_self = {PaysOnlyItself}
    \/ mined # NotMined /\ evidence.source_is_send_to_self = {ReceivesOnlyInternally}

(* The inductive invariant. *)
LabelsInv ==
    /\ TypeOK /\ tx \in Transactions
    /\ Informed /\ SendToSelfFromSource
    /\ code # 0 => code = ToCode(Classify(evidence))
    /\ cached # "Unknown" => cached = FromCode(code)

----------------------------------------------------------------------------
LEMMA LabelsTyped == ASSUME NEW e PROVE Classify(e) \in Labels
BY DEF Classify, ClassifyPreparation, ClassifyCrossing, Labels

(* The stored code of a label reads back as that label, and only Unknown is *)
(* stored as 0.                                                             *)
LEMMA CodesRoundTrip ==
    ASSUME NEW label \in Labels
    PROVE  /\ ToCode(label) \in 0 .. 3
           /\ FromCode(ToCode(label)) = label
           /\ ToCode(label) = 0 <=> label = "Unknown"
BY DEF Labels, ToCode, CodeOf, FromCode

(* classify is monotone: more evidence never changes a decision. *)
LEMMA ClassifyMonotone ==
    ASSUME NEW e, NEW f, Below(e, f), Classify(e) # "Unknown"
    PROVE  Classify(f) = Classify(e)
<1>1. Refuted(e) <=> Refuted(f)
    BY DEF Below, Refuted
<1>2. CASE Refuted(e)
    BY <1>1, <1>2 DEF Classify
<1>3. CASE ~Refuted(e)
    <2>1. ~Undecided(e)
        BY <1>3 DEF Classify
    <2>2. /\ e.source_actions = f.source_actions
          /\ e.destination_actions = f.destination_actions
          /\ e.other_bundles_present = f.other_bundles_present
          /\ e.expiry_is_canonical = f.expiry_is_canonical
          /\ ~Undecided(f)
        BY <2>1 DEF Undecided, Below
    <2>3. ClassifyPreparation(e) # "Unknown" => ClassifyPreparation(f) = ClassifyPreparation(e)
        BY <2>2 DEF ClassifyPreparation, Below
    <2>4. ClassifyCrossing(e) # "Unknown" => ClassifyCrossing(f) = ClassifyCrossing(e)
        BY <2>2 DEF ClassifyCrossing, Below
    <2> QED BY <1>1, <1>3, <2>1, <2>2, <2>3, <2>4 DEF Classify
<1> QED BY <1>2, <1>3

----------------------------------------------------------------------------
LEMMA LabelsInit == ASSUME Init PROVE LabelsInv
<1>1. tx \in Transaction
    BY LabelsAssumption DEF Init
<1>2. /\ AnchorAnswer \in Option(BOOLEAN) /\ FeeAnswer \in Option(BOOLEAN)
    <2>1. IsBoundary(tx.anchor) \in BOOLEAN /\ tx.fee_is_canonical \in BOOLEAN
        BY <1>1 DEF IsBoundary, Transaction
    <2> QED BY <2>1 DEF AnchorAnswer, FeeAnswer, Option
<1>3. evidence \in Zip318Evidence
    BY <1>2 DEF Init, NoEvidence, Zip318Evidence, Option
<1>4. Informed /\ SendToSelfFromSource
    BY DEF Init, NoEvidence, Informed, SendToSelfFromSource, Below, FullEvidence
<1> QED BY <1>1, <1>3, <1>4 DEF Init, LabelsInv, TypeOK, Labels

(* A clause that is learned takes the evidence up, and stays what its       *)
(* source could tell.                                                       *)
LEMMA EvidenceGrows ==
    ASSUME LabelsInv, ExpiryForm = "value",
           \/ WithSourceActions \/ WithDestinationActions \/ WithOtherBundlesPresent
           \/ WithSourceIsSendToSelf \/ WithSoleDestinationValue \/ WithExpiryIsCanonical
    PROVE  /\ Below(evidence, evidence')
           /\ Below(evidence', FullEvidence(evidence'.source_is_send_to_self))
           /\ \/ evidence'.source_is_send_to_self = evidence.source_is_send_to_self
              \/ evidence'.source_is_send_to_self = SendToSelfAnswer
           /\ evidence' \in Zip318Evidence
           /\ UNCHANGED <<fixed, mined, code, cached>>
<1> USE DEF LabelsInv
<1>1. /\ tx \in Transaction
      /\ evidence \in Zip318Evidence
      /\ Informed
    BY DEF TypeOK
<1>2. CASE WithSourceActions
    <2>1. {tx.source_actions} \in Option(Nat)
        BY <1>1 DEF Transaction, Option
    <2> QED BY <1>1, <1>2, <2>1 DEF WithSourceActions, Learn, Informed, Below, FullEvidence, Zip318Evidence
<1>3. CASE WithDestinationActions
    <2>1. {tx.destination_actions} \in Option(Nat)
        BY <1>1 DEF Transaction, Option
    <2> QED BY <1>1, <1>3, <2>1
            DEF WithDestinationActions, Learn, Informed, Below, FullEvidence, Zip318Evidence
<1>4. CASE WithOtherBundlesPresent
    <2>1. {tx.other_bundles_present} \in Option(BOOLEAN)
        BY <1>1 DEF Transaction, Option
    <2> QED BY <1>1, <1>4, <2>1
            DEF WithOtherBundlesPresent, Learn, Informed, Below, FullEvidence, Zip318Evidence
<1>5. CASE WithSourceIsSendToSelf
    <2>1. SendToSelfAnswer \in Option(BOOLEAN)
        BY DEF SendToSelfAnswer, PaysOnlyItself, ReceivesOnlyInternally, Option
    <2> QED BY <1>1, <1>5, <2>1
            DEF WithSourceIsSendToSelf, Learn, Informed, Below, FullEvidence, Zip318Evidence
<1>6. CASE WithSoleDestinationValue
    <2>1. tx.sole_destination_value \in Option(Nat)
        BY <1>1 DEF Transaction
    <2> QED BY <1>1, <1>6, <2>1
            DEF WithSoleDestinationValue, Learn, Informed, Below, FullEvidence, Zip318Evidence
<1>7. CASE WithExpiryIsCanonical
    <2>1. ExpiryAnswer = {IsCanonicalExpiryValue(tx.expiry)}
        BY DEF ExpiryAnswer
    <2>2. {IsCanonicalExpiryValue(tx.expiry)} \in Option(BOOLEAN)
        BY DEF IsCanonicalExpiryValue, Option
    <2> QED BY <1>1, <1>7, <2>1, <2>2
            DEF WithExpiryIsCanonical, Learn, Informed, Below, FullEvidence, Zip318Evidence
<1> QED BY <1>2, <1>3, <1>4, <1>5, <1>6, <1>7

(* What is recorded does not depend on the label, and a transaction that is *)
(* mined stays mined.                                                       *)
LEMMA EvidenceKept ==
    ASSUME LabelsInv, UNCHANGED <<fixed, evidence>>, mined = NotMined \/ mined' = mined
    PROVE  Informed' /\ SendToSelfFromSource'
<1>1. UNCHANGED <<tx, capable, own, evidence>>
    BY DEF fixed
<1>2. Informed'
    BY <1>1 DEF LabelsInv, Informed, FullEvidence, AnchorAnswer, FeeAnswer
<1>3. SendToSelfFromSource'
    BY <1>1 DEF LabelsInv, SendToSelfFromSource, PaysOnlyItself, ReceivesOnlyInternally
<1> QED BY <1>2, <1>3

LEMMA LabelsStep ==
    ASSUME LabelsInv, [Next]_vars, ExpiryForm = "value"
    PROVE  LabelsInv'
<1> DEFINE Learns == \/ WithSourceActions \/ WithDestinationActions \/ WithOtherBundlesPresent
                     \/ WithSourceIsSendToSelf \/ WithSoleDestinationValue
                     \/ WithExpiryIsCanonical
<1>1. CASE Learns
    <2>1. /\ Below(evidence, evidence')
          /\ Below(evidence', FullEvidence(evidence'.source_is_send_to_self))
          /\ \/ evidence'.source_is_send_to_self = evidence.source_is_send_to_self
             \/ evidence'.source_is_send_to_self = SendToSelfAnswer
          /\ evidence' \in Zip318Evidence
          /\ UNCHANGED <<fixed, mined, code, cached>>
        BY <1>1, EvidenceGrows
    <2>2. Informed' /\ SendToSelfFromSource'
        <3>1. UNCHANGED <<tx, capable, own, mined>>
            BY <2>1 DEF fixed
        <3>2. Informed'
            BY <2>1, <3>1 DEF Informed, FullEvidence, AnchorAnswer, FeeAnswer
        <3>3. SendToSelfFromSource'
            BY <2>1, <3>1 DEF LabelsInv, SendToSelfFromSource, SendToSelfAnswer, PaysOnlyItself,
                              ReceivesOnlyInternally
        <3> QED BY <3>2, <3>3
    <2>3. (code # 0 => code = ToCode(Classify(evidence)))'
        <3>1. ASSUME code # 0 PROVE code = ToCode(Classify(evidence'))
            <4>1. Classify(evidence) # "Unknown"
                BY <3>1, LabelsTyped, CodesRoundTrip DEF LabelsInv
            <4>2. Classify(evidence') = Classify(evidence)
                BY <2>1, <4>1, ClassifyMonotone
            <4> QED BY <3>1, <4>2 DEF LabelsInv
        <3> QED BY <2>1, <3>1
    <2>4. /\ TypeOK' /\ (tx \in Transactions)'
          /\ (cached # "Unknown" => cached = FromCode(code))'
        BY <2>1 DEF LabelsInv, TypeOK, fixed
    <2> QED BY <2>2, <2>3, <2>4 DEF LabelsInv
<1>2. ASSUME NEW h \in MinedHeights, Mine(h) PROVE LabelsInv'
    <2>1. UNCHANGED <<fixed, evidence, code, cached>> /\ mined' = h /\ h \in Heights
        BY <1>2, LabelsAssumption DEF Mine
    <2>2. TypeOK' /\ (tx \in Transactions)'
        BY <2>1 DEF LabelsInv, TypeOK, fixed
    <2>3. Informed' /\ SendToSelfFromSource'
        BY <1>2, <2>1, EvidenceKept DEF Mine
    <2> QED BY <2>1, <2>2, <2>3 DEF LabelsInv
<1>3. CASE StoreLabel
    <2>1. /\ code' = ToCode(Classify(evidence))
          /\ UNCHANGED <<fixed, mined, evidence, cached>>
        BY <1>3 DEF StoreLabel
    <2>2. code' \in 0 .. 3
        BY <2>1, LabelsTyped, CodesRoundTrip
    <2>3. TypeOK' /\ (tx \in Transactions)'
        BY <2>1, <2>2 DEF LabelsInv, TypeOK, fixed
    <2>4. Informed' /\ SendToSelfFromSource'
        BY <2>1, EvidenceKept
    <2>5. cached # "Unknown" => code' = code
        <3>1. ASSUME cached # "Unknown" PROVE code # 0
            BY <3>1 DEF LabelsInv, FromCode
        <3> QED BY <2>1, <3>1 DEF LabelsInv
    <2> QED BY <2>1, <2>3, <2>4, <2>5 DEF LabelsInv
<1>4. CASE ReadLabel
    <2>1. /\ cached' = FromCode(code)
          /\ UNCHANGED <<fixed, mined, evidence, code>>
        BY <1>4 DEF ReadLabel
    <2>2. FromCode(code) \in Labels
        BY DEF FromCode, Labels
    <2>3. TypeOK' /\ (tx \in Transactions)'
        BY <2>1, <2>2 DEF LabelsInv, TypeOK, fixed
    <2>4. Informed' /\ SendToSelfFromSource'
        BY <2>1, EvidenceKept
    <2> QED BY <2>1, <2>3, <2>4 DEF LabelsInv
<1>5. CASE UNCHANGED vars
    <2>1. UNCHANGED <<fixed, mined, evidence, code, cached>>
        BY <1>5 DEF vars, fixed
    <2>2. Informed' /\ SendToSelfFromSource'
        BY <2>1, EvidenceKept
    <2>3. TypeOK' /\ (tx \in Transactions)'
        BY <2>1 DEF LabelsInv, TypeOK, fixed
    <2> QED BY <2>1, <2>2, <2>3 DEF LabelsInv
<1> QED BY <1>1, <1>2, <1>3, <1>4, <1>5 DEF Next

(* In every state that the invariant describes, the three promises hold. *)
LEMMA StoredLabelIsCurrent ==
    ASSUME LabelsInv, FromCode(code) # "Unknown"
    PROVE  FromCode(code) = Classify(evidence)
<1>1. code # 0
    BY DEF FromCode
<1> QED BY <1>1, LabelsTyped, CodesRoundTrip DEF LabelsInv

LEMMA LabelsStand == ASSUME LabelsInv PROVE CachedLabelStands
BY DEF LabelsInv, CachedLabelStands

LEMMA LabelsJustified ==
    ASSUME LabelsInv, ExpiryForm = "value"
    PROVE  ConformsUpToLookAlikes
<1>1. SUFFICES ASSUME FromCode(code) \in {"Preparation", "Transfer"}
               PROVE  ConformsUpToLookAlikes
    BY DEF ConformsUpToLookAlikes
<1>2. Classify(evidence) = FromCode(code)
    BY <1>1, StoredLabelIsCurrent
<1>3. tx \in Transaction /\ Informed
    BY DEF LabelsInv, TypeOK
<1>4. ~Refuted(evidence) /\ ~Undecided(evidence)
    BY <1>1, <1>2 DEF Classify
<1>5. Confirmed
    BY <1>3, <1>4 DEF Confirmed, Refuted, Informed, Below, FullEvidence
<1>6. /\ evidence.source_actions = {tx.source_actions}
      /\ evidence.destination_actions = {tx.destination_actions}
      /\ evidence.other_bundles_present = {tx.other_bundles_present}
      /\ evidence.expiry_is_canonical = {IsCanonicalExpiryValue(tx.expiry)}
    BY <1>3, <1>4 DEF Undecided, Informed, Below, FullEvidence
<1>7. /\ evidence.other_bundles_present # {TRUE}
      /\ evidence.expiry_is_canonical # {FALSE}
    BY <1>1, <1>2, <1>4 DEF Classify
<1>8. ~tx.other_bundles_present
    BY <1>3, <1>6, <1>7 DEF Transaction
<1>9. {TRUE} = ExpiryAnswer
    <2>1. IsCanonicalExpiryValue(tx.expiry) \in BOOLEAN
        BY DEF IsCanonicalExpiryValue
    <2>2. IsCanonicalExpiryValue(tx.expiry) = TRUE
        BY <1>6, <1>7, <2>1
    <2> QED BY <2>2 DEF ExpiryAnswer
<1>10. ASSUME FromCode(code) = "Preparation"
       PROVE  /\ PreparationLayout
              /\ PaysOnlyItself \/ (mined # NotMined /\ ReceivesOnlyInternally)
    <2>1. ClassifyPreparation(evidence) = "Preparation" /\ evidence.destination_actions = {0}
        BY <1>2, <1>4, <1>7, <1>10 DEF Classify, ClassifyCrossing
    <2>2. /\ evidence.source_actions = {PREP_TX_ACTIONS}
          /\ evidence.source_is_send_to_self = {TRUE}
        BY <2>1 DEF ClassifyPreparation
    <2>3. PaysOnlyItself \/ (mined # NotMined /\ ReceivesOnlyInternally)
        BY <2>2 DEF LabelsInv, SendToSelfFromSource, PaysOnlyItself, ReceivesOnlyInternally
    <2> QED BY <1>6, <1>8, <2>1, <2>2, <2>3 DEF PreparationLayout
<1>11. ASSUME FromCode(code) = "Transfer" PROVE TransferShape
    <2>1. /\ ClassifyCrossing(evidence) = "Transfer"
          /\ evidence.destination_actions = {CROSSING_DESTINATION_ACTIONS}
        BY <1>2, <1>4, <1>7, <1>11 DEF Classify, ClassifyPreparation
    <2>2. /\ evidence.source_actions = {CROSSING_SOURCE_ACTIONS}
          /\ evidence.sole_destination_value # {}
          /\ \A value \in evidence.sole_destination_value : IsCanonicalDenomination(value)
        BY <2>1 DEF ClassifyCrossing
    <2>3. evidence.sole_destination_value = tx.sole_destination_value
        BY <1>3, <2>2 DEF Informed, Below, FullEvidence
    <2> QED BY <1>6, <1>8, <2>1, <2>2, <2>3 DEF TransferShape
<1> QED BY <1>5, <1>9, <1>10, <1>11 DEF ConformsUpToLookAlikes

----------------------------------------------------------------------------
(* The parameters under which the height-independent test is right: the     *)
(* window is a whole number of moduli, as it is in the specified ones.      *)
WholeWindow == \E k \in Nat : EXPIRY_WINDOW = k * EXPIRY_MODULUS

LEMMA MultiplesOfTheModulus ==
    ASSUME NEW m \in Nat \ {0}, NEW q \in Nat PROVE (q * m) % m = 0
OBVIOUS

LEMMA RoundedDown ==
    ASSUME NEW m \in Nat \ {0}, NEW h \in Nat
    PROVE  \E q \in Nat : h - (h % m) = q * m
OBVIOUS

LEMMA ValueFormAdmitsCanonical ==
    ASSUME WholeWindow, tx \in Transaction, ~ExpirySaturates
    PROVE  IsCanonicalExpiryValue(CanonicalExpiry(tx.target))
<1> DEFINE h == tx.target
<1>1. h \in Nat /\ ~(h - (h % EXPIRY_MODULUS) + EXPIRY_WINDOW > MaxHeight)
    BY ParametersAssumption DEF ExpirySaturates, Transaction, Heights
<1>2. PICK k \in Nat : EXPIRY_WINDOW = k * EXPIRY_MODULUS
    BY DEF WholeWindow
<1> HIDE DEF h
<1>3. PICK q \in Nat : h - (h % EXPIRY_MODULUS) = q * EXPIRY_MODULUS
    BY <1>1, RoundedDown, ParametersAssumption
<1>4. q * EXPIRY_MODULUS \in Nat /\ q * EXPIRY_MODULUS <= h
    BY <1>1, <1>3, ParametersAssumption
<1>5. CanonicalExpiry(h) = q * EXPIRY_MODULUS + EXPIRY_WINDOW
    BY <1>1, <1>3, <1>4, ParametersAssumption DEF CanonicalExpiry, HeightAdd
<1>6. q * EXPIRY_MODULUS + EXPIRY_WINDOW = (q + k) * EXPIRY_MODULUS
    BY <1>2, <1>4, ParametersAssumption
<1>7. CanonicalExpiry(h) % EXPIRY_MODULUS = 0
    <2>1. q + k \in Nat /\ EXPIRY_MODULUS \in Nat \ {0}
        BY ParametersAssumption
    <2>2. ((q + k) * EXPIRY_MODULUS) % EXPIRY_MODULUS = 0
        BY <2>1, MultiplesOfTheModulus
    <2> QED BY <1>5, <1>6, <2>2
<1>8. CanonicalExpiry(h) >= EXPIRY_WINDOW
    BY <1>4, <1>5, ParametersAssumption
<1> QED BY <1>7, <1>8 DEF IsCanonicalExpiryValue, h

LEMMA CanonicalNeverRefused ==
    ASSUME LabelsInv, WholeWindow
    PROVE  NoFalseNegatives
<1>1. SUFFICES ASSUME StrictlyCanonical, ~ExpirySaturates,
                      FromCode(code) = "Nonconforming"
               PROVE  FALSE
    BY DEF NoFalseNegatives
<1>2. Classify(evidence) = "Nonconforming"
    BY <1>1, StoredLabelIsCurrent
<1>3. tx \in Transactions /\ tx \in Transaction /\ Informed
    BY DEF LabelsInv, TypeOK
<1>4. IsCanonicalExpiryValue(tx.expiry) = TRUE
    <2>1. tx.expiry = CanonicalExpiry(tx.target)
        BY <1>1 DEF StrictlyCanonical, IsCanonicalExpiry
    <2>2. IsCanonicalExpiryValue(tx.expiry)
        BY <1>1, <1>3, <2>1, ValueFormAdmitsCanonical
    <2> QED BY <2>2 DEF IsCanonicalExpiryValue
<1>5. ~Refuted(evidence)
    <2>1. IsBoundary(tx.anchor) = TRUE /\ tx.fee_is_canonical = TRUE
        BY <1>1, <1>3 DEF StrictlyCanonical, IsBoundary, Transaction
    <2> QED BY <1>3, <2>1 DEF Refuted, Informed, Below, FullEvidence, AnchorAnswer, FeeAnswer
<1>6. ~Undecided(evidence)
    BY <1>2, <1>5 DEF Classify
<1>7. /\ evidence.source_actions = {tx.source_actions}
      /\ evidence.destination_actions = {tx.destination_actions}
      /\ evidence.other_bundles_present = {tx.other_bundles_present}
      /\ evidence.expiry_is_canonical = {IsCanonicalExpiryValue(tx.expiry)}
    BY <1>3, <1>6 DEF Undecided, Informed, Below, FullEvidence
<1>8. ~tx.other_bundles_present
    BY <1>1 DEF StrictlyCanonical, PreparationShape, PreparationLayout, TransferShape
<1>9. evidence.other_bundles_present # {TRUE} /\ evidence.expiry_is_canonical # {FALSE}
    BY <1>3, <1>4, <1>7, <1>8 DEF Transaction
<1>10. CASE PreparationShape
    <2>1. ClassifyPreparation(evidence) = "Nonconforming"
        BY <1>2, <1>5, <1>6, <1>7, <1>9, <1>10 DEF Classify, PreparationShape, PreparationLayout
    <2>2. PaysOnlyItself = TRUE /\ ReceivesOnlyInternally = TRUE
        BY <1>10 DEF PreparationShape, PaysOnlyItself, ReceivesOnlyInternally
    <2>3. evidence.source_is_send_to_self = {} \/ evidence.source_is_send_to_self = {TRUE}
        BY <2>2 DEF LabelsInv, SendToSelfFromSource
    <2> QED BY <1>7, <1>10, <2>1, <2>3
            DEF ClassifyPreparation, PreparationShape, PreparationLayout
<1>11. CASE TransferShape
    <2>1. ClassifyCrossing(evidence) = "Nonconforming"
        <3>1. evidence.destination_actions = {CROSSING_DESTINATION_ACTIONS}
            BY <1>7, <1>11 DEF TransferShape
        <3>2. evidence.destination_actions # {0}
            BY <3>1 DEF CROSSING_DESTINATION_ACTIONS
        <3> QED BY <1>2, <1>5, <1>6, <1>9, <3>1, <3>2 DEF Classify
    <2>2. PICK value \in tx.sole_destination_value : IsCanonicalDenomination(value)
        BY <1>11 DEF TransferShape
    <2>3. \A v \in tx.sole_destination_value : v = value
        BY <1>3, <2>2 DEF Transaction, Option
    <2>4. evidence.sole_destination_value = {}
          \/ \A v \in evidence.sole_destination_value : IsCanonicalDenomination(v)
        BY <1>3, <2>2, <2>3 DEF Informed, Below, FullEvidence
    <2> QED BY <1>7, <1>11, <2>1, <2>4 DEF ClassifyCrossing, TransferShape
<1> QED BY <1>1, <1>10, <1>11 DEF StrictlyCanonical

----------------------------------------------------------------------------
(* Every state of a wallet that judges expiries by their value is well      *)
(* typed: what with_* record and what to_code stores stay in their types.   *)
THEOREM LabelsTypeCorrect ==
    ASSUME ExpiryForm = "value" PROVE Spec => []TypeOK
<1>1. Init => LabelsInv
    BY LabelsInit
<1>2. LabelsInv /\ [Next]_vars => LabelsInv'
    BY LabelsStep
<1>3. LabelsInv => TypeOK
    BY DEF LabelsInv
<1> QED BY <1>1, <1>2, <1>3, PTL DEF Spec

(* A label that a consumer has cached is never contradicted by the stored   *)
(* one, in whatever order the clauses of the evidence arrive: classify is   *)
(* monotone, for every value of the ZIP 318 parameters.                     *)
THEOREM LabelStability ==
    ASSUME ExpiryForm = "value" PROVE Spec => []CachedLabelStands
<1>1. Init => LabelsInv
    BY LabelsInit
<1>2. LabelsInv /\ [Next]_vars => LabelsInv'
    BY LabelsStep
<1>3. LabelsInv => CachedLabelStands
    BY LabelsStand
<1> QED BY <1>1, <1>2, <1>3, PTL DEF Spec

(* A conforming label is stored only for a transaction that has the shape,  *)
(* up to the look-alikes of a mined preparation that pay somebody else.     *)
THEOREM LabelSoundness ==
    ASSUME ExpiryForm = "value" PROVE Spec => []ConformsUpToLookAlikes
<1>1. Init => LabelsInv
    BY LabelsInit
<1>2. LabelsInv /\ [Next]_vars => LabelsInv'
    BY LabelsStep
<1>3. LabelsInv => ConformsUpToLookAlikes
    BY LabelsJustified
<1> QED BY <1>1, <1>2, <1>3, PTL DEF Spec

(* No strictly canonical transaction whose expiry is not clamped to the     *)
(* last height is labelled Nonconforming, provided that the window is a     *)
(* whole number of moduli.                                                  *)
THEOREM LabelCompleteness ==
    ASSUME ExpiryForm = "value", WholeWindow PROVE Spec => []NoFalseNegatives
<1>1. Init => LabelsInv
    BY LabelsInit
<1>2. LabelsInv /\ [Next]_vars => LabelsInv'
    BY LabelsStep
<1>3. LabelsInv => NoFalseNegatives
    BY CanonicalNeverRefused
<1> QED BY <1>1, <1>2, <1>3, PTL DEF Spec

----------------------------------------------------------------------------
(* Induction and recursion over the natural numbers, for sets and functions. *)

LEMMA LeastNumber ==
    ASSUME NEW S, S \subseteq Nat, S # {}
    PROVE  \E n \in S : \A m \in S : n <= m
<1>1. PICK n \in S : \A m \in S : <<m, n>> \notin OpToRel(<, Nat)
    BY NatLessThanWellFounded, WFMin
<1>2. \A m \in S : ~(m < n)
    <2> SUFFICES ASSUME NEW m \in S, m < n PROVE FALSE
        OBVIOUS
    <2>1. m \in Nat /\ n \in Nat
        OBVIOUS
    <2>2. <<m, n>> \in OpToRel(<, Nat)
        BY <2>1 DEF OpToRel
    <2> QED BY <1>1, <2>2
<1>3. \A m \in S : m \in Nat /\ n \in Nat
    OBVIOUS
<1> QED BY <1>2, <1>3

LEMMA Induction ==
    ASSUME NEW S, 0 \in S, \A n \in Nat : n \in S => n + 1 \in S
    PROVE  Nat \subseteq S
<1> DEFINE T == Nat \ S
<1> SUFFICES ASSUME T # {} PROVE FALSE
    OBVIOUS
<1>1. PICK n \in T : \A m \in T : n <= m
    BY LeastNumber
<1>2. n \in Nat /\ n # 0
    OBVIOUS
<1>3. n - 1 \in Nat /\ ~(n <= n - 1) /\ (n - 1) + 1 = n
    BY <1>2
<1>4. n - 1 \in S
    BY <1>1, <1>3
<1> QED BY <1>3, <1>4

(* A functional of which the value at n depends on what is below n only. *)
Causal(H, V) ==
    /\ H \in [Nat -> [[Nat -> V] -> V]]
    /\ \A n \in Nat : \A f, g \in [Nat -> V] :
          (\A k \in Nat : k < n => f[k] = g[k]) => H[n][f] = H[n][g]

Solves(f, H, V) == f \in [Nat -> V] /\ \A n \in Nat : f[n] = H[n][f]

LEMMA Recursion ==
    ASSUME NEW V, NEW H, V # {}, Causal(H, V)
    PROVE  \E f : Solves(f, H, V)
<1> DEFINE Good(d, f) == \A n \in Nat : n < d => f[n] = H[n][f]
           S == {d \in Nat : \E f \in [Nat -> V] : Good(d, f)}
<1>0. \A n \in Nat : \A f \in [Nat -> V] : H[n][f] \in V
    BY DEF Causal
<1>1. 0 \in S
    <2>1. PICK v \in V : TRUE
        OBVIOUS
    <2>2. [n \in Nat |-> v] \in [Nat -> V]
        OBVIOUS
    <2>3. Good(0, [n \in Nat |-> v])
        OBVIOUS
    <2> HIDE DEF Good
    <2> QED BY <2>2, <2>3
<1>2. ASSUME NEW d \in Nat, d \in S PROVE d + 1 \in S
    <2>1. PICK f \in [Nat -> V] : Good(d, f)
        BY <1>2
    <2> DEFINE g == [f EXCEPT ![d] = H[d][f]]
    <2>2. g \in [Nat -> V] /\ g[d] = H[d][f] /\ \A k \in Nat : k # d => g[k] = f[k]
        BY <1>0
    <2> HIDE DEF g
    <2>3. ASSUME NEW n \in Nat, n < d + 1 PROVE g[n] = H[n][g]
        <3>1. \A k \in Nat : k < n => f[k] = g[k]
            BY <2>2, <2>3
        <3>2. H[n][f] = H[n][g]
            BY <2>2, <3>1 DEF Causal
        <3>3. CASE n = d
            BY <2>2, <3>2, <3>3
        <3>4. CASE n # d
            <4>1. n < d
                BY <2>3, <3>4
            <4> QED BY <2>1, <2>2, <3>2, <3>4, <4>1
        <3> QED BY <3>3, <3>4
    <2>4. Good(d + 1, g)
        BY <2>3
    <2> HIDE DEF Good
    <2> QED BY <2>2, <2>4
<1>3. \A d \in Nat : \E f \in [Nat -> V] : Good(d, f)
    <2>1. Nat \subseteq S
        <3> HIDE DEF S
        <3> QED BY <1>1, <1>2, Induction
    <2> QED BY <2>1
<1>4. ASSUME NEW d \in Nat, NEW f \in [Nat -> V], NEW g \in [Nat -> V], Good(d, f), Good(d, g),
             NEW n \in Nat, n < d
      PROVE  f[n] = g[n]
    <2> DEFINE T == {k \in Nat : k < d /\ f[k] # g[k]}
    <2> SUFFICES ASSUME T # {} PROVE FALSE
        BY <1>4
    <2>1. PICK k \in T : \A m \in T : k <= m
        <3>1. T \subseteq Nat
            OBVIOUS
        <3> HIDE DEF T
        <3> QED BY <3>1, LeastNumber
    <2>2. \A m \in Nat : m < k => f[m] = g[m]
        BY <2>1
    <2>3. H[k][f] = H[k][g]
        BY <2>2 DEF Causal
    <2> QED BY <1>4, <2>3
<1> DEFINE pick(n) == CHOOSE f \in [Nat -> V] : Good(n + 1, f)
           F == [n \in Nat |-> pick(n)[n]]
<1>5. \A n \in Nat : pick(n) \in [Nat -> V] /\ Good(n + 1, pick(n))
    <2> SUFFICES ASSUME NEW n \in Nat PROVE pick(n) \in [Nat -> V] /\ Good(n + 1, pick(n))
        OBVIOUS
    <2> HIDE DEF Good
    <2>1. n + 1 \in Nat
        OBVIOUS
    <2>2. \E f \in [Nat -> V] : Good(n + 1, f)
        BY <1>3, <2>1
    <2> QED BY <2>2
<1> HIDE DEF pick
<1>6. F \in [Nat -> V]
    BY <1>5
<1>7. ASSUME NEW n \in Nat PROVE F[n] = H[n][F]
    <2>1. \A k \in Nat : k < n => F[k] = pick(n)[k]
        <3> SUFFICES ASSUME NEW k \in Nat, k < n PROVE pick(k)[k] = pick(n)[k]
            OBVIOUS
        <3>1. Good(k + 1, pick(k)) /\ Good(k + 1, pick(n)) /\ k + 1 \in Nat /\ k < k + 1
            BY <1>5
        <3> HIDE DEF Good
        <3> QED BY <1>4, <1>5, <3>1
    <2>2. pick(n)[n] = H[n][pick(n)]
        BY <1>5
    <2>3. F[n] = pick(n)[n]
        OBVIOUS
    <2> HIDE DEF F
    <2>4. H[n][pick(n)] = H[n][F]
        BY <1>5, <1>6, <2>1 DEF Causal
    <2> QED BY <2>2, <2>3, <2>4
<1> HIDE DEF F
<1> QED BY <1>6, <1>7 DEF Solves

----------------------------------------------------------------------------
(* The recursive functions of the model.                                    *)

(* Power is what its definition says. *)
LEMMA PowerDef ==
    /\ Power \in [Nat -> Nat] /\ Power[0] = 1
    /\ \A k \in Nat : Power[k + 1] = 10 * Power[k]
<1> DEFINE H == [n \in Nat |-> [f \in [Nat -> Nat] |->
                    IF n = 0 THEN 1 ELSE DENOMINATION_RADIX * f[n - 1]]]
<1>1. H \in [Nat -> [[Nat -> Nat] -> Nat]]
    BY DEF DENOMINATION_RADIX
<1>2. \A n \in Nat : \A f \in [Nat -> Nat] :
        H[n][f] = IF n = 0 THEN 1 ELSE DENOMINATION_RADIX * f[n - 1]
    OBVIOUS
<1> HIDE DEF H
<1>3. Causal(H, Nat)
    <2>1. ASSUME NEW n \in Nat, NEW f \in [Nat -> Nat], NEW g \in [Nat -> Nat],
                 \A k \in Nat : k < n => f[k] = g[k]
          PROVE  H[n][f] = H[n][g]
        <3>1. n # 0 => n - 1 \in Nat /\ n - 1 < n
            OBVIOUS
        <3> QED BY <1>2, <2>1, <3>1
    <2> QED BY <1>1, <2>1 DEF Causal
<1>4. PICK f : Solves(f, H, Nat)
    <2>1. 0 \in Nat
        OBVIOUS
    <2>2. Nat # {}
        BY <2>1
    <2> QED BY <1>3, <2>2, Recursion
<1>5. f = [n \in Nat |-> IF n = 0 THEN 1 ELSE DENOMINATION_RADIX * f[n - 1]]
    BY <1>2, <1>4 DEF Solves
<1>6. Power = [n \in Nat |-> IF n = 0 THEN 1 ELSE DENOMINATION_RADIX * Power[n - 1]]
    BY <1>5 DEF Power
<1>7. Power[0] = 1 /\ \A n \in Nat : n # 0 => Power[n] = 10 * Power[n - 1]
    BY <1>6 DEF DENOMINATION_RADIX
<1>8. \A n \in Nat : Power[n + 1] = 10 * Power[n]
    <2> SUFFICES ASSUME NEW n \in Nat PROVE Power[n + 1] = 10 * Power[n]
        OBVIOUS
    <2>1. n + 1 \in Nat /\ n + 1 # 0 /\ (n + 1) - 1 = n
        OBVIOUS
    <2> QED BY <1>7, <2>1
<1> DEFINE S == {n \in Nat : Power[n] \in Nat}
<1>9. Nat \subseteq S
    <2>1. 0 \in S /\ \A n \in Nat : n \in S => n + 1 \in S
        BY <1>7, <1>8
    <2> HIDE DEF S
    <2> QED BY <2>1, Induction
<1>10. Power \in [Nat -> Nat]
    BY <1>6, <1>9
<1> QED BY <1>7, <1>8, <1>10

LEMMA StripDef ==
    \A n \in Nat : StripRadix[n] = IF n > 0 /\ n % 10 = 0 THEN StripRadix[n \div 10] ELSE n
<1> DEFINE H == [n \in Nat |-> [f \in [Nat -> Nat] |->
                    IF n > 0 /\ n % DENOMINATION_RADIX = 0
                    THEN f[n \div DENOMINATION_RADIX] ELSE n]]
<1>1. \A n \in Nat : n \div 10 \in Nat /\ (n > 0 => n \div 10 < n)
    OBVIOUS
<1>2. \A n \in Nat : \A f \in [Nat -> Nat] :
        H[n][f] = IF n > 0 /\ n % DENOMINATION_RADIX = 0 THEN f[n \div DENOMINATION_RADIX] ELSE n
    OBVIOUS
<1>3. H \in [Nat -> [[Nat -> Nat] -> Nat]]
    BY <1>1 DEF DENOMINATION_RADIX
<1> HIDE DEF H
<1>4. Causal(H, Nat)
    <2>1. ASSUME NEW n \in Nat, NEW f \in [Nat -> Nat], NEW g \in [Nat -> Nat],
                 \A k \in Nat : k < n => f[k] = g[k]
          PROVE  H[n][f] = H[n][g]
        BY <1>1, <1>2, <2>1 DEF DENOMINATION_RADIX
    <2> QED BY <1>3, <2>1 DEF Causal
<1>5. PICK f : Solves(f, H, Nat)
    <2>1. 0 \in Nat
        OBVIOUS
    <2>2. Nat # {}
        BY <2>1
    <2> QED BY <1>4, <2>2, Recursion
<1>6. f = [n \in Nat |-> IF n > 0 /\ n % DENOMINATION_RADIX = 0
                         THEN f[n \div DENOMINATION_RADIX] ELSE n]
    BY <1>2, <1>5 DEF Solves
<1>7. StripRadix = [n \in Nat |-> IF n > 0 /\ n % DENOMINATION_RADIX = 0
                                  THEN StripRadix[n \div DENOMINATION_RADIX] ELSE n]
    BY <1>6 DEF StripRadix
<1> QED BY <1>7 DEF DENOMINATION_RADIX

(* The loop of largest_one_two_five ends, and its result is its equation's. *)
LEMMA ClimbDef ==
    ASSUME NEW hi \in Nat, MaxU64 \in Nat
    PROVE  \A pow \in Nat \ {0} :
             LargestPower(hi, pow) = IF pow * 10 <= MaxU64 /\ pow * 10 <= hi
                                     THEN LargestPower(hi, pow * 10) ELSE pow
<1> DEFINE Fits(pow) == pow * DENOMINATION_RADIX <= MaxU64 /\ pow * DENOMINATION_RADIX <= hi
           Body(f) == [pow \in Nat |->
                          IF pow * DENOMINATION_RADIX <= MaxU64 /\ pow * DENOMINATION_RADIX <= hi
                          THEN f[pow * DENOMINATION_RADIX] ELSE pow]
           step(f, pow) == IF Fits(pow) THEN f[pow * 10] ELSE pow
           Good(d, f) == \A pow \in Nat : pow + d > hi => f[pow] = step(f, pow)
           S == {d \in Nat : \E f \in [Nat -> Nat] : Good(d, f)}
<1>r. DENOMINATION_RADIX = 10
    BY DEF DENOMINATION_RADIX
<1>1. 0 \in S
    <2>1. [pow \in Nat |-> pow] \in [Nat -> Nat] /\ Good(0, [pow \in Nat |-> pow])
        BY <1>r
    <2> HIDE DEF Good
    <2> QED BY <2>1
<1>2. ASSUME NEW d \in Nat, d \in S, d < hi PROVE d + 1 \in S
    <2>1. PICK f \in [Nat -> Nat] : Good(d, f)
        BY <1>2
    <2> DEFINE p == hi - d
               g == [f EXCEPT ![p] = step(f, p)]
    <2>2. p \in Nat /\ p > 0 /\ p * 10 > p
        BY <1>2
    <2>3. g \in [Nat -> Nat] /\ g[p] = step(f, p) /\ \A k \in Nat : k # p => g[k] = f[k]
        BY <2>2
    <2> HIDE DEF g
    <2>4. ASSUME NEW pow \in Nat, pow + (d + 1) > hi PROVE g[pow] = step(g, pow)
        <3>1. pow >= p /\ pow * 10 > p /\ pow * 10 \in Nat
            BY <2>2, <2>4
        <3>2. g[pow * 10] = f[pow * 10]
            BY <2>2, <2>3, <3>1
        <3>3. step(g, pow) = step(f, pow)
            BY <3>2
        <3>4. CASE pow = p
            BY <2>3, <3>3, <3>4
        <3>5. CASE pow # p
            <4>1. pow + d > hi
                BY <1>2, <3>1, <3>5
            <4>2. f[pow] = step(f, pow)
                BY <2>1, <4>1
            <4> QED BY <2>3, <3>3, <3>5, <4>2
        <3> QED BY <3>4, <3>5
    <2>5. Good(d + 1, g)
        BY <2>4
    <2> HIDE DEF Good
    <2> QED BY <2>3, <2>5
<1>3. hi \in S
    <2> DEFINE T == {d \in Nat : d <= hi => d \in S}
    <2>1. 0 \in T
        BY <1>1
    <2>2. ASSUME NEW d \in Nat, d \in T PROVE d + 1 \in T
        <3> HIDE DEF S
        <3>1. d + 1 <= hi => d < hi /\ d <= hi
            OBVIOUS
        <3> QED BY <1>2, <2>2, <3>1
    <2>3. Nat \subseteq T
        <3> HIDE DEF T
        <3> QED BY <2>1, <2>2, Induction
    <2> QED BY <2>3
<1>4. PICK f \in [Nat -> Nat] : Good(hi, f)
    BY <1>3
<1> DEFINE g == [f EXCEPT ![0] = 0]
<1>5. g \in [Nat -> Nat] /\ g[0] = 0 /\ \A k \in Nat : k # 0 => g[k] = f[k]
    OBVIOUS
<1> HIDE DEF g
<1>6. \A pow \in Nat : g[pow] = step(g, pow)
    <2> SUFFICES ASSUME NEW pow \in Nat PROVE g[pow] = step(g, pow)
        OBVIOUS
    <2>1. CASE pow = 0
        BY <1>5, <2>1
    <2>2. CASE pow # 0
        <3>1. pow + hi > hi /\ pow * 10 \in Nat /\ pow * 10 # 0
            BY <2>2
        <3>2. f[pow] = step(f, pow)
            BY <1>4, <3>1
        <3> QED BY <1>5, <2>2, <3>1, <3>2
    <2> QED BY <2>1, <2>2
<1>7. g = Body(g)
    BY <1>r, <1>5, <1>6
<1> DEFINE climb == CHOOSE c : c = Body(c)
<1>8. climb = Body(climb)
    <2> HIDE DEF Body
    <2> QED BY <1>7
<1>9. \A pow : LargestPower(hi, pow) = climb[pow]
    BY DEF LargestPower
<1> HIDE DEF climb
<1>10. \A pow \in Nat : climb[pow] = step(climb, pow)
    BY <1>r, <1>8
<1>11. \A pow \in Nat : pow * 10 \in Nat
    OBVIOUS
<1> QED BY <1>r, <1>9, <1>10, <1>11

----------------------------------------------------------------------------
(* Powers of the radix, and what stripping leaves of their multiples.       *)

Powers == {Power[k] : k \in Nat}

LEMMA PowersFacts ==
    /\ Powers \subseteq Nat \ {0}
    /\ \A p \in Powers : 10 * p \in Powers
<1> DEFINE S == {k \in Nat : Power[k] # 0}
<1>1. 0 \in S
    BY PowerDef
<1>2. \A k \in Nat : k \in S => k + 1 \in S
    BY PowerDef
<1>3. Nat \subseteq S
    <2> HIDE DEF S
    <2> QED BY <1>1, <1>2, Induction
<1>4. Powers \subseteq Nat \ {0}
    BY <1>3, PowerDef DEF Powers
<1>5. ASSUME NEW p \in Powers PROVE 10 * p \in Powers
    <2>1. PICK k \in Nat : p = Power[k]
        BY DEF Powers
    <2>2. k + 1 \in Nat /\ Power[k + 1] = 10 * p
        BY <2>1, PowerDef
    <2> QED BY <2>2 DEF Powers
<1> QED BY <1>4, <1>5

(* A larger power is at least ten times as large. *)
LEMMA PowersGrow ==
    ASSUME NEW i \in Nat, NEW j \in Nat, i < j
    PROVE  10 * Power[i] <= Power[j]
<1>1. ASSUME NEW k \in Nat PROVE \A d \in Nat : 10 * Power[k] <= Power[k + 1 + d]
    <2> DEFINE S == {d \in Nat : 10 * Power[k] <= Power[k + 1 + d]}
    <2>0. Power[k] \in Nat
        BY PowerDef
    <2>1. 0 \in S
        <3>1. k + 1 + 0 = k + 1 /\ Power[k + 1] = 10 * Power[k]
            BY PowerDef
        <3> QED BY <2>0, <3>1
    <2>2. ASSUME NEW d \in Nat, d \in S PROVE d + 1 \in S
        <3>1. k + 1 + d \in Nat /\ k + 1 + (d + 1) = (k + 1 + d) + 1
            OBVIOUS
        <3>2. Power[k + 1 + (d + 1)] = 10 * Power[k + 1 + d] /\ Power[k + 1 + d] \in Nat
            BY <3>1, PowerDef
        <3> QED BY <2>0, <2>2, <3>2
    <2>3. Nat \subseteq S
        <3> HIDE DEF S
        <3> QED BY <2>1, <2>2, Induction
    <2> QED BY <2>3
<1>2. j - (i + 1) \in Nat /\ i + 1 + (j - (i + 1)) = j
    OBVIOUS
<1> QED BY <1>1, <1>2

LEMMA PowersApart ==
    ASSUME NEW p \in Powers, NEW q \in Powers
    PROVE  p = q \/ 10 * p <= q \/ 10 * q <= p
<1>1. PICK k \in Nat, l \in Nat : p = Power[k] /\ q = Power[l]
    BY DEF Powers
<1>2. k < l \/ l < k \/ k = l
    OBVIOUS
<1> QED BY <1>1, <1>2, PowersGrow

LEMMA StripFacts ==
    ASSUME NEW m \in ONE_TWO_FIVE, NEW p \in Powers
    PROVE  StripRadix[m * p] = m
<1>1. m \in Nat /\ m > 0 /\ ~(m % 10 = 0)
    BY DEF ONE_TWO_FIVE
<1> DEFINE S == {k \in Nat : StripRadix[m * Power[k]] = m}
<1>2. 0 \in S
    <2>1. m * Power[0] = m
        BY <1>1, PowerDef
    <2> QED BY <1>1, <2>1, StripDef
<1>3. ASSUME NEW k \in Nat, k \in S PROVE k + 1 \in S
    <2> DEFINE n == m * Power[k]
    <2>1. Power[k] \in Nat \ {0}
        BY PowersFacts DEF Powers
    <2>2. n \in Nat /\ n > 0
        BY <1>1, <2>1
    <2>3. m * Power[k + 1] = 10 * n
        BY <1>1, <2>1, PowerDef
    <2> HIDE DEF n
    <2>4. 10 * n \in Nat /\ 10 * n > 0 /\ (10 * n) % 10 = 0 /\ (10 * n) \div 10 = n
        BY <2>2
    <2>5. StripRadix[10 * n] = StripRadix[n]
        BY <2>4, StripDef
    <2> QED BY <1>3, <2>3, <2>5 DEF n
<1>4. Nat \subseteq S
    <2> HIDE DEF S
    <2> QED BY <1>2, <1>3, Induction
<1> QED BY <1>4 DEF Powers

(* The loop climbs to the largest power that fits. *)
Climbed(hi, floor) ==
    LET pow == LargestPower(hi, floor)
    IN  pow \in Powers /\ floor <= pow /\ pow <= hi /\ 10 * pow > hi

LEMMA ClimbFacts ==
    ASSUME NEW hi \in Nat, MaxU64 \in Nat, hi <= MaxU64, NEW floor \in Powers, floor <= hi
    PROVE  Climbed(hi, floor)
<1> DEFINE S == {d \in Nat : \A p \in Powers : p <= hi /\ hi <= p + d => Climbed(hi, p)}
<1>1. Powers \subseteq Nat \ {0}
    BY PowersFacts
<1>2. ASSUME NEW p \in Powers, p <= hi, 10 * p > hi PROVE Climbed(hi, p)
    <2>1. p \in Nat \ {0} /\ p * 10 = 10 * p
        BY <1>1
    <2>2. LargestPower(hi, p) = p
        BY <1>2, <2>1, ClimbDef
    <2> QED BY <1>2, <2>1, <2>2 DEF Climbed
<1>3. 0 \in S
    <2> SUFFICES ASSUME NEW p \in Powers, p <= hi, hi <= p + 0 PROVE Climbed(hi, p)
        OBVIOUS
    <2>1. 10 * p > hi
        BY <1>1
    <2> QED BY <1>2, <2>1
<1>4. ASSUME NEW d \in Nat, d \in S PROVE d + 1 \in S
    <2> SUFFICES ASSUME NEW p \in Powers, p <= hi, hi <= p + (d + 1) PROVE Climbed(hi, p)
        OBVIOUS
    <2>1. p \in Nat \ {0} /\ p * 10 = 10 * p /\ 10 * p \in Powers
        BY <1>1, PowersFacts
    <2>2. CASE 10 * p > hi
        BY <1>2, <2>2
    <2>3. CASE 10 * p <= hi
        <3>1. hi <= 10 * p + d
            BY <2>1
        <3>2. Climbed(hi, 10 * p)
            BY <1>4, <2>1, <2>3, <3>1
        <3>3. LargestPower(hi, p) = LargestPower(hi, 10 * p)
            BY <2>1, <2>3, ClimbDef
        <3>4. LargestPower(hi, 10 * p) \in Nat
            BY <1>1, <3>2 DEF Climbed
        <3> QED BY <2>1, <3>2, <3>3, <3>4 DEF Climbed
    <2> QED BY <2>1, <2>2, <2>3
<1>5. Nat \subseteq S
    <2> HIDE DEF S
    <2> QED BY <1>3, <1>4, Induction
<1>6. hi \in S /\ hi <= floor + hi
    BY <1>1, <1>5
<1> QED BY <1>6

(* largest_one_two_five answers the largest multiple 1, 2 or 5 of a power    *)
(* of the radix that is at least the floor and at most hi.                   *)
LEMMA LargestFacts ==
    ASSUME NEW hi \in Nat, MaxU64 \in Nat, hi <= MaxU64, NEW floor \in Powers, floor <= hi
    PROVE  LET answer == LargestOneTwoFive(hi, floor)
           IN  /\ answer \in Nat /\ floor <= answer /\ answer <= hi
               /\ \E m \in ONE_TWO_FIVE, p \in Powers : answer = m * p
               /\ \A m \in ONE_TWO_FIVE, p \in Powers : m * p <= hi => m * p <= answer
<1> DEFINE pow == LargestPower(hi, floor)
           ms == Multiples(hi, pow)
           top == CHOOSE m \in ms : \A n \in ms : n <= m
           answer == LargestOneTwoFive(hi, floor)
<1>1. pow \in Powers /\ floor <= pow /\ pow <= hi /\ 10 * pow > hi
    BY ClimbFacts DEF Climbed
<1>2. pow \in Nat \ {0} /\ floor \in Nat \ {0}
    BY <1>1, PowersFacts
<1> HIDE DEF pow
<1>3. \A m \in ONE_TWO_FIVE : m \in ms <=> pow * m <= hi
    <2>1. \A m \in ONE_TWO_FIVE : pow * m \in Nat
        BY <1>2 DEF ONE_TWO_FIVE
    <2> QED BY <2>1 DEF Multiples
<1>4. ms \subseteq ONE_TWO_FIVE /\ 1 \in ms
    BY <1>1, <1>2, <1>3 DEF Multiples, ONE_TWO_FIVE
<1>5. \E m \in ms : \A n \in ms : n <= m
    <2> HIDE DEF ms
    <2>1. CASE 5 \in ms
        BY <1>4, <2>1 DEF ONE_TWO_FIVE
    <2>2. CASE 5 \notin ms /\ 2 \in ms
        BY <1>4, <2>2 DEF ONE_TWO_FIVE
    <2>3. CASE 5 \notin ms /\ 2 \notin ms
        BY <1>4, <2>3 DEF ONE_TWO_FIVE
    <2> QED BY <2>1, <2>2, <2>3
<1>6. top \in ms /\ \A n \in ms : n <= top
    BY <1>5
<1>7. answer = pow * top
    <2>1. ~(hi < floor)
        BY <1>2
    <2> QED BY <2>1 DEF LargestOneTwoFive, pow
<1> HIDE DEF ms, top, answer
<1>8. top \in ONE_TWO_FIVE /\ top \in Nat /\ top >= 1
    BY <1>4, <1>6 DEF ONE_TWO_FIVE
<1>9. /\ answer \in Nat /\ answer <= hi /\ pow <= answer /\ answer = top * pow
    <2>1. pow * top <= hi
        BY <1>3, <1>6, <1>8
    <2>2. pow * top = pow \/ pow * top = pow * 2 \/ pow * top = pow * 5
        BY <1>2, <1>8 DEF ONE_TWO_FIVE
    <2>3. pow * top = top * pow
        BY <1>2, <1>8
    <2> QED BY <1>2, <1>7, <2>1, <2>2, <2>3
<1>10. ASSUME NEW m \in ONE_TWO_FIVE, NEW p \in Powers, m * p <= hi PROVE m * p <= answer
    <2>1. p \in Nat \ {0}
        BY PowersFacts
    <2>2. p <= m * p /\ m * p <= 5 * p /\ m * p = p * m /\ m * p \in Nat
        BY <2>1 DEF ONE_TWO_FIVE
    <2>3. CASE p = pow
        <3>1. m \in ms
            BY <1>3, <1>10, <2>2, <2>3
        <3>2. m <= top
            BY <1>6, <3>1
        <3>3. pow * m <= pow * top
            BY <1>2, <1>8, <3>2 DEF ONE_TWO_FIVE
        <3> QED BY <1>7, <2>2, <2>3, <3>3
    <2>4. CASE 10 * p <= pow
        BY <1>2, <1>9, <2>1, <2>2, <2>4
    <2>5. CASE 10 * pow <= p
        BY <1>1, <1>2, <1>10, <2>1, <2>2, <2>5
    <2> QED BY <1>1, <2>3, <2>4, <2>5, PowersApart
<1>11. floor <= answer
    BY <1>1, <1>2, <1>9
<1>12. \E m \in ONE_TWO_FIVE, p \in Powers : answer = m * p
    BY <1>1, <1>8, <1>9
<1> QED BY <1>9, <1>10, <1>11, <1>12 DEF answer

----------------------------------------------------------------------------
(* The decomposition of a balance.                                          *)

MigrationInv ==
    /\ residual \in Nat /\ residual <= MaxU64
    /\ CrossingsAreCanonical

LEMMA FloorIsPower ==
    MAX_RESIDUAL_VALUE \in Powers /\ MAX_RESIDUAL_VALUE \in Nat \ {0}
BY MigrationAssumption, ParametersAssumption DEF Powers

LEMMA CrossingFacts ==
    ASSUME MigrationInv, Cross
    PROVE  /\ residual' \in Nat /\ residual' <= residual
           /\ CrossingsAreCanonical'
           /\ MAX_RESIDUAL_VALUE <= DENOM_CAP => residual' < residual
<1> DEFINE hi == IF residual < DENOM_CAP THEN residual ELSE DENOM_CAP
           answer == LargestOneTwoFive(hi, MAX_RESIDUAL_VALUE)
<1>1. /\ hi \in Nat /\ hi <= MaxU64 /\ hi <= residual /\ hi <= DENOM_CAP
      /\ MaxU64 \in Nat /\ DENOM_CAP \in Nat /\ residual \in Nat
      /\ residual >= MAX_RESIDUAL_VALUE
      /\ MAX_RESIDUAL_VALUE <= DENOM_CAP => MAX_RESIDUAL_VALUE <= hi
    BY ParametersAssumption DEF MigrationInv, Cross
<1>2. last' = answer /\ residual' = residual - answer
    BY DEF Cross, NextDenomination
<1> HIDE DEF hi
<1>3. CASE hi < MAX_RESIDUAL_VALUE
    <2>1. answer = 0
        BY <1>3 DEF LargestOneTwoFive
    <2>2. ~(MAX_RESIDUAL_VALUE <= DENOM_CAP)
        BY <1>1, <1>3, FloorIsPower
    <2> HIDE DEF answer
    <2> QED BY <1>1, <1>2, <2>1, <2>2 DEF CrossingsAreCanonical
<1>4. CASE ~(hi < MAX_RESIDUAL_VALUE)
    <2>1. MAX_RESIDUAL_VALUE <= hi
        BY <1>1, <1>4, FloorIsPower
    <2>2. /\ answer \in Nat /\ MAX_RESIDUAL_VALUE <= answer /\ answer <= hi
          /\ \E m \in ONE_TWO_FIVE, p \in Powers : answer = m * p
        BY <1>1, <2>1, FloorIsPower, LargestFacts
    <2> HIDE DEF answer
    <2>3. StripRadix[answer] \in ONE_TWO_FIVE
        BY <2>2, StripFacts
    <2>4. answer <= DENOM_CAP
        BY <1>1, <2>2
    <2>5. IsCanonicalDenomination(answer)
        BY <2>2, <2>3, <2>4 DEF IsCanonicalDenomination
    <2>6. residual - answer \in Nat /\ residual - answer < residual
        BY <1>1, <2>2, FloorIsPower
    <2> QED BY <1>1, <1>2, <2>5, <2>6 DEF CrossingsAreCanonical
<1> QED BY <1>3, <1>4

LEMMA MigrationInvariant == MigrationSpec => []MigrationInv
<1>1. MigrationInit => MigrationInv
    BY MigrationAssumption, ParametersAssumption
       DEF MigrationInit, MigrationInv, CrossingsAreCanonical
<1>2. ASSUME MigrationInv, [Cross]_migration PROVE MigrationInv'
    <2>1. CASE Cross
        <3>1. /\ residual' \in Nat /\ residual' <= residual /\ residual \in Nat
              /\ residual <= MaxU64 /\ MaxU64 \in Nat /\ CrossingsAreCanonical'
            BY <1>2, <2>1, CrossingFacts, ParametersAssumption DEF MigrationInv
        <3> QED BY <3>1 DEF MigrationInv
    <2>2. CASE UNCHANGED migration
        BY <1>2, <2>2 DEF migration, MigrationInv, CrossingsAreCanonical
    <2> QED BY <1>2, <2>1, <2>2
<1> QED BY <1>1, <1>2, PTL DEF MigrationSpec

(* For every balance, cap and floor, and every width of the integers: what  *)
(* the planner multiplies up from the floor, the classifier's division      *)
(* recognises.                                                              *)
THEOREM PlannerMeetsClassifier == MigrationSpec => []CrossingsAreCanonical
<1>1. MigrationInv => CrossingsAreCanonical
    BY DEF MigrationInv
<1> QED BY <1>1, MigrationInvariant, PTL

(* largest_one_two_five answers the largest denomination of the series that *)
(* the rest of the balance covers, for every rest that a decomposition      *)
(* meets, and 0 only where there is none.                                   *)
THEOREM GreedyStepIsLargest == MigrationSpec => []GreedyIsLargest
<1>1. ASSUME MigrationInv PROVE GreedyIsLargest
    <2> DEFINE fits == {d \in Series : MAX_RESIDUAL_VALUE <= d /\ d <= residual}
               answer == LargestOneTwoFive(residual, MAX_RESIDUAL_VALUE)
    <2>1. residual \in Nat /\ MaxU64 \in Nat /\ residual <= MaxU64
        BY <1>1, ParametersAssumption DEF MigrationInv
    <2>2. Series \subseteq Nat
        BY PowerDef, MigrationAssumption DEF Series, ONE_TWO_FIVE
    <2>3. CASE residual < MAX_RESIDUAL_VALUE
        <3>1. answer = 0
            BY <2>3 DEF LargestOneTwoFive
        <3>2. fits = {}
            <4> SUFFICES ASSUME NEW d \in Nat, MAX_RESIDUAL_VALUE <= d, d <= residual PROVE FALSE
                BY <2>2
            <4>1. MAX_RESIDUAL_VALUE \in Nat
                BY FloorIsPower
            <4> QED BY <2>1, <2>3, <4>1
        <3> QED BY <3>1, <3>2 DEF GreedyIsLargest
    <2>4. CASE ~(residual < MAX_RESIDUAL_VALUE)
        <3>1. MAX_RESIDUAL_VALUE <= residual
            BY <2>1, <2>4, FloorIsPower
        <3>2. /\ answer \in Nat /\ MAX_RESIDUAL_VALUE <= answer /\ answer <= residual
              /\ \E m \in ONE_TWO_FIVE, p \in Powers : answer = m * p
              /\ \A m \in ONE_TWO_FIVE, p \in Powers : m * p <= residual => m * p <= answer
            BY <2>1, <3>1, FloorIsPower, LargestFacts
        <3> HIDE DEF answer
        <3>3. answer \in Series
            <4>1. PICK m \in ONE_TWO_FIVE, k \in Nat : answer = m * Power[k]
                BY <3>2 DEF Powers
            <4>2. Power[k] \in Nat /\ Power[k] <= answer
                <5>1. Power[k] \in Nat
                    BY PowerDef
                <5> QED BY <4>1, <5>1 DEF ONE_TWO_FIVE
            <4>3. k <= MaxDigits
                <5>1. MaxDigits \in Nat /\ Power[MaxDigits] > MaxU64 /\ Power[MaxDigits] \in Nat
                    BY MigrationAssumption, PowerDef
                <5>2. MaxDigits < k => 10 * Power[MaxDigits] <= Power[k]
                    BY <5>1, PowersGrow
                <5> QED BY <2>1, <3>2, <4>2, <5>1, <5>2
            <4>4. k \in 0 .. MaxDigits
                BY <4>3, MigrationAssumption
            <4> QED BY <4>1, <4>4 DEF Series
        <3>4. answer \in fits
            BY <3>2, <3>3
        <3>5. \A d \in fits : d <= answer
            BY <3>2, MigrationAssumption DEF Series, Powers
        <3> HIDE DEF fits
        <3> QED BY <3>4, <3>5 DEF GreedyIsLargest, fits, answer
    <2> QED BY <2>3, <2>4
<1> QED BY <1>1, MigrationInvariant, PTL

(* Every crossing of a configuration whose cap is not below its floor takes *)
(* something off the balance and never more than there is, so that no       *)
(* decomposition repeats itself.                                            *)
THEOREM CrossingsProgress ==
    ASSUME MAX_RESIDUAL_VALUE <= DENOM_CAP
    PROVE  MigrationSpec => [][residual' \in Nat /\ residual' < residual]_migration
<1>1. ASSUME MigrationInv, [Cross]_migration
      PROVE  [residual' \in Nat /\ residual' < residual]_migration
    BY <1>1, CrossingFacts
<1> QED BY <1>1, MigrationInvariant, PTL DEF MigrationSpec
=============================================================================
