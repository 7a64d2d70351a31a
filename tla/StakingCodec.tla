---------------------------- MODULE StakingCodec ----------------------------
(***************************************************************************)
(* The staking actions of VCrosslink transactions on the wire: one tag,    *)
(* and the fields of the action's body in the order of its write_fields    *)
(* and read_fields.  An optional action is a set of at most one, and a     *)
(* read that may fail yields a set of such sets: {} is the error.          *)
(***************************************************************************)
EXTENDS TxFormat, Sequences

CreateNewDelegationBond ==
    <<"unique_pubkey", "challenge", "signature", "target_finalizer", "amount">>
BeginDelegationUnbonding == <<"unique_pubkey", "challenge", "signature">>
WithdrawDelegationBond == <<"unique_pubkey", "challenge", "signature", "amount">>
RetargetDelegationBond == <<"unique_pubkey", "challenge", "signature", "target_finalizer">>
RegisterFinalizer == <<"unique_pubkey", "challenge", "signature">>
ConvertFinalizerRewardToDelegationBond ==
    <<"unique_pubkey", "challenge", "signature", "this_finalizer", "amount",
      "second_challenge", "finalizer_signature">>
UpdateFinalizerKey ==
    <<"unique_pubkey", "challenge", "signature", "this_finalizer",
      "second_challenge", "finalizer_signature">>

(* The kinds in the order of their tags, which start at 1. *)
TAG_ABSENT == 0
Kinds == <<"CreateNewDelegationBond", "BeginDelegationUnbonding", "WithdrawDelegationBond",
           "RetargetDelegationBond", "RegisterFinalizer",
           "ConvertFinalizerRewardToDelegationBond", "UpdateFinalizerKey">>
Bodies == <<CreateNewDelegationBond, BeginDelegationUnbonding, WithdrawDelegationBond,
            RetargetDelegationBond, RegisterFinalizer,
            ConvertFinalizerRewardToDelegationBond, UpdateFinalizerKey>>

TagOf(kind) == CHOOSE tag \in DOMAIN Kinds : Kinds[tag] = kind
FieldsOf(tag) == {Bodies[tag][i] : i \in DOMAIN Bodies[tag]}

(* An optional StakingAction: the fields of its kind, and an amount that is one. *)
WellFormed(option) ==
    /\ \A a, b \in option : a = b
    /\ \A a \in option : \E tag \in DOMAIN Kinds :
        /\ a.kind = Kinds[tag]
        /\ a = [kind |-> Kinds[tag], fields |-> [f \in FieldsOf(tag) |-> a.fields[f]]]
        /\ "amount" \in FieldsOf(tag) => a.fields["amount"] \in Zatoshis

WriteBody(action) ==
    LET body == Bodies[TagOf(action.kind)]
    IN  [tag |-> TagOf(action.kind), body |-> [i \in DOMAIN body |-> action.fields[body[i]]]]

WriteStaking(option) ==
    IF option = {} THEN [tag |-> TAG_ABSENT, body |-> <<>>]
    ELSE WriteBody(CHOOSE action \in option : TRUE)

(* read_zatoshis is the only field reader that refuses a value. *)
ReadFields(tag, body) ==
    LET position(f) == CHOOSE i \in DOMAIN Bodies[tag] : Bodies[tag][i] = f
        fields == [f \in FieldsOf(tag) |-> body[position(f)]]
    IN  IF "amount" \in FieldsOf(tag) /\ fields["amount"] \notin Zatoshis THEN {}
        ELSE {[kind |-> Kinds[tag], fields |-> fields]}

ReadStaking(wire) ==
    IF wire.tag = TAG_ABSENT THEN {{}}
    ELSE IF wire.tag \notin DOMAIN Kinds THEN {}
    ELSE {{action} : action \in ReadFields(wire.tag, wire.body)}
=============================================================================
