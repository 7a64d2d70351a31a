-------------------------- MODULE TxBuilderProofs --------------------------
(***************************************************************************)
(* The safety of the transaction builder for every network, configuration, *)
(* fee rule, value and sequence of calls.                                  *)
(*                                                                         *)
(* BuilderInv is inductive: it says what the builder's fields have to do   *)
(* with one another between calls.  What build returns then satisfies the  *)
(* properties of the runs because of BuilderInv and of the checks of       *)
(* build, and keeps satisfying them because no call follows build.         *)
(***************************************************************************)
EXTENDS TxBuilder, OperatorProofs

LEMMA LargerNat ==
    ASSUME NEW a \in Nat, NEW b \in Nat
    PROVE  Larger(a, b) \in Nat /\ Larger(a, b) >= a /\ Larger(a, b) >= b
BY DEF Larger

(* The counts of actions and outputs are natural numbers. *)
LEMMA CountsTyped ==
    ASSUME TypeOK
    PROVE  /\ \A pool \in {"orchard", "ironwood"} : ActionCount(pool) \in Nat
           /\ SaplingOutputCount \in Nat
<1>1. ASSUME NEW pool \in {"orchard", "ironwood"} PROVE ActionCount(pool) \in Nat
    <2>1. parts[pool] \in Part
        BY DEF TypeOK, BuilderPools, ShieldedPools
    <2>2. parts[pool].spends \in Nat /\ parts[pool].outputs \in Nat
        BY <2>1 DEF Part
    <2>3. config.padding[pool].pad_to_minimum \in Nat
        BY DEF TypeOK, BuildConfigs
    <2> QED BY <2>2, <2>3 DEF ActionCount, Larger
<1>2. SaplingOutputCount \in Nat
    <2>1. parts["sapling"] \in Part
        BY DEF TypeOK, BuilderPools, ShieldedPools
    <2> QED BY <2>1 DEF SaplingOutputCount, Larger, Part
<1> QED BY <1>1, <1>2

LEMMA BundleVersionTyped ==
    ASSUME NEW b \in BranchIds, NEW pool \in {"orchard", "ironwood"}
    PROVE  BundleVersionForBranch(b, pool) \in BundleVersions
BY DEF BundleVersionForBranch, BundleVersions

LEMMA NetTyped ==
    ASSUME TypeOK, NEW pool \in BuilderPools
    PROVE  Net(pool) \in Int
BY DEF TypeOK, Net, Part

(* The data that build freezes and build_for_pczt returns is well typed. *)
LEMMA ResultsTyped ==
    ASSUME TypeOK
    PROVE  UnauthedTx \in TransactionData /\ PcztParts \in TransactionData
<1>1. NoBundle \in Bundles
    BY DEF NoBundle, Bundles, BundleVersions
<1>2. ASSUME NEW pool \in Pools PROVE BuiltBundle(pool) \in Bundles
    <2>1. CASE pool = "transparent"
        <3>1. parts[pool] \in Part /\ Net(pool) \in Int
            BY <2>1, NetTyped DEF TypeOK, BuilderPools
        <3>2. parts[pool].spends + parts[pool].outputs + (IF IsCoinbase THEN 1 ELSE 0) \in Nat
            BY <3>1 DEF Part
        <3> QED BY <2>1, <3>1, <3>2 DEF BuiltBundle, Bundles, BundleVersions
    <2>2. CASE pool = "sapling"
        <3>1. parts[pool] \in Part /\ Net(pool) \in Int
            BY <2>2, NetTyped DEF TypeOK, BuilderPools, ShieldedPools
        <3>2. parts[pool].spends + SaplingOutputCount \in Nat
            BY <3>1, CountsTyped DEF Part
        <3> QED BY <2>2, <3>1, <3>2 DEF BuiltBundle, Bundles, BundleVersions
    <2>3. CASE pool \in {"orchard", "ironwood"} /\ ActionCount(pool) > 0
        <3>1. Net(pool) \in Int /\ ActionCount(pool) \in Nat
            BY <2>3, NetTyped, CountsTyped DEF BuilderPools, ShieldedPools
        <3>2. BundleVersionForBranch(branch, pool) \in BundleVersions
            BY <2>3, BundleVersionTyped DEF TypeOK
        <3> QED BY <2>3, <3>1, <3>2 DEF BuiltBundle, Bundles, BundleVersions
    <2>4. CASE /\ pool \notin {"transparent", "sapling"}
               /\ ~(pool \in {"orchard", "ironwood"} /\ ActionCount(pool) > 0)
        BY <2>4, <1>1 DEF BuiltBundle
    <2> QED BY <2>1, <2>2, <2>3, <2>4
<1>3. UnauthedTx \in TransactionData
    BY <1>2 DEF UnauthedTx, TransactionData, TypeOK
<1>4. PcztParts \in TransactionData
    <2> DEFINE transparent == [version |-> "None", balance |-> Net("transparent"),
                size |-> parts["transparent"].spends + parts["transparent"].outputs]
    <2>1. transparent \in Bundles
        <3>1. parts["transparent"] \in Part /\ Net("transparent") \in Int
            BY NetTyped DEF TypeOK, BuilderPools
        <3> QED BY <3>1 DEF Bundles, BundleVersions, Part
    <2>2. (IF HasIronwood(version) THEN UnauthedTx.bundle["ironwood"] ELSE NoBundle) \in Bundles
        BY <1>1, <1>3 DEF TransactionData, Pools
    <2> HIDE DEF transparent
    <2>3. PcztParts = [UnauthedTx EXCEPT !.bundle =
            [UnauthedTx.bundle EXCEPT
                !["transparent"] = transparent,
                !["ironwood"] = IF HasIronwood(version) THEN UnauthedTx.bundle["ironwood"]
                                ELSE NoBundle]]
        BY DEF PcztParts, transparent, UnauthedTx, Pools
    <2> QED BY <1>3, <2>1, <2>2, <2>3 DEF TransactionData
<1> QED BY <1>3, <1>4

----------------------------------------------------------------------------
(* Adding an input or an output changes the entry of one pool. *)
LEMMA SpendAdded ==
    ASSUME TypeOK, NEW pool \in BuilderPools, NEW value \in Nat, AddSpendTo(pool, value)
    PROVE  /\ parts' \in [BuilderPools -> Part]
           /\ parts'[pool].spends = parts[pool].spends + 1
           /\ parts'[pool].outputs = parts[pool].outputs
           /\ parts'[pool].in = parts[pool].in + value
           /\ parts'[pool].out = parts[pool].out
           /\ \A q \in BuilderPools : q # pool => parts'[q] = parts[q]
<1>1. parts \in [BuilderPools -> Part] /\ parts[pool] \in Part
    BY DEF TypeOK
<1>2. WithSpend(parts[pool], value) \in Part
    BY <1>1 DEF Part, WithSpend
<1>3. /\ parts' \in [BuilderPools -> Part]
      /\ parts'[pool] = WithSpend(parts[pool], value)
      /\ \A q \in BuilderPools : q # pool => parts'[q] = parts[q]
    BY <1>1, <1>2 DEF AddSpendTo
<1> QED BY <1>3 DEF WithSpend

LEMMA OutputAdded ==
    ASSUME TypeOK, NEW pool \in BuilderPools, NEW value \in Nat, AddOutputTo(pool, value)
    PROVE  /\ parts' \in [BuilderPools -> Part]
           /\ parts'[pool].spends = parts[pool].spends
           /\ parts'[pool].outputs = parts[pool].outputs + 1
           /\ parts'[pool].in = parts[pool].in
           /\ parts'[pool].out = parts[pool].out + value
           /\ \A q \in BuilderPools : q # pool => parts'[q] = parts[q]
<1>1. parts \in [BuilderPools -> Part] /\ parts[pool] \in Part
    BY DEF TypeOK
<1>2. WithOutput(parts[pool], value) \in Part
    BY <1>1 DEF Part, WithOutput
<1>3. /\ parts' \in [BuilderPools -> Part]
      /\ parts'[pool] = WithOutput(parts[pool], value)
      /\ \A q \in BuilderPools : q # pool => parts'[q] = parts[q]
    BY <1>1, <1>2 DEF AddOutputTo
<1> QED BY <1>3 DEF WithOutput

(* What a call may hand to a pool: a step that adds value to one pool that  *)
(* has a builder, or to the transparent pool, keeps the pools consistent.   *)
LEMMA PartsStayConsistent ==
    ASSUME TypeOK, PartsConsistent, UNCHANGED setup,
           NEW pool \in BuilderPools, NEW value \in Nat,
           pool # "transparent" => pool \in builders,
           \/ AddSpendTo(pool, value) /\ (IsCoinbase => pool = "transparent")
           \/ AddOutputTo(pool, value)
    PROVE  PartsConsistent'
<1>1. CASE AddSpendTo(pool, value) /\ (IsCoinbase => pool = "transparent")
    <2>1. parts[pool] \in Part /\ parts'[pool] \in Part
        BY <1>1, SpendAdded DEF TypeOK
    <2>2. \A q \in ShieldedPools : q \notin builders => parts'[q] = NoPart
        BY <1>1, SpendAdded DEF PartsConsistent, BuilderPools, ShieldedPools
    <2>3. ASSUME NEW q \in BuilderPools
          PROVE  /\ parts'[q].spends = 0 => parts'[q].in = 0
                 /\ parts'[q].outputs = 0 => parts'[q].out = 0
        <3>1. /\ parts[q].spends = 0 => parts[q].in = 0
              /\ parts[q].outputs = 0 => parts[q].out = 0
            BY DEF PartsConsistent
        <3>2. CASE q # pool
            <4>1. parts'[q] = parts[q]
                BY <1>1, <3>2, SpendAdded
            <4> QED BY <3>1, <4>1
        <3>3. CASE q = pool
            <4>1. parts'[q].spends = parts[q].spends + 1 /\ parts[q].spends \in Nat
                BY <1>1, <2>1, <3>3, SpendAdded DEF Part
            <4>2. parts'[q].outputs = parts[q].outputs /\ parts'[q].out = parts[q].out
                BY <1>1, <3>3, SpendAdded
            <4>3. parts'[q].spends # 0
                BY <4>1
            <4> QED BY <3>1, <4>2, <4>3
        <3> QED BY <3>2, <3>3
    <2>4. IsCoinbase => \A q \in ShieldedPools : parts'[q].spends = 0
        BY <1>1, SpendAdded DEF PartsConsistent, BuilderPools, ShieldedPools
    <2> QED BY <2>2, <2>3, <2>4 DEF PartsConsistent, setup, IsCoinbase
<1>2. CASE AddOutputTo(pool, value)
    <2>1. parts[pool] \in Part /\ parts'[pool] \in Part
        BY <1>2, OutputAdded DEF TypeOK
    <2>2. \A q \in ShieldedPools : q \notin builders => parts'[q] = NoPart
        BY <1>2, OutputAdded DEF PartsConsistent, BuilderPools, ShieldedPools
    <2>3. ASSUME NEW q \in BuilderPools
          PROVE  /\ parts'[q].spends = 0 => parts'[q].in = 0
                 /\ parts'[q].outputs = 0 => parts'[q].out = 0
        <3>1. /\ parts[q].spends = 0 => parts[q].in = 0
              /\ parts[q].outputs = 0 => parts[q].out = 0
            BY DEF PartsConsistent
        <3>2. CASE q # pool
            <4>1. parts'[q] = parts[q]
                BY <1>2, <3>2, OutputAdded
            <4> QED BY <3>1, <4>1
        <3>3. CASE q = pool
            <4>1. parts'[q].outputs = parts[q].outputs + 1 /\ parts[q].outputs \in Nat
                BY <1>2, <2>1, <3>3, OutputAdded DEF Part
            <4>2. parts'[q].spends = parts[q].spends /\ parts'[q].in = parts[q].in
                BY <1>2, <3>3, OutputAdded
            <4>3. parts'[q].outputs # 0
                BY <4>1
            <4> QED BY <3>1, <4>2, <4>3
        <3> QED BY <3>2, <3>3
    <2>4. IsCoinbase => \A q \in ShieldedPools : parts'[q].spends = 0
        BY <1>2, OutputAdded DEF PartsConsistent, BuilderPools, ShieldedPools
    <2> QED BY <2>2, <2>3, <2>4 DEF PartsConsistent, setup, IsCoinbase
<1> QED BY <1>1, <1>2

----------------------------------------------------------------------------
(* The fee that a successful build records is a valid amount. *)
LEMMA FeeTyped ==
    ASSUME NEW rule \in FeeRules, ~GetFeeFails(rule)
    PROVE  GetFee(rule) \in Zatoshis
BY FeeAssumption DEF FeeRules, GetFeeFails, GetFee

LEMMA ErrorsTyped ==
    ASSUME NEW rule \in FeeRules
    PROVE  /\ BuildError(rule) \in Refusals \union {"Ok"}
           /\ PcztError(rule) \in Refusals \union {"Ok"}
<1>1. \A v : CheckVersion(v) \in
        {"Ok", "CrosslinkConfigMismatch", "StakingActionUnsupported", "TargetIncompatible"}
    BY DEF CheckVersion
<1>2. \A f : BalanceError(f) \in {"Ok", "Balance", "InsufficientFunds", "ChangeRequired"}
    BY DEF BalanceError
<1> QED BY <1>1, <1>2 DEF BuildError, PcztError, Refusals

LEMMA BuilderInit == Init => BuilderInv
<1> SUFFICES ASSUME Init PROVE BuilderInv
    OBVIOUS
<1>1. branch \in BranchIds
    <2>1. PICK n \in Networks : branch = ForHeight(n, target)
        BY DEF Init
    <2>2. n \in [Upgrades -> OptHeights] /\ target \in Heights
        BY HeightAssumption, BuilderAssumption DEF Init
    <2> QED BY <2>1, <2>2, ScanResult
<1>2. config \in BuildConfigs /\ target \in Heights
    BY BuilderAssumption DEF Init
<1>3. builders \subseteq ShieldedPools
    BY DEF Init, BuildersFor
<1>4. version \in TxVersions
    BY DEF Init, DefaultVersion, SuggestedForBranch, TxVersions
<1>5. expiry \in Heights
    BY <1>2, HeightAssumption, BuilderAssumption DEF Init, DefaultExpiry, HeightAdd, Heights
<1>6. parts \in [BuilderPools -> Part]
    BY DEF Init, NoPart, Part
<1>7. NoTx \in TransactionData /\ NoStaking \in StakingActions
    BY HeightAssumption, MoneyAssumption
    DEF NoTx, TransactionData, NoBundle, Bundles, BundleVersions, NoStaking, StakingActions,
        StakingKinds, Zatoshis, Heights, BranchIds, Sprout, Nu6_3, TxVersions
<1>8. fee \in Zatoshis
    BY MoneyAssumption DEF Init, Zatoshis
<1>9. TypeOK
    BY <1>1, <1>2, <1>3, <1>4, <1>5, <1>6, <1>7, <1>8 DEF TypeOK, Init, Outcomes
<1>10. BuildersAsCreated
    BY DEF Init, BuildersAsCreated
<1>11. PartsConsistent
    BY DEF Init, PartsConsistent, NoPart, BuilderPools, ShieldedPools
<1>12. StakingNeedsVCrosslink
    BY DEF Init, StakingNeedsVCrosslink, DefaultVersion, SuggestedForBranch, HasCrosslink,
           IsVCrosslink
<1> QED BY <1>9, <1>10, <1>11, <1>12 DEF BuilderInv

----------------------------------------------------------------------------
(* One step per call.  A call that adds to a pool disturbs parts alone, a   *)
(* build disturbs the result alone.                                         *)
LEMMA BuilderStep == BuilderInv /\ [Next]_vars => BuilderInv'
<1> SUFFICES ASSUME BuilderInv, [Next]_vars PROVE BuilderInv'
    OBVIOUS
<1> USE DEF BuilderInv
<1>1. ASSUME NEW v \in TxVersions, ProposeVersion(v) PROVE BuilderInv'
    <2>1. HasCrosslink(v) <=> IsVCrosslink
        BY <1>1 DEF ProposeVersion, CheckVersion, HasCrosslink, IsVCrosslink
    <2>2. staking # NoStaking => HasCrosslink(v)
        BY <1>1 DEF ProposeVersion, CheckVersion
    <2>3. TypeOK'
        BY <1>1 DEF ProposeVersion, TypeOK, setup, result
    <2>4. (BuildersAsCreated /\ PartsConsistent)'
        BY <1>1 DEF ProposeVersion, BuildersAsCreated, PartsConsistent, setup, IsCoinbase
    <2>5. StakingNeedsVCrosslink'
        BY <1>1, <2>1, <2>2 DEF ProposeVersion, StakingNeedsVCrosslink, setup, IsVCrosslink
    <2> QED BY <2>3, <2>4, <2>5
<1>2. ASSUME NEW h \in ExpiryHeights, WithExpiryHeight(h) PROVE BuilderInv'
    <2>1. TypeOK'
        BY <1>2, BuilderAssumption DEF WithExpiryHeight, TypeOK, setup, result
    <2>2. (BuildersAsCreated /\ PartsConsistent /\ StakingNeedsVCrosslink)'
        BY <1>2 DEF WithExpiryHeight, BuildersAsCreated, PartsConsistent, StakingNeedsVCrosslink,
                    setup, IsCoinbase, IsVCrosslink
    <2> QED BY <2>1, <2>2
<1>3. ASSUME NEW pool \in ShieldedPools, NEW value \in NoteValues, pool \in builders,
             (AddSpendTo(pool, value) /\ ~IsCoinbase) \/ AddOutputTo(pool, value),
             UNCHANGED <<setup, version, expiry, tsize, staking, result>>
      PROVE  BuilderInv'
    <2>1. pool \in BuilderPools /\ value \in Nat
        BY BuilderAssumption, MoneyAssumption DEF BuilderPools, Zatoshis
    <2>2. parts' \in [BuilderPools -> Part]
        BY <1>3, <2>1, SpendAdded, OutputAdded
    <2>3. PartsConsistent'
        BY <1>3, <2>1, PartsStayConsistent
    <2>4. TypeOK'
        BY <1>3, <2>1, <2>2 DEF TypeOK, setup, result
    <2>5. (BuildersAsCreated /\ StakingNeedsVCrosslink)'
        BY <1>3, <2>1 DEF BuildersAsCreated, StakingNeedsVCrosslink, setup, IsVCrosslink
    <2> QED BY <2>3, <2>4, <2>5
<1>4. ASSUME NEW coin \in TransparentInputs, AddTransparentInput(coin) PROVE BuilderInv'
    <2>1. /\ coin.value \in Nat /\ "transparent" \in BuilderPools
          /\ coin.size = UnknownSize \/ coin.size \in Nat
          /\ AddSpendTo("transparent", coin.value)
          /\ UNCHANGED <<setup, version, expiry, staking, result>>
        BY <1>4, BuilderAssumption, MoneyAssumption DEF AddTransparentInput, BuilderPools, Zatoshis
    <2>2. tsize' \in [in : Nat, out : Nat, unknown : BOOLEAN]
        <3>1. tsize \in [in : Nat, out : Nat, unknown : BOOLEAN]
            BY DEF TypeOK
        <3>2. CASE coin.size = UnknownSize
            <4>1. tsize' = [tsize EXCEPT !.unknown = TRUE]
                BY <1>4, <3>2 DEF AddTransparentInput
            <4> QED BY <3>1, <4>1
        <3>3. CASE coin.size # UnknownSize
            <4>1. tsize' = [tsize EXCEPT !.in = tsize.in + coin.size] /\ coin.size \in Nat
                BY <1>4, <2>1, <3>3 DEF AddTransparentInput
            <4> QED BY <3>1, <4>1
        <3> QED BY <3>2, <3>3
    <2>3. parts' \in [BuilderPools -> Part] /\ PartsConsistent'
        BY <2>1, SpendAdded, PartsStayConsistent
    <2>4. TypeOK'
        BY <2>1, <2>2, <2>3 DEF TypeOK, setup, result
    <2>5. (BuildersAsCreated /\ StakingNeedsVCrosslink)'
        BY <2>1 DEF BuildersAsCreated, StakingNeedsVCrosslink, setup, IsVCrosslink
    <2> QED BY <2>3, <2>4, <2>5
<1>5. ASSUME NEW output \in TransparentOutputs, AddTransparentOutput(output) PROVE BuilderInv'
    <2>1. /\ output.value \in Nat /\ "transparent" \in BuilderPools
          /\ output.size \in Nat
          /\ AddOutputTo("transparent", output.value)
          /\ UNCHANGED <<setup, version, expiry, staking, result>>
        BY <1>5, BuilderAssumption, MoneyAssumption DEF AddTransparentOutput, BuilderPools, Zatoshis
    <2>2. tsize' \in [in : Nat, out : Nat, unknown : BOOLEAN]
        BY <1>5, <2>1 DEF AddTransparentOutput, TypeOK
    <2>3. parts' \in [BuilderPools -> Part] /\ PartsConsistent'
        BY <2>1, OutputAdded, PartsStayConsistent
    <2>4. TypeOK'
        BY <2>1, <2>2, <2>3 DEF TypeOK, setup, result
    <2>5. (BuildersAsCreated /\ StakingNeedsVCrosslink)'
        BY <2>1 DEF BuildersAsCreated, StakingNeedsVCrosslink, setup, IsVCrosslink
    <2> QED BY <2>3, <2>4, <2>5
<1>6. ASSUME NEW action \in StakingPuts, PutStakingAction(action) PROVE BuilderInv'
    <2>1. TypeOK'
        BY <1>6, BuilderAssumption DEF PutStakingAction, TypeOK, setup, result
    <2>2. (BuildersAsCreated /\ PartsConsistent /\ StakingNeedsVCrosslink)'
        BY <1>6 DEF PutStakingAction, BuildersAsCreated, PartsConsistent, StakingNeedsVCrosslink,
                    setup, IsCoinbase, IsVCrosslink
    <2> QED BY <2>1, <2>2
<1>7. ASSUME NEW o \in Outcomes, NEW t \in TransactionData, NEW f \in Zatoshis, Finish(o, t, f)
      PROVE  BuilderInv'
    <2>1. TypeOK'
        BY <1>7 DEF Finish, TypeOK, setup
    <2>2. (BuildersAsCreated /\ PartsConsistent /\ StakingNeedsVCrosslink)'
        BY <1>7 DEF Finish, BuildersAsCreated, PartsConsistent, StakingNeedsVCrosslink,
                    setup, IsCoinbase, IsVCrosslink
    <2> QED BY <2>1, <2>2
<1>8. tx \in TransactionData /\ fee \in Zatoshis /\ 0 \in Zatoshis
    BY MoneyAssumption DEF TypeOK, Zatoshis
<1>9. ASSUME NEW rule \in FeeRules, Build(rule) PROVE BuilderInv'
    <2>1. CASE BuildRefused(rule)
        <3>1. BuildError(rule) \in Outcomes
            BY <2>1, ErrorsTyped DEF BuildRefused, Outcomes
        <3> QED BY <2>1, <3>1, <1>7, <1>8 DEF BuildRefused
    <2>2. CASE BuildUnsigned(rule)
        BY <2>2, <1>7, <1>8 DEF BuildUnsigned, Outcomes, Refusals
    <2>3. CASE BuildFrozen(rule)
        <3>1. (IF IsCoinbase THEN 0 ELSE GetFee(rule)) \in Zatoshis
            BY <2>3, <1>8, FeeTyped DEF BuildFrozen, BuildError
        <3>2. Completion(UnauthedTx) \in Outcomes
            BY DEF Completion, Outcomes, Panics
        <3>3. UnauthedTx \in TransactionData
            BY ResultsTyped
        <3> HIDE DEF BuilderInv
        <3> QED BY <2>3, <3>1, <3>2, <3>3, <1>7 DEF BuildFrozen
    <2> QED BY <1>9, <2>1, <2>2, <2>3 DEF Build
<1>10. ASSUME NEW rule \in FeeRules, BuildForPczt(rule) PROVE BuilderInv'
    <2>1. CASE PcztError(rule) = "Ok"
        <3>1. GetFee(rule) \in Zatoshis
            BY <2>1, FeeTyped DEF PcztError
        <3>2. PcztParts \in TransactionData /\ "pczt" \in Outcomes
            BY ResultsTyped DEF Outcomes
        <3> HIDE DEF BuilderInv
        <3> QED BY <1>10, <2>1, <3>1, <3>2, <1>7 DEF BuildForPczt
    <2>2. CASE PcztError(rule) # "Ok"
        <3>1. PcztError(rule) \in Outcomes
            BY <2>2, ErrorsTyped DEF Outcomes
        <3> HIDE DEF BuilderInv
        <3> QED BY <1>10, <2>2, <3>1, <1>7, <1>8 DEF BuildForPczt
    <2> QED BY <2>1, <2>2
<1>11. CASE UNCHANGED vars
    BY <1>11 DEF vars, TypeOK, BuildersAsCreated, PartsConsistent, StakingNeedsVCrosslink,
                 IsCoinbase, IsVCrosslink
<1> HIDE DEF BuilderInv
<1>12. ASSUME NEW pool \in ShieldedPools, NEW value \in NoteValues,
              AddShieldedSpend(pool, value) \/ AddShieldedOutput(pool, value)
       PROVE  BuilderInv'
    BY <1>3, <1>12 DEF AddShieldedSpend, AddShieldedOutput, AcceptsSpend, AcceptsOutput
<1>13. ASSUME NEW value \in NoteValues, AddOrchardChangeOutput(value) PROVE BuilderInv'
    BY <1>3, <1>13 DEF AddOrchardChangeOutput, ShieldedPools
<1>14. CASE Next
    <2>1. \/ \E v \in TxVersions : ProposeVersion(v)
          \/ \E h \in ExpiryHeights : WithExpiryHeight(h)
          \/ \E pool \in ShieldedPools, value \in NoteValues :
                AddShieldedSpend(pool, value) \/ AddShieldedOutput(pool, value)
          \/ \E value \in NoteValues : AddOrchardChangeOutput(value)
          \/ \E coin \in TransparentInputs : AddTransparentInput(coin)
          \/ \E output \in TransparentOutputs : AddTransparentOutput(output)
          \/ \E action \in StakingPuts : PutStakingAction(action)
          \/ \E rule \in FeeRules : Build(rule)
          \/ \E rule \in FeeRules : BuildForPczt(rule)
        BY <1>14 DEF Next
    <2> QED BY <2>1, <1>1, <1>2, <1>4, <1>5, <1>6, <1>9, <1>10, <1>12, <1>13
<1> QED BY <1>11, <1>14

(* The fields of the builder and of its result stay within their types:     *)
(* heights in u32, the fee in Zatoshis, the errors those of the Error enum. *)
THEOREM BuilderTypeCorrect == Spec => []TypeOK
<1>1. BuilderInv => TypeOK
    BY DEF BuilderInv
<1> QED BY <1>1, BuilderInit, BuilderStep, PTL DEF Spec

(* No sequence of propose_version and put_staking_action leaves a staking   *)
(* action in a builder whose version does not carry it.                     *)
THEOREM StakingSafety == Spec => []StakingNeedsVCrosslink
<1>1. BuilderInv => StakingNeedsVCrosslink
    BY DEF BuilderInv
<1> QED BY <1>1, BuilderInit, BuilderStep, PTL DEF Spec

----------------------------------------------------------------------------
(* What the bundles have to do with what was added.                         *)

(* A pool that is not in use moves no value. *)
LEMMA UnusedMovesNothing ==
    ASSUME BuilderInv, NEW pool \in BuilderPools, ~InUse(pool)
    PROVE  Net(pool) = 0 /\ parts[pool].spends = 0 /\ parts[pool].outputs = 0
<1>1. parts[pool] \in Part
    BY DEF BuilderInv, TypeOK
<1>2. parts[pool].spends = 0 /\ parts[pool].outputs = 0
    BY <1>1 DEF InUse, Part
<1> QED BY <1>1, <1>2 DEF BuilderInv, PartsConsistent, Net, Part

(* A pool in use has at least as many actions as inputs or outputs, since   *)
(* only the pools with a builder can be added to.                           *)
LEMMA ActionsForUse ==
    ASSUME BuilderInv, NEW pool \in {"orchard", "ironwood"}, InUse(pool)
    PROVE  /\ pool \in builders
           /\ ActionCount(pool) > 0
           /\ ActionCount(pool) >= Larger(parts[pool].spends, parts[pool].outputs)
<1>1. pool \in BuilderPools /\ pool \in ShieldedPools
    BY DEF BuilderPools, ShieldedPools
<1>2. parts[pool].spends \in Nat /\ parts[pool].outputs \in Nat
    BY <1>1 DEF BuilderInv, TypeOK, Part
<1>3. pool \in builders
    BY <1>1 DEF BuilderInv, PartsConsistent, NoPart, InUse
<1>4. config.padding[pool].pad_to_minimum \in Nat
    BY DEF BuilderInv, TypeOK, BuildConfigs
<1>5. parts[pool].spends + parts[pool].outputs > 0
    BY DEF InUse
<1>6. CASE IsCoinbase
    <2>1. parts[pool].spends = 0
        BY <1>1, <1>6 DEF BuilderInv, PartsConsistent
    <2> QED BY <1>2, <1>3, <1>5, <1>6, <2>1 DEF ActionCount, Larger
<1>7. CASE ~IsCoinbase
    BY <1>2, <1>3, <1>4, <1>5, <1>7 DEF ActionCount, Larger
<1> QED BY <1>3, <1>6, <1>7

(* The bundle of a pool has the pool's balance, whether or not it is in     *)
(* use, and no bundle is smaller than what was added to it.                 *)
LEMMA BundleCarriesPool ==
    ASSUME BuilderInv, NEW pool \in BuilderPools
    PROVE  /\ BuiltBundle(pool).balance = Net(pool)
           /\ BuiltBundle(pool).size >= Larger(parts[pool].spends, parts[pool].outputs)
<1>1. parts[pool].spends \in Nat /\ parts[pool].outputs \in Nat
    BY DEF BuilderInv, TypeOK, Part
<1>2. CASE pool = "transparent"
    BY <1>1, <1>2 DEF BuiltBundle, Larger
<1>3. CASE pool = "sapling"
    <2>1. SaplingOutputCount \in Nat /\ SaplingOutputCount >= parts[pool].outputs
        BY <1>1, <1>3 DEF SaplingOutputCount, Larger
    <2> QED BY <1>1, <1>3, <2>1 DEF BuiltBundle, Larger
<1>4. CASE pool \in {"orchard", "ironwood"} /\ ActionCount(pool) > 0
    <2>1. CASE InUse(pool)
        BY <1>4, <2>1, ActionsForUse DEF BuiltBundle
    <2>2. CASE ~InUse(pool)
        <3>1. ActionCount(pool) \in Nat
            BY <1>4, CountsTyped DEF BuilderInv
        <3> QED BY <1>4, <2>2, <3>1, UnusedMovesNothing DEF BuiltBundle, Larger
    <2> QED BY <2>1, <2>2
<1>5. CASE pool \in {"orchard", "ironwood"} /\ ~(ActionCount(pool) > 0)
    <2>1. ~InUse(pool)
        BY <1>5, ActionsForUse
    <2> QED BY <1>5, <2>1, UnusedMovesNothing DEF BuiltBundle, NoBundle, Larger
<1> QED BY <1>2, <1>3, <1>4, <1>5 DEF BuilderPools, ShieldedPools

(* check_version_compatibility: the version has a slot for each pool in use. *)
LEMMA SlotForUse ==
    ASSUME CheckVersion(version) = "Ok", NEW pool \in BuilderPools, InUse(pool)
    PROVE  HasSlot(version, pool)
BY DEF CheckVersion, HasSlot, BuilderPools, ShieldedPools

(* So the wire carries the balance of every pool. *)
LEMMA WireBalances ==
    ASSUME BuilderInv, CheckVersion(version) = "Ok", NEW pool \in BuilderPools
    PROVE  WireOf(UnauthedTx).bundle[pool].balance = Net(pool)
<1>1. pool \in Pools
    BY DEF Pools, BuilderPools, ShieldedPools
<1>2. WireOf(UnauthedTx).bundle[pool].balance =
        IF HasSlot(version, pool) THEN BuiltBundle(pool).balance ELSE 0
    BY <1>1 DEF WireOf, UnauthedTx
<1>3. CASE HasSlot(version, pool)
    BY <1>2, <1>3, BundleCarriesPool
<1>4. CASE ~HasSlot(version, pool)
    BY <1>2, <1>4, SlotForUse, UnusedMovesNothing
<1> QED BY <1>3, <1>4

LEMMA SproutIsEmpty == BuiltBundle("sprout") = NoBundle
BY DEF BuiltBundle

(* A version without Orchard is never valid where an Orchard bundle needs   *)
(* another, and Ironwood's only version is V6 of NU6.3.                     *)
LEMMA SlotsMatchBranch ==
    ASSUME BuilderInv, CheckVersion(version) = "Ok"
    PROVE  /\ ValidInBranch(version, branch)
           /\ HasOrchard(version) => /\ CommitsToBranch(version)
                                     /\ BundleVersionForBranch(branch, "orchard") # "None"
           /\ HasIronwood(version) => /\ BundleVersionForBranch(branch, "orchard") = "orchard_v3"
                                      /\ BundleVersionForBranch(branch, "ironwood") = "ironwood_v3"
<1>1. ValidInBranch(version, branch)
    BY DEF CheckVersion
<1>2. version \in TxVersions /\ branch \in BranchIds
    BY DEF BuilderInv, TypeOK
<1> QED BY <1>1, <1>2
    DEF ValidInBranch, HasOrchard, HasIronwood, CommitsToBranch, BundleVersionForBranch,
        OrchardProtocolRevision, TxVersions, BranchIds, Sprout, Overwinter, Sapling, Nu5, Nu6_2,
        Nu6_3

(* A VCrosslink builder has no Ironwood builder, and an Ironwood builder is *)
(* created in NU6.3 alone.                                                  *)
LEMMA IronwoodBuilder ==
    ASSUME BuilderInv, "ironwood" \in builders
    PROVE  ~IsVCrosslink /\ branch = Nu6_3
<1>1. config.kind # "VCrosslink" /\ HasIronwood(DefaultVersion(config, branch))
    BY DEF BuilderInv, BuildersAsCreated, BuildersFor
<1>2. branch \in BranchIds
    BY DEF BuilderInv, TypeOK
<1> QED BY <1>1, <1>2 DEF HasIronwood, DefaultVersion, SuggestedForBranch, IsVCrosslink, BranchIds,
                          Sprout, Overwinter, Nu5, Nu6_3

(* The bundles of UnauthedTx. *)
LEMMA UnauthedBundles ==
    /\ UnauthedTx.version = version /\ UnauthedTx.branch = branch
    /\ UnauthedTx.expiry = expiry /\ UnauthedTx.staking = staking
    /\ \A pool \in Pools : UnauthedTx.bundle[pool] = BuiltBundle(pool)
BY DEF UnauthedTx

(* A present Orchard or Ironwood bundle comes from a pool with a builder. *)
LEMMA PresentHasBuilder ==
    ASSUME BuilderInv, NEW pool \in {"orchard", "ironwood"}, Present(UnauthedTx, pool)
    PROVE  pool \in builders /\ ActionCount(pool) > 0
<1>1. pool \in Pools
    BY DEF Pools
<1>2. BuiltBundle(pool).size > 0
    BY <1>1 DEF UnauthedTx, Present
<1>3. ActionCount(pool) > 0
    BY <1>2 DEF BuiltBundle, NoBundle
<1> QED BY <1>3 DEF ActionCount

(* What the checks of build leave true of the transaction it freezes. *)
LEMMA FrozenSerialises ==
    ASSUME BuilderInv, CheckVersion(version) = "Ok", Completion(UnauthedTx) = "built"
    PROVE  /\ ValidInBranch(version, branch)
           /\ ~WriteFails(UnauthedTx)
           /\ \A b \in BranchIds : ~ReadFails(WireOf(UnauthedTx), b)
<1>1. ~Present(UnauthedTx, "sprout")
    BY SproutIsEmpty, UnauthedBundles DEF Present, NoBundle, Pools
<1>2. ~FreezeFails(UnauthedTx)
    BY DEF Completion
<1>3. ~WriteFails(UnauthedTx)
    <2>1. CASE version = "V6"
        <3>1. HasIronwood(version)
            BY <2>1 DEF HasIronwood
        <3>2. ASSUME NEW pool \in {"orchard", "ironwood"}, Present(UnauthedTx, pool)
              PROVE  UnauthedTx.bundle[pool].version \in {"orchard_v3", "ironwood_v3"}
            <4>1. ActionCount(pool) > 0
                BY <3>2, PresentHasBuilder
            <4>2. BuiltBundle(pool).version \in {"orchard_v3", "ironwood_v3"}
                BY <3>1, <4>1, SlotsMatchBranch DEF BuiltBundle
            <4> QED BY <4>2, UnauthedBundles DEF Pools
        <3> QED BY <1>1, <2>1, <3>2, UnauthedBundles DEF WriteFails, WriteV6Fails, CommitsToBranch
    <2>2. CASE version = "VCrosslink"
        <3>1. IsVCrosslink
            BY <2>2 DEF BuilderInv, StakingNeedsVCrosslink, HasCrosslink
        <3>2. ~Present(UnauthedTx, "ironwood")
            BY <3>1, PresentHasBuilder, IronwoodBuilder
        <3> QED BY <1>1, <2>2, <3>2, UnauthedBundles DEF WriteFails, WriteVCrosslinkFails, CommitsToBranch
    <2>3. CASE version \notin {"V6", "VCrosslink"}
        BY <1>1, <1>2, <2>3, UnauthedBundles DEF WriteFails, WriteV5Fails, FreezeFails
    <2> QED BY <2>1, <2>2, <2>3
<1>4. ASSUME NEW b \in BranchIds PROVE ~ReadFails(WireOf(UnauthedTx), b)
    <2> SUFFICES ASSUME NEW pool \in {"orchard", "ironwood"},
                        WireOf(UnauthedTx).bundle[pool].size > 0
                 PROVE  BundleVersionForBranch(ReadBranch(WireOf(UnauthedTx), b), pool) # "None"
        BY DEF ReadFails
    <2>1. HasSlot(version, pool)
        BY UnauthedBundles DEF WireOf, Pools
    <2>2. HasOrchard(version) /\ (pool = "ironwood" => HasIronwood(version))
        BY <2>1 DEF HasSlot, HasIronwood, HasOrchard
    <2>3. CommitsToBranch(version)
        BY <2>2, SlotsMatchBranch
    <2>4. ReadBranch(WireOf(UnauthedTx), b) = branch
        BY <2>3, UnauthedBundles DEF ReadBranch, WireOf
    <2> QED BY <2>2, <2>4, SlotsMatchBranch
<1> QED BY <1>3, <1>4, SlotsMatchBranch

(* Every reader's view pays the fee that balanced the builder. *)
LEMMA FrozenPays ==
    ASSUME BuilderInv, CheckVersion(version) = "Ok", NEW f \in Zatoshis, BalanceError(f) = "Ok",
           NEW b \in BranchIds
    PROVE  ~FeePaidFails(ReadTx(WireOf(UnauthedTx), b)) /\ FeePaid(ReadTx(WireOf(UnauthedTx), b)) = f
<1> DEFINE seen == ReadTx(WireOf(UnauthedTx), b)
<1>1. /\ seen.bundle["transparent"].balance = Net("transparent")
      /\ seen.bundle["sapling"].balance = Net("sapling")
      /\ seen.bundle["orchard"].balance = Net("orchard")
      /\ seen.bundle["ironwood"].balance = Net("ironwood")
    <2>1. \A pool \in Pools : seen.bundle[pool].balance = WireOf(UnauthedTx).bundle[pool].balance
        BY DEF ReadTx
    <2> QED BY <2>1, WireBalances DEF Pools, BuilderPools, ShieldedPools
<1>2. seen.bundle["sprout"].balance = 0
    BY SproutIsEmpty, UnauthedBundles DEF ReadTx, WireOf, NoBundle, Pools
<1>3. seen.staking = staking
    BY UnauthedBundles DEF ReadTx, WireOf, BuilderInv, StakingNeedsVCrosslink
<1>4. /\ ~ValueBalanceFails /\ ~(ValueBalance < f) /\ ~(ValueBalance > f)
    BY DEF BalanceError
<1>5. /\ Net("transparent") \in Int /\ Net("sapling") \in Int
      /\ Net("orchard") \in Int /\ Net("ironwood") \in Int
    BY NetTyped DEF BuilderInv, BuilderPools, ShieldedPools
<1>6. StakingContribution(staking) \in Int
    BY MoneyAssumption DEF BuilderInv, TypeOK, StakingActions, StakingContribution, Zatoshis
<1>7. ValueBalance \in Int /\ f \in Int /\ f >= 0
    BY <1>5, <1>6, MoneyAssumption DEF ValueBalance, Zatoshis
<1>8. ValueBalance = f
    BY <1>4, <1>7
<1> HIDE DEF seen
<1>9. FeePaid(seen) = ValueBalance
    BY <1>1, <1>2, <1>3, <1>5, <1>6 DEF FeePaid, ValueBalance
<1>10. SumInRange(Net("transparent"), 0, Net("sapling"), Net("orchard"), Net("ironwood"),
                  StakingContribution(staking))
    BY <1>4 DEF ValueBalanceFails
<1>11. ~FeePaidFails(seen)
    BY <1>1, <1>2, <1>3, <1>7, <1>8, <1>9, <1>10 DEF FeePaidFails
<1> QED BY <1>8, <1>9, <1>11 DEF seen

----------------------------------------------------------------------------
(* The result: a step leaves the builder unbuilt, or unchanged, or refuses, *)
(* or records a transaction or the parts of a PCZT; none follows a build.   *)
LEMMA StepKinds ==
    ASSUME [Next]_vars
    PROVE  \/ UNCHANGED vars
           \/ outcome' = "building"
           \/ outcome' \in Refusals
           \/ \E rule \in FeeRules : BuildFrozen(rule)
           \/ \E rule \in FeeRules : /\ PcztError(rule) = "Ok"
                                     /\ Finish("pczt", PcztParts, GetFee(rule))
<1>1. ASSUME NEW rule \in FeeRules, Build(rule)
      PROVE  outcome' \in Refusals \/ BuildFrozen(rule)
    <2>1. CASE BuildRefused(rule)
        BY <2>1, ErrorsTyped DEF BuildRefused, Finish, Refusals
    <2>2. CASE BuildUnsigned(rule)
        BY <2>2 DEF BuildUnsigned, Finish, Refusals, Outcomes
    <2> QED BY <1>1, <2>1, <2>2 DEF Build
<1>2. ASSUME NEW rule \in FeeRules, BuildForPczt(rule)
      PROVE  \/ outcome' \in Refusals
             \/ PcztError(rule) = "Ok" /\ Finish("pczt", PcztParts, GetFee(rule))
    <2>1. PcztError(rule) # "Ok" => PcztError(rule) \in Refusals
        BY ErrorsTyped DEF Refusals
    <2> QED BY <1>2, <2>1 DEF BuildForPczt, Finish
<1>3. ASSUME \/ \E v \in TxVersions : ProposeVersion(v)
             \/ \E h \in ExpiryHeights : WithExpiryHeight(h)
             \/ \E action \in StakingPuts : PutStakingAction(action)
      PROVE  outcome' = "building"
    BY <1>3 DEF ProposeVersion, WithExpiryHeight, PutStakingAction, result
<1>4. ASSUME \/ \E pool \in ShieldedPools, value \in NoteValues : AddShieldedSpend(pool, value)
             \/ \E pool \in ShieldedPools, value \in NoteValues : AddShieldedOutput(pool, value)
             \/ \E value \in NoteValues : AddOrchardChangeOutput(value)
             \/ \E coin \in TransparentInputs : AddTransparentInput(coin)
             \/ \E output \in TransparentOutputs : AddTransparentOutput(output)
      PROVE  outcome' = "building"
    BY <1>4 DEF AddShieldedSpend, AddShieldedOutput, AddOrchardChangeOutput, AddTransparentInput,
                AddTransparentOutput, AddSpendTo, AddOutputTo, result
<1> QED BY <1>1, <1>2, <1>3, <1>4 DEF Next

(* What BuildFrozen records. *)
LEMMA FrozenStep ==
    ASSUME NEW rule \in FeeRules, BuildFrozen(rule)
    PROVE  /\ CheckVersion(version) = "Ok" /\ ~CoinbaseExpiryMismatch
           /\ ~IsCoinbase => GetFee(rule) \in Zatoshis /\ BalanceError(GetFee(rule)) = "Ok"
           /\ tx' = UnauthedTx
           /\ fee' = IF IsCoinbase THEN 0 ELSE GetFee(rule)
           /\ outcome' = Completion(UnauthedTx)
           /\ UNCHANGED <<setup, version, expiry, parts, tsize, staking>>
<1>1. /\ BuildError(rule) = "Ok"
      /\ tx' = UnauthedTx
      /\ fee' = IF IsCoinbase THEN 0 ELSE GetFee(rule)
      /\ outcome' = Completion(UnauthedTx)
      /\ UNCHANGED <<setup, version, expiry, parts, tsize, staking>>
    BY DEF BuildFrozen, Finish
<1>2. CheckVersion(version) = "Ok" /\ ~CoinbaseExpiryMismatch
    BY <1>1 DEF BuildError
<1>3. ~IsCoinbase => ~GetFeeFails(rule) /\ BalanceError(GetFee(rule)) = "Ok"
    BY <1>1 DEF BuildError
<1> QED BY <1>1, <1>2, <1>3, FeeTyped

(* Whatever was proposed and added, what build returns can be written, and  *)
(* read by a reader of any branch.                                          *)
THEOREM BuiltSerialises == Spec => []BuiltTransactionSerialises
<1>1. Init => BuiltTransactionSerialises
    BY DEF Init, BuiltTransactionSerialises
<1>2. ASSUME BuilderInv, BuiltTransactionSerialises, [Next]_vars
      PROVE  BuiltTransactionSerialises'
    <2>1. CASE UNCHANGED vars
        BY <1>2, <2>1 DEF vars, BuiltTransactionSerialises
    <2>2. CASE outcome' = "building" \/ outcome' \in Refusals
        BY <2>2 DEF Refusals, BuiltTransactionSerialises
    <2>3. ASSUME NEW rule \in FeeRules, BuildFrozen(rule) PROVE BuiltTransactionSerialises'
        <3>1. outcome' = "built" => Completion(UnauthedTx) = "built"
            BY <2>3, FrozenStep
        <3>2. CheckVersion(version) = "Ok" /\ tx' = UnauthedTx
            BY <2>3, FrozenStep
        <3>3. outcome' = "built" =>
                /\ ValidInBranch(UnauthedTx.version, UnauthedTx.branch)
                /\ ~WriteFails(UnauthedTx)
                /\ \A b \in BranchIds : ~ReadFails(WireOf(UnauthedTx), b)
            BY <1>2, <3>1, <3>2, FrozenSerialises, UnauthedBundles
        <3> QED BY <3>2, <3>3 DEF BuiltTransactionSerialises
    <2>4. ASSUME NEW f, Finish("pczt", PcztParts, f) PROVE BuiltTransactionSerialises'
        BY <2>4 DEF Finish, BuiltTransactionSerialises
    <2> QED BY <1>2, <2>1, <2>2, <2>3, <2>4, StepKinds
<1> QED BY <1>1, <1>2, BuilderInit, BuilderStep, PTL DEF Spec

(* Conservation of value: every reader of the serialisation computes the    *)
(* fee that the fee rule required, exactly.                                 *)
THEOREM FeeConservation == Spec => []WirePaysRequiredFee
<1>1. Init => WirePaysRequiredFee
    BY DEF Init, WirePaysRequiredFee
<1>2. ASSUME BuilderInv, WirePaysRequiredFee, [Next]_vars
      PROVE  WirePaysRequiredFee'
    <2>1. CASE UNCHANGED vars
        BY <1>2, <2>1 DEF vars, WirePaysRequiredFee, IsCoinbase
    <2>2. CASE outcome' = "building" \/ outcome' \in Refusals
        BY <2>2 DEF Refusals, WirePaysRequiredFee
    <2>3. ASSUME NEW rule \in FeeRules, BuildFrozen(rule) PROVE WirePaysRequiredFee'
        <3> SUFFICES ASSUME ~IsCoinbase
                     PROVE  WirePaysRequiredFee'
            BY <2>3, FrozenStep DEF WirePaysRequiredFee, IsCoinbase, setup
        <3>1. /\ CheckVersion(version) = "Ok" /\ tx' = UnauthedTx /\ fee' = GetFee(rule)
              /\ GetFee(rule) \in Zatoshis /\ BalanceError(GetFee(rule)) = "Ok"
            BY <2>3, FrozenStep
        <3>2. \A b \in BranchIds : /\ ~FeePaidFails(ReadTx(WireOf(UnauthedTx), b))
                                   /\ FeePaid(ReadTx(WireOf(UnauthedTx), b)) = GetFee(rule)
            BY <1>2, <3>1, FrozenPays
        <3> QED BY <3>1, <3>2 DEF WirePaysRequiredFee
    <2>4. ASSUME NEW f, Finish("pczt", PcztParts, f) PROVE WirePaysRequiredFee'
        BY <2>4 DEF Finish, WirePaysRequiredFee
    <2> QED BY <1>2, <2>1, <2>2, <2>3, <2>4, StepKinds
<1> QED BY <1>1, <1>2, BuilderInit, BuilderStep, PTL DEF Spec

(* How build ends, for a builder whose version passes the check: the only   *)
(* panics are those of a version before Overwinter and of orphaned dummies. *)
LEMMA CompletionIs ==
    ASSUME BuilderInv, CheckVersion(version) = "Ok"
    PROVE  /\ Completion(UnauthedTx) = IF version = "Sprout" THEN "sighash panic"
                                       ELSE IF OrphanedDummies THEN "freeze panic" ELSE "built"
           /\ ~(version = "Sprout" /\ OrphanedDummies)
<1>1. "orchard" \in Pools /\ "orchard" \in BuilderPools /\ version \in TxVersions
    BY DEF Pools, BuilderPools, ShieldedPools, BuilderInv, TypeOK
<1>2. SighashPanics(UnauthedTx) <=> version = "Sprout"
    BY UnauthedBundles DEF SighashPanics, HasOverwinter
<1>3. ASSUME Present(UnauthedTx, "orchard") \/ Present(UnauthedTx, "ironwood")
      PROVE  BundleVersionForBranch(branch, "orchard") # "None"
    <2>1. CASE Present(UnauthedTx, "orchard")
        <3>1. "orchard" \in builders
            BY <2>1, PresentHasBuilder
        <3> QED BY <3>1 DEF BuilderInv, BuildersAsCreated, BuildersFor
    <2>2. CASE Present(UnauthedTx, "ironwood")
        <3>1. branch = Nu6_3
            BY <2>2, PresentHasBuilder, IronwoodBuilder
        <3> QED BY <3>1 DEF BundleVersionForBranch, OrchardProtocolRevision, Nu6_3, Nu6_2, Nu5
    <2> QED BY <1>3, <2>1, <2>2
<1>4. ~Present(UnauthedTx, "sapling") \/ HasSapling(version)
    <2> SUFFICES ASSUME Present(UnauthedTx, "sapling") PROVE InUse("sapling")
        BY DEF CheckVersion
    <2>1. BuiltBundle("sapling").size > 0
        BY UnauthedBundles DEF Present, Pools
    <2>2. "sapling" \in BuilderPools
        BY DEF BuilderPools, ShieldedPools
    <2> QED BY <2>1, <2>2, UnusedMovesNothing DEF BuiltBundle, SaplingOutputCount
<1>5. FreezeFails(UnauthedTx) <=> ~CommitsToBranch(version) /\ Present(UnauthedTx, "orchard")
    BY <1>4, UnauthedBundles DEF FreezeFails, WriteV4Fails
<1>6. CommitsToBranch(version) <=> HasOrchard(version)
    BY <1>1 DEF CommitsToBranch, HasOrchard, TxVersions
<1>7. ASSUME ~HasOrchard(version)
      PROVE  /\ parts["orchard"].spends = 0 /\ parts["orchard"].outputs = 0
             /\ ~InUse("orchard")
    <2>1. ~InUse("orchard")
        BY <1>7 DEF CheckVersion
    <2> QED BY <1>1, <2>1, UnusedMovesNothing
<1>8. ASSUME FreezeFails(UnauthedTx) PROVE OrphanedDummies
    <2>1. ~HasOrchard(version) /\ Present(UnauthedTx, "orchard")
        BY <1>5, <1>6, <1>8
    <2>2. "orchard" \in builders /\ ActionCount("orchard") > 0
        BY <2>1, PresentHasBuilder
    <2>3. config.padding["orchard"].bundle_required /\ ~IsCoinbase
        BY <1>7, <2>1, <2>2 DEF ActionCount, Larger
    <2> QED BY <2>1, <2>2, <2>3 DEF OrphanedDummies
<1>9. ASSUME OrphanedDummies PROVE FreezeFails(UnauthedTx) /\ version # "Sprout"
    <2>1. /\ "orchard" \in builders /\ ~IsCoinbase /\ ~HasOrchard(version)
          /\ config.padding["orchard"].bundle_required
        BY <1>9 DEF OrphanedDummies
    <2>2. config.padding["orchard"].pad_to_minimum \in Nat \ {0}
        BY DEF BuilderInv, TypeOK, BuildConfigs
    <2>3. ActionCount("orchard") > 0
        BY <1>7, <2>1, <2>2 DEF ActionCount, Larger
    <2>4. UnauthedTx.bundle["orchard"].size = ActionCount("orchard")
        <3>1. BuiltBundle("orchard").size = ActionCount("orchard")
            BY <2>3 DEF BuiltBundle
        <3>2. UnauthedTx.bundle["orchard"] = BuiltBundle("orchard")
            BY <1>1, UnauthedBundles
        <3> QED BY <3>1, <3>2
    <2>5. Present(UnauthedTx, "orchard")
        BY <2>3, <2>4 DEF Present
    <2>6. BundleVersionForBranch(branch, "orchard") # "None"
        BY <1>3, <2>5
    <2>7. branch # Sprout
        BY <2>6 DEF BundleVersionForBranch, OrchardProtocolRevision, Sprout, Nu5, Nu6_2, Nu6_3
    <2>8. version # "Sprout"
        BY <2>7, SlotsMatchBranch DEF ValidInBranch
    <2> QED BY <1>5, <1>6, <2>1, <2>5, <2>8
<1>10. UnauthedTx.branch = branch
    BY UnauthedBundles
<1> HIDE DEF OrphanedDummies
<1> QED BY <1>2, <1>3, <1>8, <1>9, <1>10 DEF Completion

(* build panics in exactly two situations: before Overwinter, and on a      *)
(* required Orchard bundle of dummies in a version without Orchard.         *)
THEOREM PanicSituation == Spec => []PanicsExactlyWhen
<1>1. Init => PanicsExactlyWhen
    BY DEF Init, PanicsExactlyWhen, Panics
<1>2. ASSUME BuilderInv, PanicsExactlyWhen, [Next]_vars
      PROVE  PanicsExactlyWhen'
    <2>1. CASE UNCHANGED vars
        BY <1>2, <2>1 DEF vars, PanicsExactlyWhen, OrphanedDummies, IsCoinbase
    <2>2. CASE outcome' = "building" \/ outcome' \in Refusals
        BY <2>2 DEF Refusals, Panics, PanicsExactlyWhen
    <2>3. ASSUME NEW rule \in FeeRules, BuildFrozen(rule) PROVE PanicsExactlyWhen'
        <3>1. /\ CheckVersion(version) = "Ok"
              /\ outcome' = Completion(UnauthedTx)
              /\ UNCHANGED <<version, builders, config>>
            BY <2>3, FrozenStep DEF setup
        <3>2. OrphanedDummies' <=> OrphanedDummies
            BY <3>1 DEF OrphanedDummies, IsCoinbase
        <3>3. /\ outcome' = IF version = "Sprout" THEN "sighash panic"
                            ELSE IF OrphanedDummies THEN "freeze panic" ELSE "built"
              /\ ~(version = "Sprout" /\ OrphanedDummies)
            BY <1>2, <3>1, CompletionIs
        <3> QED BY <3>1, <3>2, <3>3 DEF PanicsExactlyWhen
    <2>4. ASSUME NEW f, Finish("pczt", PcztParts, f) PROVE PanicsExactlyWhen'
        BY <2>4 DEF Finish, PanicsExactlyWhen, Panics
    <2> QED BY <1>2, <2>1, <2>2, <2>3, <2>4, StepKinds
<1> QED BY <1>1, <1>2, BuilderInit, BuilderStep, PTL DEF Spec

(* Nothing that was added to a pool, and no staking action, is missing from *)
(* the serialisation of what either entry point returns.                    *)
THEOREM NothingLost == Spec => []NothingAddedIsLost
<1>1. Init => NothingAddedIsLost
    BY DEF Init, NothingAddedIsLost
<1>2. ASSUME BuilderInv, CheckVersion(version) = "Ok", NEW pool \in BuilderPools, InUse(pool)
      PROVE  /\ WireOf(UnauthedTx).bundle[pool].balance = Net(pool)
             /\ WireOf(UnauthedTx).bundle[pool].size
                    >= Larger(parts[pool].spends, parts[pool].outputs)
             /\ WireOf(PcztParts).bundle[pool].balance = Net(pool)
             /\ WireOf(PcztParts).bundle[pool].size
                    >= Larger(parts[pool].spends, parts[pool].outputs)
    <2>1. HasSlot(version, pool) /\ pool \in Pools
        BY <1>2, SlotForUse DEF Pools, BuilderPools, ShieldedPools
    <2>2. WireOf(UnauthedTx).bundle[pool] =
            [size |-> BuiltBundle(pool).size, balance |-> BuiltBundle(pool).balance]
        BY <2>1, UnauthedBundles DEF WireOf
    <2>3. PcztParts.version = version
        BY DEF PcztParts, UnauthedTx
    <2>4. WireOf(PcztParts).bundle[pool] =
            [size |-> PcztParts.bundle[pool].size, balance |-> PcztParts.bundle[pool].balance]
        BY <2>1, <2>3 DEF WireOf
    <2>5. CASE pool = "transparent"
        <3>1. PcztParts.bundle[pool] = [version |-> "None", balance |-> Net(pool),
                    size |-> parts[pool].spends + parts[pool].outputs]
            BY <2>5 DEF PcztParts, UnauthedTx, Pools
        <3>2. parts[pool].spends \in Nat /\ parts[pool].outputs \in Nat
            BY <1>2 DEF BuilderInv, TypeOK, Part
        <3> QED BY <1>2, <2>2, <2>4, <3>1, <3>2, BundleCarriesPool DEF Larger
    <2>6. CASE pool # "transparent"
        <3>1. PcztParts.bundle[pool] = BuiltBundle(pool)
            <4>1. pool = "ironwood" => HasIronwood(version)
                BY <2>1 DEF HasSlot
            <4> QED BY <2>1, <2>6, <4>1 DEF PcztParts, UnauthedTx, Pools
        <3> QED BY <1>2, <2>2, <2>4, <3>1, BundleCarriesPool
    <2> QED BY <2>5, <2>6
<1>3. ASSUME BuilderInv
      PROVE  WireOf(UnauthedTx).staking = staking /\ WireOf(PcztParts).staking = staking
    <2>1. PcztParts.version = version /\ PcztParts.staking = staking
        BY DEF PcztParts, UnauthedTx
    <2> QED BY <1>3, <2>1, UnauthedBundles DEF WireOf, BuilderInv, StakingNeedsVCrosslink
<1>4. ASSUME BuilderInv, CheckVersion(version) = "Ok", tx' \in {UnauthedTx, PcztParts},
             UNCHANGED <<parts, staking>>
      PROVE  NothingAddedIsLost'
    BY <1>2, <1>3, <1>4 DEF NothingAddedIsLost, InUse, Net
<1>5. ASSUME BuilderInv, NothingAddedIsLost, [Next]_vars
      PROVE  NothingAddedIsLost'
    <2>1. CASE UNCHANGED vars
        BY <1>5, <2>1 DEF vars, NothingAddedIsLost, InUse, Net
    <2>2. CASE outcome' = "building" \/ outcome' \in Refusals
        BY <2>2 DEF Refusals, NothingAddedIsLost
    <2>3. ASSUME NEW rule \in FeeRules, BuildFrozen(rule) PROVE NothingAddedIsLost'
        BY <1>4, <1>5, <2>3, FrozenStep
    <2>4. ASSUME NEW rule \in FeeRules, PcztError(rule) = "Ok",
                 Finish("pczt", PcztParts, GetFee(rule))
          PROVE  NothingAddedIsLost'
        <3>1. CheckVersion(version) = "Ok"
            BY <2>4 DEF PcztError
        <3> QED BY <1>4, <1>5, <2>4, <3>1 DEF Finish
    <2> QED BY <1>5, <2>1, <2>2, <2>3, <2>4, StepKinds
<1> QED BY <1>1, <1>5, BuilderInit, BuilderStep, PTL DEF Spec

(* A coinbase transaction that build returns expires at its own height,     *)
(* takes value from no shielded pool and stakes nothing.                    *)
THEOREM CoinbaseSafety == Spec => []CoinbaseIsWellFormed
<1>1. Init => CoinbaseIsWellFormed
    BY DEF Init, CoinbaseIsWellFormed
<1>2. ASSUME BuilderInv, IsCoinbase, NEW pool \in ShieldedPools
      PROVE  parts[pool].spends = 0 /\ UnauthedTx.bundle[pool].balance <= 0
    <2>1. parts[pool] \in Part /\ pool \in BuilderPools /\ pool \in Pools
        BY <1>2 DEF BuilderInv, TypeOK, BuilderPools, ShieldedPools, Pools
    <2>2. parts[pool].spends = 0
        BY <1>2 DEF BuilderInv, PartsConsistent
    <2>3. parts[pool].in = 0 /\ parts[pool].out \in Nat
        BY <1>2, <2>1, <2>2 DEF BuilderInv, PartsConsistent, Part
    <2>4. Net(pool) <= 0
        BY <2>3 DEF Net
    <2>5. UnauthedTx.bundle[pool].balance = Net(pool)
        BY <1>2, <2>1, UnauthedBundles, BundleCarriesPool
    <2> QED BY <2>2, <2>4, <2>5
<1>3. ASSUME BuilderInv, IsCoinbase PROVE staking = NoStaking
    BY <1>3 DEF BuilderInv, StakingNeedsVCrosslink, IsCoinbase, IsVCrosslink
<1>4. ASSUME BuilderInv, CoinbaseIsWellFormed, [Next]_vars
      PROVE  CoinbaseIsWellFormed'
    <2>1. CASE UNCHANGED vars
        BY <1>4, <2>1 DEF vars, CoinbaseIsWellFormed, IsCoinbase
    <2>2. CASE outcome' = "building" \/ outcome' \in Refusals
        BY <2>2 DEF Refusals, CoinbaseIsWellFormed
    <2>3. ASSUME NEW rule \in FeeRules, BuildFrozen(rule) PROVE CoinbaseIsWellFormed'
        <3> SUFFICES ASSUME IsCoinbase PROVE CoinbaseIsWellFormed'
            BY <2>3, FrozenStep DEF CoinbaseIsWellFormed, IsCoinbase, setup
        <3>1. tx' = UnauthedTx /\ expiry = target /\ UNCHANGED <<target, parts>>
            BY <2>3, FrozenStep DEF CoinbaseExpiryMismatch, setup
        <3>2. UnauthedTx.expiry = target /\ UnauthedTx.staking = NoStaking
            BY <1>3, <1>4, <3>1, UnauthedBundles
        <3> QED BY <1>2, <1>4, <3>1, <3>2 DEF CoinbaseIsWellFormed
    <2>4. ASSUME NEW f, Finish("pczt", PcztParts, f) PROVE CoinbaseIsWellFormed'
        BY <2>4 DEF Finish, CoinbaseIsWellFormed
    <2> QED BY <1>4, <2>1, <2>2, <2>3, <2>4, StepKinds
<1> QED BY <1>1, <1>4, BuilderInit, BuilderStep, PTL DEF Spec

(* The two entry points refuse the same standard builders for the same      *)
(* reasons, and build returns a transaction for all that build_for_pczt     *)
(* accepts but the two kinds on which it panics.                            *)
THEOREM EntryPoints == Spec => []EntryPointsDifferOnlyInPanics
<1>1. BuilderInv => EntryPointsDifferOnlyInPanics
    <2> SUFFICES ASSUME BuilderInv, config.kind = "Standard", NEW rule \in FeeRules
                 PROVE  BuildVerdict(rule) =
                            IF PcztError(rule) # "Ok" THEN PcztError(rule)
                            ELSE IF version = "Sprout" THEN "sighash panic"
                            ELSE IF OrphanedDummies THEN "freeze panic" ELSE "built"
        BY DEF EntryPointsDifferOnlyInPanics
    <2>1. ~IsCoinbase /\ ~HasCrosslink(version)
        BY DEF BuilderInv, StakingNeedsVCrosslink, IsCoinbase, IsVCrosslink
    <2>2. BuildError(rule) = PcztError(rule)
        BY <2>1 DEF BuildError, PcztError
    <2>3. BuildError(rule) = "Ok" => CheckVersion(version) = "Ok"
        BY DEF BuildError
    <2> QED BY <2>2, <2>3, CompletionIs DEF BuildVerdict
<1> QED BY <1>1, BuilderInit, BuilderStep, PTL DEF Spec

----------------------------------------------------------------------------
(* Reading back what build returned.                                        *)

Data(ve, br, ex, bu, st) ==
    [version |-> ve, branch |-> br, expiry |-> ex, bundle |-> bu, staking |-> st]

(* A pool whose slot is missing has nothing to lose, except dummy actions   *)
(* of a required Ironwood bundle.                                           *)
LEMMA SlotlessIsEmpty ==
    ASSUME BuilderInv, CheckVersion(version) = "Ok", Completion(UnauthedTx) = "built",
           NEW pool \in Pools, ~HasSlot(version, pool)
    PROVE  \/ BuiltBundle(pool) = NoBundle
           \/ /\ pool = "ironwood" /\ ActionCount("ironwood") > 0 /\ ~InUse("ironwood")
              /\ config.padding["ironwood"].bundle_required
<1>1. CASE pool = "transparent"
    BY <1>1 DEF HasSlot
<1>2. CASE pool = "sprout"
    BY <1>2, SproutIsEmpty
<1>3. CASE pool = "sapling"
    <2>1. "sapling" \in BuilderPools
        BY DEF BuilderPools, ShieldedPools
    <2>2. ~InUse("sapling")
        BY <1>3, <2>1, SlotForUse
    <2>3. parts["sapling"].spends = 0 /\ parts["sapling"].outputs = 0 /\ Net("sapling") = 0
        BY <2>1, <2>2, UnusedMovesNothing
    <2> QED BY <1>3, <2>2, <2>3 DEF BuiltBundle, SaplingOutputCount, NoBundle
<1>4. CASE pool = "orchard"
    <2>1. ~CommitsToBranch(version)
        <3>1. version \in TxVersions
            BY DEF BuilderInv, TypeOK
        <3> QED BY <1>4, <3>1 DEF HasSlot, HasOrchard, CommitsToBranch, TxVersions
    <2>2. ~Present(UnauthedTx, "orchard")
        BY <2>1, UnauthedBundles DEF Completion, FreezeFails, WriteV4Fails
    <2>3. ~(BuiltBundle("orchard").size > 0)
        BY <2>2, UnauthedBundles DEF Present, Pools
    <2> QED BY <1>4, <2>3 DEF BuiltBundle
<1>5. CASE pool = "ironwood"
    <2>1. "ironwood" \in BuilderPools
        BY DEF BuilderPools, ShieldedPools
    <2>2. ~InUse("ironwood")
        BY <1>5, <2>1, SlotForUse
    <2>3. parts["ironwood"].spends = 0 /\ parts["ironwood"].outputs = 0
        BY <2>1, <2>2, UnusedMovesNothing
    <2>4. ActionCount("ironwood") > 0 => config.padding["ironwood"].bundle_required
        BY <2>3 DEF ActionCount, Larger
    <2> QED BY <1>5, <2>2, <2>4 DEF BuiltBundle
<1> QED BY <1>1, <1>2, <1>3, <1>4, <1>5 DEF Pools

(* What a reader of the right branch sees of a pool. *)
LEMMA PoolReadsBack ==
    ASSUME BuilderInv, CheckVersion(version) = "Ok", NEW pool \in Pools
    PROVE  ReadTx(WireOf(UnauthedTx), branch).bundle[pool]
               = IF HasSlot(version, pool) THEN BuiltBundle(pool) ELSE NoBundle
<1> DEFINE wire == WireOf(UnauthedTx)
           seen == ReadTx(wire, branch)
           built == BuiltBundle(pool)
<1>1. ReadBranch(wire, branch) = branch /\ wire.version = version
    BY UnauthedBundles DEF ReadBranch, WireOf
<1>2. wire.bundle[pool] = IF HasSlot(version, pool)
                          THEN [size |-> built.size, balance |-> built.balance]
                          ELSE [size |-> 0, balance |-> 0]
    BY UnauthedBundles DEF WireOf
<1> HIDE DEF wire
<1>3. seen.bundle[pool] =
        [version |-> IF pool \in {"orchard", "ironwood"} /\ wire.bundle[pool].size > 0
                     THEN BundleVersionForBranch(branch, pool) ELSE "None",
         size |-> wire.bundle[pool].size, balance |-> wire.bundle[pool].balance]
    BY <1>1 DEF ReadTx
<1>4. CASE ~HasSlot(version, pool)
    BY <1>2, <1>3, <1>4 DEF NoBundle, wire
<1>5. CASE HasSlot(version, pool)
    <2>1. wire.bundle[pool].size = built.size /\ wire.bundle[pool].balance = built.balance
        BY <1>2, <1>5
    <2>2. built = [version |-> IF pool \in {"orchard", "ironwood"} /\ built.size > 0
                               THEN BundleVersionForBranch(branch, pool) ELSE "None",
                   size |-> built.size, balance |-> built.balance]
        <3>1. CASE pool = "ironwood"
            <4>1. BundleVersionForBranch(branch, "ironwood") = "ironwood_v3"
                BY <1>5, <3>1, SlotsMatchBranch DEF HasSlot
            <4> QED BY <3>1, <4>1 DEF BuiltBundle, NoBundle
        <3>2. CASE pool = "orchard"
            BY <3>2 DEF BuiltBundle, NoBundle
        <3>3. CASE pool \notin {"orchard", "ironwood"}
            BY <3>3 DEF BuiltBundle, NoBundle
        <3> QED BY <3>1, <3>2, <3>3
    <2> HIDE DEF built, seen
    <2>3. seen.bundle[pool] = built
        BY <1>3, <2>1, <2>2
    <2> QED BY <1>5, <2>3 DEF built, seen, wire
<1> QED BY <1>4, <1>5

LEMMA FrozenReadsBack ==
    ASSUME BuilderInv, CheckVersion(version) = "Ok", Completion(UnauthedTx) = "built"
    PROVE  LET seen == ReadTx(WireOf(UnauthedTx), branch)
           IN  \/ seen = UnauthedTx
               \/ /\ ~HasIronwood(version) /\ ~InUse("ironwood")
                  /\ config.padding["ironwood"].bundle_required
                  /\ seen = [UnauthedTx EXCEPT !.bundle["ironwood"] = NoBundle]
<1> DEFINE seen == ReadTx(WireOf(UnauthedTx), branch)
           built == [pool \in Pools |-> BuiltBundle(pool)]
           read == seen.bundle
<1>0. HasOverwinter(version)
    BY UnauthedBundles DEF Completion, SighashPanics
<1>1. seen = Data(version, branch, expiry, read, staking)
    BY <1>0, UnauthedBundles DEF ReadTx, WireOf, ReadBranch, Data, BuilderInv, StakingNeedsVCrosslink
<1>2. UnauthedTx = Data(version, branch, expiry, built, staking)
    BY DEF UnauthedTx, Data
<1>3. read = [pool \in Pools |-> read[pool]]
    BY DEF ReadTx
<1>4. \A pool \in Pools : read[pool] = IF HasSlot(version, pool) THEN BuiltBundle(pool) ELSE NoBundle
    BY PoolReadsBack
<1> HIDE DEF seen, read
<1>5. CASE HasSlot(version, "ironwood") \/ ~(ActionCount("ironwood") > 0)
    <2>1. \A pool \in Pools : read[pool] = BuiltBundle(pool)
        BY <1>4, <1>5, SlotlessIsEmpty
    <2>2. read = built
        BY <1>3, <2>1
    <2>3. seen = UnauthedTx
        BY <1>1, <1>2, <2>2
    <2> QED BY <2>3 DEF seen
<1>6. CASE ~HasSlot(version, "ironwood") /\ ActionCount("ironwood") > 0
    <2>1. BuiltBundle("ironwood") # NoBundle
        BY <1>6 DEF BuiltBundle, NoBundle
    <2>2. ~InUse("ironwood") /\ config.padding["ironwood"].bundle_required
        BY <1>6, <2>1, SlotlessIsEmpty DEF Pools
    <2>3. \A pool \in Pools : read[pool] = IF pool = "ironwood" THEN NoBundle ELSE BuiltBundle(pool)
        BY <1>4, <1>6, SlotlessIsEmpty
    <2>4. read = [built EXCEPT !["ironwood"] = NoBundle]
        BY <1>3, <2>3
    <2> HIDE DEF built
    <2>5. [UnauthedTx EXCEPT !.bundle["ironwood"] = NoBundle]
            = Data(version, branch, expiry, [built EXCEPT !["ironwood"] = NoBundle], staking)
        BY <1>2 DEF Data
    <2>6. seen = [UnauthedTx EXCEPT !.bundle["ironwood"] = NoBundle]
        BY <1>1, <2>4, <2>5
    <2> QED BY <1>6, <2>2, <2>6 DEF seen, HasSlot
<1> QED BY <1>5, <1>6

(* A reader of the right branch recovers what build returned, except for    *)
(* dummy Ironwood actions that nobody asked for.                            *)
THEOREM RoundTrips == Spec => []RoundTripsUnlessDummies
<1>1. Init => RoundTripsUnlessDummies
    BY DEF Init, RoundTripsUnlessDummies
<1>2. ASSUME BuilderInv, RoundTripsUnlessDummies, [Next]_vars
      PROVE  RoundTripsUnlessDummies'
    <2>1. CASE UNCHANGED vars
        BY <1>2, <2>1 DEF vars, RoundTripsUnlessDummies, InUse
    <2>2. CASE outcome' = "building" \/ outcome' \in Refusals
        BY <2>2 DEF Refusals, RoundTripsUnlessDummies
    <2>3. ASSUME NEW rule \in FeeRules, BuildFrozen(rule) PROVE RoundTripsUnlessDummies'
        <3>1. /\ CheckVersion(version) = "Ok" /\ tx' = UnauthedTx
              /\ outcome' = "built" => Completion(UnauthedTx) = "built"
              /\ UNCHANGED <<parts, config>>
            BY <2>3, FrozenStep DEF setup
        <3>2. UnauthedTx.version = version /\ UnauthedTx.branch = branch
            BY UnauthedBundles
        <3>3. InUse("ironwood")' <=> InUse("ironwood")
            BY <3>1 DEF InUse
        <3> QED BY <1>2, <3>1, <3>2, <3>3, FrozenReadsBack DEF RoundTripsUnlessDummies
    <2>4. ASSUME NEW f, Finish("pczt", PcztParts, f) PROVE RoundTripsUnlessDummies'
        BY <2>4 DEF Finish, RoundTripsUnlessDummies
    <2> QED BY <1>2, <2>1, <2>2, <2>3, <2>4, StepKinds
<1> QED BY <1>1, <1>2, BuilderInit, BuilderStep, PTL DEF Spec

----------------------------------------------------------------------------
(* The conventional fee grows with what is added.                           *)

LEMMA QuotientGrows ==
    ASSUME NEW b \in Nat \ {0}, NEW a \in Nat, NEW c \in Nat, a <= c
    PROVE  CeilDiv(a, b) \in Nat /\ CeilDiv(c, b) \in Nat /\ CeilDiv(a, b) <= CeilDiv(c, b)
<1> DEFINE x == a + b - 1
           y == c + b - 1
           p == x \div b
           q == y \div b
<1>1. x \in Nat /\ y \in Nat /\ x <= y
    OBVIOUS
<1> HIDE DEF x, y
<1>2. p \in Nat /\ q \in Nat /\ b * p <= x /\ y < b * q + b
    BY <1>1
<1> HIDE DEF p, q
<1>3. ASSUME q < p PROVE FALSE
    <2>1. PICK d \in Nat : p = (q + 1) + d
        <3>1. p - (q + 1) \in Nat /\ p = (q + 1) + (p - (q + 1))
            BY <1>2, <1>3
        <3> QED BY <3>1
    <2>2. b * p = b * q + b + b * d /\ b * d \in Nat /\ b * q \in Nat
        BY <1>2, <2>1
    <2> QED BY <1>1, <1>2, <2>2
<1> QED BY <1>2, <1>3 DEF CeilDiv, p, q, x, y

LEMMA ProductGrows ==
    ASSUME NEW m \in Nat, NEW a \in Nat, NEW c \in Nat, a <= c
    PROVE  m * c >= m * a
<1>1. PICK d \in Nat : c = a + d
    <2>1. c - a \in Nat /\ c = a + (c - a)
        OBVIOUS
    <2> QED BY <2>1
<1>2. m * d \in Nat /\ m * a \in Nat /\ m * c = m * a + m * d
    BY <1>1
<1> QED BY <1>2

(* A step of the builder that adds to pools, or leaves them alone. *)
Grows ==
    /\ \A pool \in BuilderPools : /\ parts'[pool].spends >= parts[pool].spends
                                  /\ parts'[pool].outputs >= parts[pool].outputs
    /\ tsize'.in >= tsize.in /\ tsize'.out >= tsize.out

LEMMA ActionsGrow ==
    ASSUME TypeOK, TypeOK', UNCHANGED setup, Grows, NEW pool \in {"orchard", "ironwood"}
    PROVE  /\ ActionCount(pool) \in Nat /\ ActionCount(pool)' \in Nat
           /\ ActionCount(pool)' >= ActionCount(pool)
<1>1. pool \in BuilderPools
    BY DEF BuilderPools, ShieldedPools
<1>2. /\ parts[pool].spends \in Nat /\ parts[pool].outputs \in Nat
      /\ parts'[pool].spends \in Nat /\ parts'[pool].outputs \in Nat
      /\ parts'[pool].spends >= parts[pool].spends
      /\ parts'[pool].outputs >= parts[pool].outputs
    BY <1>1 DEF TypeOK, Part, Grows
<1>3. config.padding[pool].pad_to_minimum \in Nat
    BY DEF TypeOK, BuildConfigs
<1>4. config' = config /\ branch' = branch /\ builders' = builders
    BY DEF setup
<1> DEFINE apart == pool = "orchard" /\ BundleVersionForBranch(branch, "orchard") = "orchard_v3"
           requested(p) == IF apart THEN p.spends + p.outputs ELSE Larger(p.spends, p.outputs)
           count(p) == IF pool \notin builders THEN 0
                       ELSE IF IsCoinbase THEN p.outputs
                       ELSE IF requested(p) = 0 /\ ~config.padding[pool].bundle_required THEN 0
                       ELSE Larger(requested(p), config.padding[pool].pad_to_minimum)
<1>5. ActionCount(pool) = count(parts[pool]) /\ ActionCount(pool)' = count(parts'[pool])
    BY <1>4 DEF ActionCount, IsCoinbase
<1>6. /\ requested(parts[pool]) \in Nat /\ requested(parts'[pool]) \in Nat
      /\ requested(parts'[pool]) >= requested(parts[pool])
    <2> HIDE DEF apart
    <2> QED BY <1>2 DEF Larger
<1> HIDE DEF requested
<1>7. /\ count(parts[pool]) \in Nat /\ count(parts'[pool]) \in Nat
      /\ count(parts'[pool]) >= count(parts[pool])
    BY <1>2, <1>3, <1>6 DEF Larger
<1> HIDE DEF count
<1> QED BY <1>5, <1>7

LEMMA SaplingGrows ==
    ASSUME TypeOK, TypeOK', UNCHANGED setup, Grows
    PROVE  LET now == Larger(parts["sapling"].spends, SaplingOutputCount)
           IN  now \in Nat /\ now' \in Nat /\ now' >= now
<1>1. "sapling" \in BuilderPools
    BY DEF BuilderPools, ShieldedPools
<1>2. /\ parts["sapling"].spends \in Nat /\ parts["sapling"].outputs \in Nat
      /\ parts'["sapling"].spends \in Nat /\ parts'["sapling"].outputs \in Nat
      /\ parts'["sapling"].spends >= parts["sapling"].spends
      /\ parts'["sapling"].outputs >= parts["sapling"].outputs
    BY <1>1 DEF TypeOK, Part, Grows
<1>3. config' = config
    BY DEF setup
<1> DEFINE count(p) == IF ~(p.spends + p.outputs > 0) \/ IsCoinbase
                       THEN p.outputs ELSE Larger(p.outputs, 2)
           before == parts["sapling"]
           after == parts'["sapling"]
<1>4. /\ SaplingOutputCount = count(before)
      /\ SaplingOutputCount' = count(after)
    BY <1>3 DEF SaplingOutputCount, InUse, IsCoinbase
<1>5. count(before) \in Nat /\ count(after) \in Nat /\ count(after) >= count(before)
    BY <1>2 DEF Larger
<1> HIDE DEF count
<1>6. /\ Larger(before.spends, count(before)) \in Nat
      /\ Larger(after.spends, count(after)) \in Nat
      /\ Larger(after.spends, count(after)) >= Larger(before.spends, count(before))
    BY <1>2, <1>5 DEF Larger
<1> QED BY <1>4, <1>6 DEF Larger

LEMMA FeeGrows ==
    ASSUME TypeOK, TypeOK', UNCHANGED setup, Grows
    PROVE  GetFee("zip317")' >= GetFee("zip317")
<1> DEFINE in == CeilDiv(tsize.in, P2PKH_STANDARD_INPUT_SIZE)
           out == CeilDiv(tsize.out, P2PKH_STANDARD_OUTPUT_SIZE)
           sapling == Larger(parts["sapling"].spends, SaplingOutputCount)
           actions == LogicalActions
<1>1. /\ tsize.in \in Nat /\ tsize.out \in Nat /\ tsize'.in \in Nat /\ tsize'.out \in Nat
      /\ tsize.in <= tsize'.in /\ tsize.out <= tsize'.out
    BY DEF TypeOK, Grows
<1>2. in \in Nat /\ in' \in Nat /\ in <= in' /\ out \in Nat /\ out' \in Nat /\ out <= out'
    BY <1>1, FeeAssumption, QuotientGrows
<1>3. sapling \in Nat /\ sapling' \in Nat /\ sapling' >= sapling
    BY SaplingGrows
<1>4. /\ ActionCount("orchard") \in Nat /\ ActionCount("orchard")' \in Nat
      /\ ActionCount("orchard")' >= ActionCount("orchard")
      /\ ActionCount("ironwood") \in Nat /\ ActionCount("ironwood")' \in Nat
      /\ ActionCount("ironwood")' >= ActionCount("ironwood")
    BY ActionsGrow
<1>5. /\ actions = Larger(in, out) + sapling + ActionCount("orchard") + ActionCount("ironwood")
      /\ actions' = Larger(in', out') + sapling' + ActionCount("orchard")' + ActionCount("ironwood")'
    BY DEF LogicalActions, Larger
<1> HIDE DEF in, out, sapling, actions
<1>6. Larger(in, out) \in Nat /\ Larger(in', out') \in Nat /\ Larger(in', out') >= Larger(in, out)
    BY <1>2 DEF Larger
<1>7. actions \in Nat /\ actions' \in Nat /\ actions <= actions'
    BY <1>3, <1>4, <1>5, <1>6
<1>8. /\ Larger(GRACE_ACTIONS, actions) \in Nat /\ Larger(GRACE_ACTIONS, actions') \in Nat
      /\ Larger(GRACE_ACTIONS, actions) <= Larger(GRACE_ACTIONS, actions')
    BY <1>7, FeeAssumption DEF Larger
<1>9. MARGINAL_FEE \in Nat
    BY FeeAssumption, MoneyAssumption DEF Zatoshis
<1>10. MARGINAL_FEE * Larger(GRACE_ACTIONS, actions') >= MARGINAL_FEE * Larger(GRACE_ACTIONS, actions)
    BY <1>8, <1>9, ProductGrows
<1>11. /\ GetFee("zip317") = MARGINAL_FEE * Larger(GRACE_ACTIONS, actions)
       /\ GetFee("zip317")' = MARGINAL_FEE * Larger(GRACE_ACTIONS, actions')
    BY DEF GetFee, actions, Larger
<1> QED BY <1>10, <1>11

LEMMA StepsGrow ==
    ASSUME TypeOK, Next
    PROVE  UNCHANGED setup /\ Grows
<1> DEFINE Kept == UNCHANGED <<setup, parts, tsize>>
<1>1. ASSUME Kept PROVE UNCHANGED setup /\ Grows
    <2>1. \A pool \in BuilderPools : parts[pool].spends \in Nat /\ parts[pool].outputs \in Nat
        BY DEF TypeOK, Part
    <2>2. tsize.in \in Nat /\ tsize.out \in Nat
        BY DEF TypeOK
    <2> QED BY <1>1, <2>1, <2>2 DEF Grows
<1>2. ASSUME NEW pool \in BuilderPools, NEW value \in Nat,
             AddSpendTo(pool, value) \/ AddOutputTo(pool, value)
      PROVE  \A q \in BuilderPools : /\ parts'[q].spends >= parts[q].spends
                                     /\ parts'[q].outputs >= parts[q].outputs
    <2> SUFFICES ASSUME NEW q \in BuilderPools
                 PROVE  parts'[q].spends >= parts[q].spends /\ parts'[q].outputs >= parts[q].outputs
        OBVIOUS
    <2>1. parts[q].spends \in Nat /\ parts[q].outputs \in Nat
        BY DEF TypeOK, Part
    <2>2. CASE AddSpendTo(pool, value)
        <3>1. q # pool => parts'[q] = parts[q]
            BY <2>2, SpendAdded
        <3>2. q = pool => /\ parts'[q].spends = parts[q].spends + 1
                          /\ parts'[q].outputs = parts[q].outputs
            BY <2>2, SpendAdded
        <3> QED BY <2>1, <3>1, <3>2
    <2>3. CASE AddOutputTo(pool, value)
        <3>1. q # pool => parts'[q] = parts[q]
            BY <2>3, OutputAdded
        <3>2. q = pool => /\ parts'[q].spends = parts[q].spends
                          /\ parts'[q].outputs = parts[q].outputs + 1
            BY <2>3, OutputAdded
        <3> QED BY <2>1, <3>1, <3>2
    <2> QED BY <1>2, <2>2, <2>3
<1>3. NoteValues \subseteq Nat /\ ShieldedPools \subseteq BuilderPools
    BY BuilderAssumption, MoneyAssumption DEF Zatoshis, BuilderPools
<1>4. tsize \in [in : Nat, out : Nat, unknown : BOOLEAN]
    BY DEF TypeOK
<1>5. ASSUME NEW v \in TxVersions, ProposeVersion(v) PROVE Kept
    BY <1>5 DEF ProposeVersion
<1>6. ASSUME NEW h \in ExpiryHeights, WithExpiryHeight(h) PROVE Kept
    BY <1>6 DEF WithExpiryHeight
<1>7. ASSUME NEW action \in StakingPuts, PutStakingAction(action) PROVE Kept
    BY <1>7 DEF PutStakingAction
<1>8. ASSUME NEW rule \in FeeRules, Build(rule) \/ BuildForPczt(rule) PROVE Kept
    BY <1>8 DEF Build, BuildRefused, BuildUnsigned, BuildFrozen, BuildForPczt, Finish
<1>9. ASSUME NEW pool \in ShieldedPools, NEW value \in NoteValues,
             \/ AddShieldedSpend(pool, value) \/ AddShieldedOutput(pool, value)
             \/ pool = "orchard" /\ AddOrchardChangeOutput(value)
      PROVE  UNCHANGED setup /\ Grows
    <2>1. /\ AddSpendTo(pool, value) \/ AddOutputTo(pool, value)
          /\ UNCHANGED <<setup, tsize>>
        BY <1>9 DEF AddShieldedSpend, AddShieldedOutput, AddOrchardChangeOutput
    <2> QED BY <1>2, <1>3, <1>4, <2>1 DEF Grows
<1>10. ASSUME NEW coin \in TransparentInputs, AddTransparentInput(coin)
       PROVE  UNCHANGED setup /\ Grows
    <2>1. coin.value \in Nat /\ coin.size \in Nat \union {UnknownSize}
        BY BuilderAssumption, MoneyAssumption DEF Zatoshis
    <2>2. tsize'.in >= tsize.in /\ tsize'.out >= tsize.out
        BY <1>4, <1>10, <2>1 DEF AddTransparentInput
    <2> QED BY <1>2, <1>10, <2>1, <2>2 DEF AddTransparentInput, Grows, BuilderPools
<1>11. ASSUME NEW output \in TransparentOutputs, AddTransparentOutput(output)
       PROVE  UNCHANGED setup /\ Grows
    <2>1. output.value \in Nat /\ output.size \in Nat
        BY BuilderAssumption, MoneyAssumption DEF Zatoshis
    <2>2. tsize'.in >= tsize.in /\ tsize'.out >= tsize.out
        BY <1>4, <1>11, <2>1 DEF AddTransparentOutput
    <2> QED BY <1>2, <1>11, <2>1, <2>2 DEF AddTransparentOutput, Grows, BuilderPools
<1>12. "orchard" \in ShieldedPools
    BY DEF ShieldedPools
<1> HIDE DEF Kept
<1> QED BY <1>1, <1>5, <1>6, <1>7, <1>8, <1>9, <1>10, <1>11, <1>12 DEF Next

(* No call lowers the conventional fee, for any fee parameters, sizes and   *)
(* padding: rounding to logical actions, the padding of bundles and the     *)
(* grace actions are all monotone.                                          *)
THEOREM AddingNeverLowersTheFee == Spec => FeeNeverFalls
<1>1. ASSUME BuilderInv, BuilderInv', [Next]_vars
      PROVE  [GetFee("zip317")' >= GetFee("zip317")]_vars
    BY <1>1, StepsGrow, FeeGrows DEF BuilderInv
<1> QED BY <1>1, BuilderInit, BuilderStep, PTL DEF Spec, FeeNeverFalls
=============================================================================
