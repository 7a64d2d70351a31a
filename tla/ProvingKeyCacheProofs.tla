----------------------- MODULE ProvingKeyCacheProofs -----------------------
(***************************************************************************)
(* The proving key cache for any number of threads, builds and panics: its *)
(* types, that every proof matches its bundle, and that the cells of       *)
(* cached_orchard_proving_key implement the store of KeyStore.             *)
(***************************************************************************)
EXTENDS ProvingKeyCache, TLAPS

(* The match of cached_orchard_proving_key gives each version its own cell. *)
LEMMA CellsApart ==
    /\ \A v \in CircuitVersions : CellOf(v) \in Cells
    /\ \A v, w \in CircuitVersions : CellOf(v) = CellOf(w) => v = w
    /\ \A c \in Cells : \E v \in CircuitVersions : c = CellOf(v)
BY DEF CellOf, Cells, CircuitVersions

LEMMA WantsTyped == \A t : Wants(t) \in CircuitVersions
BY DEF Wants, OrchardCircuitVersion, CircuitVersion, CircuitVersions

(* A key tells itself from NoKey. *)
LEMMA KeysApart == \A key \in Keys : key # NoKey /\ key.version \in CircuitVersions
BY CacheAssumption DEF Keys

(* The circuit version of a bundle of either pool is that of the branch.    *)
LEMMA OneCircuitPerBranch ==
    ASSUME NEW build \in Builds, NEW pool \in build.pools
    PROVE  /\ BundleVersionForBranch(build.branch, pool) \in BundleVersions
           /\ CircuitVersion(BundleVersionForBranch(build.branch, pool)) = OrchardCircuitVersion(build)
<1>1. BundleVersionForBranch(build.branch, pool) # "None"
    BY CacheAssumption
<1>2. pool \in OrchardPools
    BY CacheAssumption
<1> QED BY <1>1, <1>2 DEF BundleVersionForBranch, BundleVersions, CircuitVersion,
        OrchardCircuitVersion, OrchardPools

----------------------------------------------------------------------------
(* The parts of the invariant that are about who fills which cell.          *)

LEMMA InvInit == Init => CacheInv
<1> SUFFICES ASSUME Init PROVE CacheInv
    OBVIOUS
<1>1. TypeOK
    BY CacheAssumption DEF Init, TypeOK
<1>2. \A v \in CircuitVersions : content[CellOf(v)] = NoKey
    BY CellsApart DEF Init
<1> QED BY <1>1, <1>2 DEF Init, CacheInv

LEMMA StartBuildInv ==
    ASSUME CacheInv, NEW t \in Threads, NEW build \in Builds, StartBuild(t, build)
    PROVE  CacheInv'
<1>1. /\ pc' = [pc EXCEPT ![t] = "calling"] /\ job' = [job EXCEPT ![t] = build]
      /\ ticket' = [ticket EXCEPT ![t] = builds + 1] /\ builds' = builds + 1
      /\ UNCHANGED <<cell, content, held, proofs, panics>> /\ pc[t] = "idle" /\ builds < MaxBuilds
    BY DEF StartBuild, cache
<1>2. builds + 1 \in 0 .. MaxBuilds /\ builds + 1 # 0
    BY <1>1, CacheAssumption DEF CacheInv, TypeOK
<1>3. TypeOK'
    BY <1>1, <1>2 DEF CacheInv, TypeOK
<1>4. \A u \in Threads : u # t => Wants(u)' = Wants(u) /\ pc'[u] = pc[u] /\ job'[u] = job[u] /\ ticket'[u] = ticket[u]
    BY <1>1 DEF CacheInv, TypeOK, Wants
<1>5. pc'[t] = "calling" /\ job'[t] = build /\ ticket'[t] # 0
    BY <1>1, <1>2 DEF CacheInv, TypeOK
<1> QED BY <1>1, <1>3, <1>4, <1>5 DEF CacheInv

LEMMA GetKeyInv ==
    ASSUME CacheInv, NEW t \in Threads, GetKey(t)
    PROVE  CacheInv'
<1>1. /\ pc[t] = "calling" /\ cell[CellOf(Wants(t))] = "set"
      /\ held' = [held EXCEPT ![t] = content[CellOf(Wants(t))]]
      /\ pc' = [pc EXCEPT ![t] = "proving"]
      /\ UNCHANGED <<cell, content, job, ticket, proofs, builds, panics>>
    BY DEF GetKey, cache
<1>2. CellOf(Wants(t)) \in Cells
    BY CellsApart, WantsTyped
<1>3. content[CellOf(Wants(t))] \in Keys \union {NoKey} /\ content[CellOf(Wants(t))] # NoKey
    BY <1>1, <1>2 DEF CacheInv, TypeOK
<1>4. TypeOK'
    BY <1>1, <1>3 DEF CacheInv, TypeOK
<1>5. \A u \in Threads : Wants(u)' = Wants(u)
    BY <1>1 DEF Wants
<1>6. \A u \in Threads : u # t => pc'[u] = pc[u] /\ held'[u] = held[u]
    BY <1>1 DEF CacheInv, TypeOK
<1>7. pc'[t] = "proving" /\ held'[t] = content[CellOf(Wants(t))]
    BY <1>1 DEF CacheInv, TypeOK
<1> QED BY <1>1, <1>4, <1>5, <1>6, <1>7 DEF CacheInv

LEMMA ClaimCellInv ==
    ASSUME CacheInv, NEW t \in Threads, ClaimCell(t)
    PROVE  CacheInv'
<1> DEFINE c == CellOf(Wants(t))
<1>1. /\ pc[t] = "calling" /\ cell[c] = "empty"
      /\ cell' = [cell EXCEPT ![c] = "running"]
      /\ pc' = [pc EXCEPT ![t] = "building"]
      /\ UNCHANGED <<content, job, ticket, held, proofs, builds, panics>>
    BY DEF ClaimCell
<1>2. c \in Cells
    BY CellsApart, WantsTyped
<1>3. TypeOK'
    BY <1>1, <1>2 DEF CacheInv, TypeOK
<1>4. \A u \in Threads : Wants(u)' = Wants(u) /\ CellOf(Wants(u)) \in Cells
    BY <1>1, CellsApart, WantsTyped DEF Wants
<1>5. \A u \in Threads : u # t => pc'[u] = pc[u]
    BY <1>1 DEF CacheInv, TypeOK
<1>6. pc'[t] = "building" /\ cell'[c] = "running" /\ \A d \in Cells : d # c => cell'[d] = cell[d]
    BY <1>1, <1>2 DEF CacheInv, TypeOK
<1>7. \A u \in Threads : pc[u] = "building" => CellOf(Wants(u)) # c
    BY <1>1 DEF CacheInv
<1> HIDE DEF c
<1>8. \A u \in Threads : pc'[u] = "building" => cell'[CellOf(Wants(u))] = "running"
    BY <1>4, <1>5, <1>6, <1>7 DEF CacheInv, c
<1>9. \A u, w \in Threads :
        pc'[u] = "building" /\ pc'[w] = "building" /\ CellOf(Wants(u)) = CellOf(Wants(w)) => u = w
    BY <1>5, <1>7 DEF CacheInv, c
<1> QED BY <1>1, <1>3, <1>4, <1>5, <1>6, <1>8, <1>9 DEF CacheInv

LEMMA BuildKeyInv ==
    ASSUME CacheInv, NEW t \in Threads, BuildKey(t)
    PROVE  CacheInv'
<1> DEFINE c == CellOf(Wants(t))
<1> DEFINE key == [version |-> Wants(t), ticket |-> ticket[t]]
<1>1. /\ pc[t] = "building"
      /\ cell' = [cell EXCEPT ![c] = "set"]
      /\ content' = [content EXCEPT ![c] = key]
      /\ held' = [held EXCEPT ![t] = key]
      /\ pc' = [pc EXCEPT ![t] = "proving"]
      /\ UNCHANGED <<job, ticket, proofs, builds, panics>>
    BY DEF BuildKey
<1>2. c \in Cells /\ Wants(t) \in CircuitVersions
    BY CellsApart, WantsTyped
<1>3. ticket[t] \in 1 .. MaxBuilds
    BY <1>1, CacheAssumption DEF CacheInv, TypeOK
<1>4. key \in Keys /\ key.version = Wants(t)
    BY <1>2, <1>3 DEF Keys
<1>5. key # NoKey
    BY <1>4, KeysApart
<1> HIDE DEF key
<1>6. TypeOK'
    BY <1>1, <1>2, <1>4, <1>5 DEF CacheInv, TypeOK
<1>7. \A u \in Threads : Wants(u)' = Wants(u) /\ CellOf(Wants(u)) \in Cells
    BY <1>1, CellsApart, WantsTyped DEF Wants
<1>8. \A u \in Threads : u # t => pc'[u] = pc[u] /\ held'[u] = held[u]
    BY <1>1 DEF CacheInv, TypeOK
<1>9. pc'[t] = "proving" /\ held'[t] = key
    BY <1>1 DEF CacheInv, TypeOK
<1>10. /\ cell'[c] = "set" /\ content'[c] = key
       /\ \A d \in Cells : d # c => cell'[d] = cell[d] /\ content'[d] = content[d]
    BY <1>1, <1>2 DEF CacheInv, TypeOK
<1>11. content[c] = NoKey
    BY <1>1, <1>2 DEF CacheInv, TypeOK
<1>12. \A u \in Threads : pc'[u] = "building" => cell'[CellOf(Wants(u))] = "running"
    BY <1>1, <1>7, <1>8, <1>9, <1>10 DEF CacheInv
<1>13. \A u, w \in Threads :
        pc'[u] = "building" /\ pc'[w] = "building" /\ CellOf(Wants(u)) = CellOf(Wants(w)) => u = w
    BY <1>8, <1>9 DEF CacheInv
<1>14. \A v \in CircuitVersions : content'[CellOf(v)] # NoKey => content'[CellOf(v)].version = v
    BY <1>2, <1>4, <1>10, CellsApart DEF CacheInv
<1>15. \A u \in Threads : pc'[u] = "proving" => held'[u] = content'[CellOf(Wants(u))]
    <2> SUFFICES ASSUME NEW u \in Threads, pc'[u] = "proving"
                 PROVE  held'[u] = content'[CellOf(Wants(u))]
        OBVIOUS
    <2>1. CASE u = t
        BY <2>1, <1>9, <1>10
    <2>2. CASE u # t
        <3>1. held[u] = content[CellOf(Wants(u))] /\ held[u] # NoKey
            BY <2>2, <1>8 DEF CacheInv, TypeOK
        <3> QED BY <3>1, <2>2, <1>7, <1>8, <1>10, <1>11
    <2> QED BY <2>1, <2>2
<1>16. \A u \in Threads : pc'[u] # "idle" => job'[u] \in Builds /\ ticket'[u] # 0
    BY <1>1, <1>8, <1>9 DEF CacheInv
<1> HIDE DEF c
<1> QED BY <1>6, <1>7, <1>12, <1>13, <1>14, <1>15, <1>16 DEF CacheInv

LEMMA BuildKeyPanicsInv ==
    ASSUME CacheInv, NEW t \in Threads, BuildKeyPanics(t)
    PROVE  CacheInv'
<1> DEFINE c == CellOf(Wants(t))
<1>1. /\ pc[t] = "building" /\ panics < MaxPanics /\ panics' = panics + 1
      /\ cell' = [cell EXCEPT ![c] = "empty"]
      /\ pc' = [pc EXCEPT ![t] = "idle"]
      /\ job' = [job EXCEPT ![t] = NoBuild] /\ ticket' = [ticket EXCEPT ![t] = 0]
      /\ UNCHANGED <<content, held, proofs, builds>>
    BY DEF BuildKeyPanics
<1>2. c \in Cells /\ cell[c] = "running"
    BY <1>1, CellsApart, WantsTyped DEF CacheInv
<1>3. panics + 1 \in 0 .. MaxPanics /\ 0 \in 0 .. MaxBuilds
    BY <1>1, CacheAssumption DEF CacheInv, TypeOK
<1>4. TypeOK'
    BY <1>1, <1>2, <1>3 DEF CacheInv, TypeOK
<1>5. \A u \in Threads : u # t =>
        Wants(u)' = Wants(u) /\ pc'[u] = pc[u] /\ job'[u] = job[u] /\ ticket'[u] = ticket[u]
    BY <1>1 DEF CacheInv, TypeOK, Wants
<1>6. pc'[t] = "idle" /\ \A d \in Cells : d # c => cell'[d] = cell[d]
    BY <1>1 DEF CacheInv, TypeOK
<1>7. \A u \in Threads : CellOf(Wants(u)) \in Cells
    BY CellsApart, WantsTyped
<1>8. \A u \in Threads : pc'[u] = "building" => cell'[CellOf(Wants(u)')] = "running"
    BY <1>1, <1>5, <1>6, <1>7 DEF CacheInv
<1> HIDE DEF c
<1> QED BY <1>1, <1>4, <1>5, <1>6, <1>8 DEF CacheInv

LEMMA CreateProofsInv ==
    ASSUME CacheInv, NEW t \in Threads, CreateProofs(t)
    PROVE  CacheInv'
<1>1. PICK made \in SUBSET job[t].pools :
        proofs' = proofs \union
            {[bundle |-> BundleVersionForBranch(job[t].branch, pool), key |-> held[t].version]
                : pool \in made}
    BY DEF CreateProofs
<1>2. /\ pc[t] = "proving" /\ pc' = [pc EXCEPT ![t] = "idle"]
      /\ job' = [job EXCEPT ![t] = NoBuild] /\ ticket' = [ticket EXCEPT ![t] = 0]
      /\ held' = [held EXCEPT ![t] = NoKey]
      /\ UNCHANGED <<cell, content, builds, panics>>
    BY DEF CreateProofs, cache
<1>3. job[t] \in Builds /\ held[t] \in Keys
    BY <1>2 DEF CacheInv, TypeOK
<1>4. \A pool \in made : BundleVersionForBranch(job[t].branch, pool) \in BundleVersions
    BY <1>1, <1>3, OneCircuitPerBranch
<1>5. proofs' \subseteq [bundle : BundleVersions, key : CircuitVersions]
    BY <1>1, <1>3, <1>4, KeysApart DEF CacheInv, TypeOK
<1>6. TypeOK'
    BY <1>2, <1>5, CacheAssumption DEF CacheInv, TypeOK
<1>7. \A u \in Threads : u # t =>
        /\ Wants(u)' = Wants(u) /\ pc'[u] = pc[u] /\ job'[u] = job[u] /\ ticket'[u] = ticket[u]
        /\ held'[u] = held[u]
    BY <1>2 DEF CacheInv, TypeOK, Wants
<1>8. pc'[t] = "idle"
    BY <1>2 DEF CacheInv, TypeOK
<1> QED BY <1>2, <1>6, <1>7, <1>8 DEF CacheInv

LEMMA InvNext == CacheInv /\ [Next]_vars => CacheInv'
<1> SUFFICES ASSUME CacheInv, [Next]_vars PROVE CacheInv'
    OBVIOUS
<1>1. ASSUME NEW t \in Threads, Step(t) PROVE CacheInv'
    BY <1>1, GetKeyInv, ClaimCellInv, BuildKeyInv, BuildKeyPanicsInv, CreateProofsInv DEF Step
<1>2. ASSUME NEW t \in Threads, NEW build \in Builds, StartBuild(t, build) PROVE CacheInv'
    BY <1>2, StartBuildInv
<1>3. CASE UNCHANGED vars
    BY <1>3 DEF vars, CacheInv, TypeOK, Wants
<1> QED BY <1>1, <1>2, <1>3 DEF Next

(* Which thread fills which cell, for any number of threads. *)
THEOREM CacheInvariant == Spec => []CacheInv
BY InvInit, InvNext, PTL DEF Spec

(* Types, and that a cell has a key when it is set, a thread while it proves. *)
THEOREM CacheTypeCorrect == Spec => []TypeOK
<1>1. CacheInv => TypeOK
    BY DEF CacheInv
<1> QED BY <1>1, CacheInvariant, PTL

(* Every proof that Builder::build makes is made with a key of the circuit  *)
(* version of its own bundle.                                               *)
THEOREM ProofsMatch == Spec => []ProofsMatchTheirBundle
<1>1. Init => ProofsMatchTheirBundle
    BY DEF Init, ProofsMatchTheirBundle
<1>2. CacheInv /\ ProofsMatchTheirBundle /\ [Next]_vars => ProofsMatchTheirBundle'
    <2> SUFFICES ASSUME CacheInv, ProofsMatchTheirBundle, [Next]_vars PROVE ProofsMatchTheirBundle'
        OBVIOUS
    <2>1. ASSUME NEW t \in Threads, CreateProofs(t) PROVE ProofsMatchTheirBundle'
        <3>1. PICK made \in SUBSET job[t].pools :
                proofs' = proofs \union
                    {[bundle |-> BundleVersionForBranch(job[t].branch, pool), key |-> held[t].version]
                        : pool \in made}
            BY <2>1 DEF CreateProofs
        <3>2. job[t] \in Builds /\ held[t] = content[CellOf(Wants(t))] /\ held[t] # NoKey
            BY <2>1 DEF CreateProofs, CacheInv, TypeOK
        <3>3. held[t].version = Wants(t)
            BY <3>2, WantsTyped DEF CacheInv
        <3>4. \A pool \in made : CircuitVersion(BundleVersionForBranch(job[t].branch, pool)) = Wants(t)
            BY <3>1, <3>2, OneCircuitPerBranch DEF Wants
        <3> QED BY <3>1, <3>3, <3>4 DEF ProofsMatchTheirBundle
    <2>2. ASSUME NEW t \in Threads, GetKey(t) \/ ClaimCell(t) \/ BuildKey(t) \/ BuildKeyPanics(t)
          PROVE  ProofsMatchTheirBundle'
        BY <2>2 DEF GetKey, ClaimCell, BuildKey, BuildKeyPanics, ProofsMatchTheirBundle
    <2>3. ASSUME NEW t \in Threads, NEW build \in Builds, StartBuild(t, build)
          PROVE  ProofsMatchTheirBundle'
        BY <2>3 DEF StartBuild, ProofsMatchTheirBundle
    <2>4. CASE UNCHANGED vars
        BY <2>4 DEF vars, ProofsMatchTheirBundle
    <2> QED BY <2>1, <2>2, <2>3, <2>4 DEF Next, Step
<1> QED BY <1>1, <1>2, CacheInvariant, PTL DEF Spec

(* OnceLock::get_or_init: a cell is claimed only while a thread that will   *)
(* set or release it constructs its key, so that no caller waits on a cell  *)
(* whose owner is gone.                                                     *)
ClaimsHaveOwners ==
    \A c \in Cells : cell[c] = "running" =>
        \E t \in Threads : pc[t] = "building" /\ CellOf(Wants(t)) = c

(* The owner of a cell other than a stepping thread's stays its owner. *)
LEMMA OwnersStay ==
    ASSUME CacheInv, ClaimsHaveOwners, NEW t \in Threads, NEW c \in Cells,
           \A u \in Threads : u # t => pc'[u] = pc[u] /\ job'[u] = job[u],
           cell'[c] = cell[c], cell[c] = "running",
           pc[t] # "building" \/ CellOf(Wants(t)) # c
    PROVE  \E u \in Threads : pc'[u] = "building" /\ CellOf(Wants(u)') = c
<1>1. PICK u \in Threads : pc[u] = "building" /\ CellOf(Wants(u)) = c
    BY DEF ClaimsHaveOwners
<1>2. u # t
    BY <1>1
<1>3. Wants(u)' = Wants(u) /\ pc'[u] = "building"
    BY <1>1, <1>2 DEF Wants
<1> QED BY <1>1, <1>3

(* What EveryCallReturns needs besides fairness: a caller that finds its    *)
(* cell running waits for a thread that is there, whatever number of        *)
(* constructions unwinds.                                                   *)
THEOREM ClaimsAreOwned == Spec => []ClaimsHaveOwners
<1>1. Init => ClaimsHaveOwners
    BY DEF Init, ClaimsHaveOwners
<1>2. CacheInv /\ ClaimsHaveOwners /\ [Next]_vars => ClaimsHaveOwners'
    <2> SUFFICES ASSUME CacheInv, ClaimsHaveOwners, [Next]_vars, NEW c \in Cells, cell'[c] = "running"
                 PROVE  \E u \in Threads : pc'[u] = "building" /\ CellOf(Wants(u)') = c
        BY DEF ClaimsHaveOwners
    <2>1. ASSUME NEW t \in Threads, NEW build \in Builds, StartBuild(t, build)
          PROVE  \E u \in Threads : pc'[u] = "building" /\ CellOf(Wants(u)') = c
        <3>1. /\ \A u \in Threads : u # t => pc'[u] = pc[u] /\ job'[u] = job[u]
              /\ cell' = cell /\ pc[t] = "idle"
            BY <2>1 DEF StartBuild, cache, CacheInv, TypeOK
        <3> QED BY <3>1, OwnersStay
    <2>2. ASSUME NEW t \in Threads, GetKey(t) \/ CreateProofs(t)
          PROVE  \E u \in Threads : pc'[u] = "building" /\ CellOf(Wants(u)') = c
        <3>1. /\ \A u \in Threads : u # t => pc'[u] = pc[u] /\ job'[u] = job[u]
              /\ cell' = cell /\ pc[t] \in {"calling", "proving"}
            BY <2>2 DEF GetKey, CreateProofs, cache, CacheInv, TypeOK
        <3> QED BY <3>1, OwnersStay
    <2>3. ASSUME NEW t \in Threads, ClaimCell(t)
          PROVE  \E u \in Threads : pc'[u] = "building" /\ CellOf(Wants(u)') = c
        <3>1. /\ \A u \in Threads : u # t => pc'[u] = pc[u] /\ job'[u] = job[u]
              /\ pc[t] = "calling" /\ pc'[t] = "building" /\ job' = job
              /\ c # CellOf(Wants(t)) => cell'[c] = cell[c]
            BY <2>3 DEF ClaimCell, CacheInv, TypeOK
        <3>2. CASE c = CellOf(Wants(t))
            BY <3>1, <3>2 DEF Wants
        <3>3. CASE c # CellOf(Wants(t))
            BY <3>1, <3>3, OwnersStay
        <3> QED BY <3>2, <3>3
    <2>4. ASSUME NEW t \in Threads, BuildKey(t) \/ BuildKeyPanics(t)
          PROVE  \E u \in Threads : pc'[u] = "building" /\ CellOf(Wants(u)') = c
        <3>1. /\ \A u \in Threads : u # t => pc'[u] = pc[u] /\ job'[u] = job[u]
              /\ c # CellOf(Wants(t)) => cell'[c] = cell[c]
              /\ c = CellOf(Wants(t)) => cell'[c] # "running"
            BY <2>4 DEF BuildKey, BuildKeyPanics, CacheInv, TypeOK
        <3> QED BY <3>1, OwnersStay
    <2>5. CASE UNCHANGED vars
        BY <2>5 DEF vars, ClaimsHaveOwners, Wants
    <2> QED BY <2>1, <2>2, <2>3, <2>4, <2>5 DEF Next, Step
<1> QED BY <1>1, <1>2, CacheInvariant, PTL DEF Spec
----------------------------------------------------------------------------
(* The refinement.  Each step of a thread is a step of KeyStore's caller or *)
(* changes nothing that callers see.                                        *)

(* What a caller's record maps to, one thread at a time. *)
LEMMA CallOfAt ==
    ASSUME NEW t \in Threads
    PROVE  /\ pc[t] = "idle" => CallOf[t] = [state |-> "idle", version |-> NoKey, key |-> held[t]]
           /\ pc[t] \in {"calling", "building"} =>
                CallOf[t] = [state |-> "asked", version |-> Wants(t), key |-> held[t]]
           /\ pc[t] = "proving" =>
                CallOf[t] = [state |-> "answered", version |-> Wants(t), key |-> held[t]]
BY DEF CallOf

(* A step of one thread changes that thread's record only. *)
LEMMA CallOfFrame ==
    ASSUME NEW t \in Threads, NEW record, CallOf'[t] = record,
           \A u \in Threads : u # t => pc'[u] = pc[u] /\ job'[u] = job[u] /\ held'[u] = held[u]
    PROVE  CallOf' = [CallOf EXCEPT ![t] = record]
<1>1. \A u \in Threads : u # t => Wants(u)' = Wants(u)
    BY DEF Wants
<1>2. \A u \in Threads : u # t => CallOf'[u] = CallOf[u]
    BY <1>1 DEF CallOf
<1>3. CallOf = [u \in Threads |-> CallOf[u]] /\ CallOf' = [u \in Threads |-> CallOf'[u]]
    BY DEF CallOf
<1> QED BY <1>2, <1>3

LEMMA StoreOfFrame == content' = content => StoreOf' = StoreOf
BY DEF StoreOf

(* StartBuild is Ask, for the circuit version of the build. *)
LEMMA StartBuildRefines ==
    ASSUME CacheInv, CacheInv', NEW t \in Threads, NEW build \in Builds, StartBuild(t, build)
    PROVE  Abstract!Next
<1>1. /\ pc[t] = "idle" /\ pc' = [pc EXCEPT ![t] = "calling"] /\ job' = [job EXCEPT ![t] = build]
      /\ held' = held /\ content' = content
    BY DEF StartBuild, cache
<1>2. pc'[t] = "calling" /\ held'[t] = NoKey
    BY <1>1 DEF CacheInv, TypeOK
<1>3. CallOf'[t] = [state |-> "asked", version |-> Wants(t)', key |-> NoKey]
    BY <1>2 DEF CallOf
<1>4. CallOf' = [CallOf EXCEPT ![t] = [state |-> "asked", version |-> Wants(t)', key |-> NoKey]]
    BY <1>1, <1>3, CallOfFrame DEF CacheInv, TypeOK
<1>5. CallOf[t].state = "idle"
    BY <1>1 DEF CallOf
<1>6. Wants(t)' \in CircuitVersions
    BY DEF Wants, OrchardCircuitVersion, CircuitVersion, CircuitVersions
<1>7. Abstract!Ask(t, Wants(t)')
    BY <1>1, <1>4, <1>5, StoreOfFrame DEF Abstract!Ask
<1> QED BY <1>6, <1>7 DEF Abstract!Next

(* GetKey is Answer with the key that the store already has. *)
LEMMA GetKeyRefines ==
    ASSUME CacheInv, NEW t \in Threads, GetKey(t)
    PROVE  Abstract!Next
<1> DEFINE v == Wants(t)
<1> DEFINE key == content[CellOf(v)]
<1>1. /\ pc[t] = "calling" /\ cell[CellOf(v)] = "set"
      /\ held' = [held EXCEPT ![t] = key] /\ pc' = [pc EXCEPT ![t] = "proving"]
      /\ job' = job /\ content' = content
    BY DEF GetKey, cache
<1>2. v \in CircuitVersions /\ CellOf(v) \in Cells
    BY WantsTyped, CellsApart
<1>3. key \in Keys /\ key.version = v
    BY <1>1, <1>2 DEF CacheInv, TypeOK
<1>4. pc'[t] = "proving" /\ held'[t] = key /\ Wants(t)' = v /\ held[t] = NoKey
    BY <1>1 DEF CacheInv, TypeOK, Wants
<1>5. CallOf'[t] = [state |-> "answered", version |-> v, key |-> key]
    BY <1>4 DEF CallOf
<1>6. CallOf' = [CallOf EXCEPT ![t] = [state |-> "answered", version |-> v, key |-> key]]
    BY <1>1, <1>5, CallOfFrame DEF CacheInv, TypeOK
<1>7. CallOf[t] = [state |-> "asked", version |-> v, key |-> NoKey]
    BY <1>1, <1>4, CallOfAt
<1>8. StoreOf[v] = key /\ StoreOf' = [StoreOf EXCEPT ![v] = key]
    BY <1>1, <1>2, StoreOfFrame DEF StoreOf
<1> HIDE DEF v, key
<1>9. Abstract!Answer(t)
    BY <1>2, <1>3, <1>6, <1>7, <1>8 DEF Abstract!Answer
<1> QED BY <1>9 DEF Abstract!Next

(* BuildKey is Answer with a new key: the store had none, because no other  *)
(* thread fills the cell.                                                   *)
LEMMA BuildKeyRefines ==
    ASSUME CacheInv, NEW t \in Threads, BuildKey(t)
    PROVE  Abstract!Next
<1> DEFINE v == Wants(t)
<1> DEFINE key == [version |-> v, ticket |-> ticket[t]]
<1>1. /\ pc[t] = "building"
      /\ content' = [content EXCEPT ![CellOf(v)] = key]
      /\ held' = [held EXCEPT ![t] = key] /\ pc' = [pc EXCEPT ![t] = "proving"]
      /\ job' = job
    BY DEF BuildKey
<1>2. v \in CircuitVersions /\ CellOf(v) \in Cells
    BY WantsTyped, CellsApart
<1>3. ticket[t] \in 1 .. MaxBuilds
    BY <1>1, CacheAssumption DEF CacheInv, TypeOK
<1>4. key \in Keys /\ key.version = v
    BY <1>2, <1>3 DEF Keys
<1> HIDE DEF key
<1>5. content[CellOf(v)] = NoKey
    BY <1>1, <1>2 DEF CacheInv, TypeOK
<1>6. pc'[t] = "proving" /\ held'[t] = key /\ Wants(t)' = v /\ held[t] = NoKey
    BY <1>1 DEF CacheInv, TypeOK, Wants
<1>7. CallOf'[t] = [state |-> "answered", version |-> v, key |-> key]
    BY <1>6 DEF CallOf
<1>8. CallOf' = [CallOf EXCEPT ![t] = [state |-> "answered", version |-> v, key |-> key]]
    BY <1>1, <1>7, CallOfFrame DEF CacheInv, TypeOK
<1>9. CallOf[t] = [state |-> "asked", version |-> v, key |-> NoKey]
    BY <1>1, <1>6, CallOfAt
<1>10. StoreOf[v] = NoKey
    BY <1>2, <1>5 DEF StoreOf
<1>11. \A w \in CircuitVersions : content'[CellOf(w)] = IF w = v THEN key ELSE content[CellOf(w)]
    BY <1>1, <1>2, CellsApart DEF CacheInv, TypeOK
<1>12. StoreOf' = [StoreOf EXCEPT ![v] = key]
    BY <1>11 DEF StoreOf
<1> HIDE DEF v
<1>13. Abstract!Answer(t)
    BY <1>2, <1>4, <1>8, <1>9, <1>10, <1>12 DEF Abstract!Answer
<1> QED BY <1>13 DEF Abstract!Next

(* A thread that unwinds, or that has made its proofs, leaves. *)
LEMMA LeaveRefines ==
    ASSUME CacheInv, CacheInv', NEW t \in Threads, BuildKeyPanics(t) \/ CreateProofs(t)
    PROVE  Abstract!Next
<1>1. /\ pc[t] # "idle" /\ pc' = [pc EXCEPT ![t] = "idle"] /\ job' = [job EXCEPT ![t] = NoBuild]
      /\ content' = content /\ \A u \in Threads : u # t => held'[u] = held[u]
    BY DEF BuildKeyPanics, CreateProofs, cache, CacheInv, TypeOK
<1>2. pc'[t] = "idle" /\ held'[t] = NoKey
    BY <1>1 DEF CacheInv, TypeOK
<1>3. CallOf'[t] = Abstract!Idle
    BY <1>2 DEF CallOf, Abstract!Idle
<1>4. CallOf' = [CallOf EXCEPT ![t] = Abstract!Idle]
    BY <1>1, <1>3, CallOfFrame DEF CacheInv, TypeOK
<1>5. CallOf[t].state # "idle"
    BY <1>1 DEF CallOf
<1>6. Abstract!Leave(t)
    BY <1>1, <1>4, <1>5, StoreOfFrame DEF Abstract!Leave
<1> QED BY <1>6 DEF Abstract!Next

(* A thread that claims a cell has told nobody yet. *)
LEMMA ClaimCellStutters ==
    ASSUME CacheInv, NEW t \in Threads, ClaimCell(t)
    PROVE  UNCHANGED <<StoreOf, CallOf>>
<1>1. /\ pc[t] = "calling" /\ pc' = [pc EXCEPT ![t] = "building"]
      /\ job' = job /\ held' = held /\ content' = content
    BY DEF ClaimCell
<1>2. pc'[t] = "building" /\ \A u \in Threads : u # t => pc'[u] = pc[u]
    BY <1>1 DEF CacheInv, TypeOK
<1>3. CallOf' = CallOf
    BY <1>1, <1>2 DEF CallOf, Wants
<1> QED BY <1>1, <1>3, StoreOfFrame

(* The cells of cached_orchard_proving_key implement the store: whatever    *)
(* the interleaving and the panics, callers see one key of each version.    *)
THEOREM CacheImplementsStore == Spec => ImplementsKeyStore
<1>1. Init => Abstract!Init
    BY CellsApart DEF Init, Abstract!Init, Abstract!Idle, StoreOf, CallOf
<1>2. CacheInv /\ CacheInv' /\ [Next]_vars => [Abstract!Next]_<<StoreOf, CallOf>>
    <2> SUFFICES ASSUME CacheInv, CacheInv', [Next]_vars
                 PROVE  [Abstract!Next]_<<StoreOf, CallOf>>
        OBVIOUS
    <2>1. ASSUME NEW t \in Threads, NEW build \in Builds, StartBuild(t, build) PROVE Abstract!Next
        BY <2>1, StartBuildRefines
    <2>2. ASSUME NEW t \in Threads, Step(t) PROVE [Abstract!Next]_<<StoreOf, CallOf>>
        BY <2>2, GetKeyRefines, BuildKeyRefines, LeaveRefines, ClaimCellStutters DEF Step
    <2>3. CASE UNCHANGED vars
        BY <2>3 DEF vars, StoreOf, CallOf, Wants
    <2> QED BY <2>1, <2>2, <2>3 DEF Next
<1> QED BY <1>1, <1>2, CacheInvariant, PTL DEF Spec, ImplementsKeyStore, Abstract!Spec
=============================================================================
