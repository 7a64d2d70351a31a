-------------------------- MODULE ProvingKeyCache --------------------------
(***************************************************************************)
(* Threads that build transactions and share the Orchard proving keys of   *)
(* cached_orchard_proving_key: one std::sync::OnceLock for each circuit    *)
(* version, filled by whichever thread comes first while the others wait.  *)
(* Builder::build asks for one key, of the circuit version of its branch,  *)
(* and proves its Orchard and its Ironwood bundle with it.                 *)
(***************************************************************************)
EXTENDS TxFormat

CONSTANTS
    Threads,
    Builds,      \* the transactions built: [branch, pools], their Orchard-family bundles
    NoKey,
    MaxBuilds,   \* bound: builds started
    MaxPanics    \* bound: key constructions that unwind

OrchardPools == {"orchard", "ironwood"}

CircuitVersions == {"InsecurePreNu6_2", "FixedPostNu6_2", "PostNu6_3"}
Cells == {"INSECURE_PRE_NU6_2", "FIXED_POST_NU6_2", "POST_NU6_3"}

(* BundleVersion::circuit_version of the orchard crate. *)
CircuitVersion(bundleVersion) ==
    IF bundleVersion = "orchard_insecure_v1" THEN "InsecurePreNu6_2"
    ELSE IF bundleVersion = "orchard_v2" THEN "FixedPostNu6_2" ELSE "PostNu6_3"

(* Mutant: two circuit versions share a cell. *)
CellOfSharing(version) ==
    IF version = "InsecurePreNu6_2" THEN "INSECURE_PRE_NU6_2" ELSE "FIXED_POST_NU6_2"

CellOf(version) ==
    IF version = "InsecurePreNu6_2" THEN "INSECURE_PRE_NU6_2"
    ELSE IF version = "FixedPostNu6_2" THEN "FIXED_POST_NU6_2" ELSE "POST_NU6_3"

(* A key and the build that constructed it: two calls got the same instance *)
(* (ptr::eq) when both agree.                                               *)
Keys == [version : CircuitVersions, ticket : 1 .. MaxBuilds]
NoBuild == [branch |-> Sprout, pools |-> {}]

(* A bundle exists only on a branch with its pool: see Builder::new. *)
ASSUME CacheAssumption ==
    /\ NoKey \notin Keys
    /\ MaxBuilds \in Nat /\ MaxPanics \in Nat
    /\ \A build \in Builds :
        /\ build \in [branch : BranchIds, pools : SUBSET OrchardPools]
        /\ \A pool \in build.pools : BundleVersionForBranch(build.branch, pool) # "None"

VARIABLES
    cell,     \* of each OnceLock: "empty", "running" while a thread fills it, "set"
    content,  \* its key, once it is set
    pc,       \* "idle", "calling" get_or_init, "building" the key, "proving"
    job,      \* the transaction a thread builds
    ticket,   \* and the number of that build in the process
    held,     \* the reference that get_or_init returned
    proofs,   \* the bundle version and the key's version of every proof made
    builds, panics

cache == <<cell, content>>
vars == <<cell, content, pc, job, ticket, held, proofs, builds, panics>>

Init ==
    /\ cell = [c \in Cells |-> "empty"]
    /\ content = [c \in Cells |-> NoKey]
    /\ pc = [t \in Threads |-> "idle"]
    /\ job = [t \in Threads |-> NoBuild]
    /\ ticket = [t \in Threads |-> 0]
    /\ held = [t \in Threads |-> NoKey]
    /\ proofs = {}
    /\ builds = 0 /\ panics = 0

(* The circuit version comes from the branch and the Orchard pool, even for *)
(* a transaction that has only an Ironwood bundle.                          *)
OrchardCircuitVersion(build) == CircuitVersion(BundleVersionForBranch(build.branch, "orchard"))
Wants(t) == OrchardCircuitVersion(job[t])

(* A transaction with neither bundle asks for no key. *)
StartBuild(t, build) ==
    /\ pc[t] = "idle" /\ builds < MaxBuilds
    /\ build.pools # {}
    /\ pc' = [pc EXCEPT ![t] = "calling"]
    /\ job' = [job EXCEPT ![t] = build]
    /\ builds' = builds + 1
    /\ ticket' = [ticket EXCEPT ![t] = builds + 1]
    /\ UNCHANGED <<cache, held, proofs, panics>>

(* Mutant: a cell answers as soon as it is claimed. *)
GetKeyFromClaimed(t) ==
    /\ pc[t] = "calling"
    /\ cell[CellOf(Wants(t))] # "empty"
    /\ held' = [held EXCEPT ![t] = content[CellOf(Wants(t))]]
    /\ pc' = [pc EXCEPT ![t] = "proving"]
    /\ UNCHANGED <<cache, job, ticket, proofs, builds, panics>>

(* OnceLock::get_or_init: a set cell answers at once, an empty one is       *)
(* claimed, and a running one makes the caller wait.                        *)
GetKey(t) ==
    /\ pc[t] = "calling"
    /\ cell[CellOf(Wants(t))] = "set"
    /\ held' = [held EXCEPT ![t] = content[CellOf(Wants(t))]]
    /\ pc' = [pc EXCEPT ![t] = "proving"]
    /\ UNCHANGED <<cache, job, ticket, proofs, builds, panics>>

(* Mutant: a cell that another thread is filling is claimed as well. *)
ClaimUnlessSet(t) ==
    /\ pc[t] = "calling"
    /\ cell[CellOf(Wants(t))] # "set"
    /\ cell' = [cell EXCEPT ![CellOf(Wants(t))] = "running"]
    /\ pc' = [pc EXCEPT ![t] = "building"]
    /\ UNCHANGED <<content, job, ticket, held, proofs, builds, panics>>

ClaimCell(t) ==
    /\ pc[t] = "calling"
    /\ cell[CellOf(Wants(t))] = "empty"
    /\ cell' = [cell EXCEPT ![CellOf(Wants(t))] = "running"]
    /\ pc' = [pc EXCEPT ![t] = "building"]
    /\ UNCHANGED <<content, job, ticket, held, proofs, builds, panics>>

(* ProvingKey::build of the claiming thread's version; the cell is set and  *)
(* its reference returned.                                                  *)
BuildKey(t) ==
    LET key == [version |-> Wants(t), ticket |-> ticket[t]]
        c == CellOf(Wants(t))
    IN  /\ pc[t] = "building"
        /\ cell' = [cell EXCEPT ![c] = "set"]
        /\ content' = [content EXCEPT ![c] = key]
        /\ held' = [held EXCEPT ![t] = key]
        /\ pc' = [pc EXCEPT ![t] = "proving"]
        /\ UNCHANGED <<job, ticket, proofs, builds, panics>>

(* Mutant: the cell stays claimed when the construction unwinds. *)
BuildKeyPanicsAndKeepsClaim(t) ==
    /\ pc[t] = "building" /\ panics < MaxPanics
    /\ panics' = panics + 1
    /\ pc' = [pc EXCEPT ![t] = "idle"]
    /\ job' = [job EXCEPT ![t] = NoBuild]
    /\ ticket' = [ticket EXCEPT ![t] = 0]
    /\ UNCHANGED <<cache, held, proofs, builds>>

(* A construction that unwinds leaves the cell empty and wakes the waiters. *)
BuildKeyPanics(t) ==
    /\ pc[t] = "building" /\ panics < MaxPanics
    /\ panics' = panics + 1
    /\ cell' = [cell EXCEPT ![CellOf(Wants(t))] = "empty"]
    /\ pc' = [pc EXCEPT ![t] = "idle"]
    /\ job' = [job EXCEPT ![t] = NoBuild]
    /\ ticket' = [ticket EXCEPT ![t] = 0]
    /\ UNCHANGED <<content, held, proofs, builds>>

(* create_proof for the Orchard bundle and then for the Ironwood bundle,    *)
(* with the one key; an error ends the build at the bundle it is about.     *)
CreateProofs(t) ==
    /\ pc[t] = "proving"
    /\ \E made \in SUBSET job[t].pools :
        /\ "ironwood" \in made => made = job[t].pools
        /\ proofs' = proofs \union
            {[bundle |-> BundleVersionForBranch(job[t].branch, pool), key |-> held[t].version]
                : pool \in made}
    /\ pc' = [pc EXCEPT ![t] = "idle"]
    /\ job' = [job EXCEPT ![t] = NoBuild]
    /\ ticket' = [ticket EXCEPT ![t] = 0]
    /\ held' = [held EXCEPT ![t] = NoKey]
    /\ UNCHANGED <<cache, builds, panics>>

Step(t) == GetKey(t) \/ ClaimCell(t) \/ BuildKey(t) \/ BuildKeyPanics(t) \/ CreateProofs(t)

Next == \E t \in Threads : Step(t) \/ \E build \in Builds : StartBuild(t, build)

(* The scheduler runs every thread that can run, and the construction of a  *)
(* key and of a proof ends.  No fairness is assumed of the callers.         *)
Fairness == \A t \in Threads : WF_vars(Step(t))

Spec == Init /\ [][Next]_vars /\ Fairness

----------------------------------------------------------------------------
(* Properties.                                                              *)

(* Every variable has its type, and a cell holds a key exactly when it is   *)
(* set, a thread exactly while it proves.                                   *)
TypeOK ==
    /\ cell \in [Cells -> {"empty", "running", "set"}]
    /\ content \in [Cells -> Keys \union {NoKey}]
    /\ ticket \in [Threads -> 0 .. MaxBuilds]
    /\ pc \in [Threads -> {"idle", "calling", "building", "proving"}]
    /\ job \in [Threads -> Builds \union {NoBuild}]
    /\ held \in [Threads -> Keys \union {NoKey}]
    /\ proofs \subseteq [bundle : BundleVersions, key : CircuitVersions]
    /\ builds \in 0 .. MaxBuilds /\ panics \in 0 .. MaxPanics
    /\ \A c \in Cells : cell[c] = "set" <=> content[c] # NoKey
    /\ \A t \in Threads : pc[t] = "proving" <=> held[t] # NoKey

(* The inductive invariant: one thread fills a running cell, a cell holds a *)
(* key of its own version, and a thread proves with its cell's key.         *)
CacheInv ==
    /\ TypeOK
    /\ \A t \in Threads : pc[t] # "idle" => job[t] \in Builds /\ ticket[t] # 0
    /\ \A t \in Threads : pc[t] = "building" => cell[CellOf(Wants(t))] = "running"
    /\ \A t, u \in Threads :
        pc[t] = "building" /\ pc[u] = "building" /\ CellOf(Wants(t)) = CellOf(Wants(u)) => t = u
    /\ \A v \in CircuitVersions : content[CellOf(v)] # NoKey => content[CellOf(v)].version = v
    /\ \A t \in Threads : pc[t] = "proving" => held[t] = content[CellOf(Wants(t))]

(* The refinement: a claimed cell is a store without the key, and a call is *)
(* answered from the moment its thread holds the reference.                 *)
StoreOf == [v \in CircuitVersions |-> content[CellOf(v)]]
CallOf == [t \in Threads |->
              [state |-> IF pc[t] = "idle" THEN "idle"
                         ELSE IF pc[t] = "proving" THEN "answered" ELSE "asked",
               version |-> IF pc[t] = "idle" THEN NoKey ELSE Wants(t),
               key |-> held[t]]]

Abstract == INSTANCE KeyStore WITH
    Callers <- Threads, Versions <- CircuitVersions, store <- StoreOf, call <- CallOf

(* Builder::build and cached_orchard_proving_key: whatever the threads do,  *)
(* and though a construction may unwind, callers see one key of each        *)
(* circuit version, of that version, from the first answer on.              *)
ImplementsKeyStore == Abstract!Spec

(* Builder::build: a proof is made with a key of its own bundle's circuit   *)
(* version, though one key, chosen for the Orchard pool, proves the bundles *)
(* of both pools.                                                           *)
ProofsMatchTheirBundle == \A proof \in proofs : proof.key = CircuitVersion(proof.bundle)

(* cached_orchard_proving_key: every call returns or unwinds; no thread     *)
(* waits for ever on a cell whose owner is gone.                            *)
EveryCallReturns == \A t \in Threads : pc[t] \in {"calling", "building"} ~> pc[t] \in {"idle", "proving"}
=============================================================================
