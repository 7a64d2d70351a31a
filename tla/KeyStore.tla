------------------------------ MODULE KeyStore ------------------------------
(***************************************************************************)
(* What cached_orchard_proving_key promises its callers: a process has at  *)
(* most one proving key of each circuit version, and every call for a      *)
(* version is answered, in one step, with that version's key.              *)
(***************************************************************************)
CONSTANTS
    Callers,
    Versions,
    Keys,       \* the keys of the process: [version, ticket], the ticket telling instances apart
    NoKey

VARIABLES
    store,      \* the key of each version, NoKey before the first answer
    call        \* of each caller: the version asked for and the answer

Idle == [state |-> "idle", version |-> NoKey, key |-> NoKey]

TypeOK ==
    /\ store \in [Versions -> Keys \union {NoKey}]
    /\ call \in [Callers -> [state : {"idle", "asked", "answered"},
                             version : Versions \union {NoKey}, key : Keys \union {NoKey}]]

Init ==
    /\ store = [v \in Versions |-> NoKey]
    /\ call = [t \in Callers |-> Idle]

Ask(t, v) ==
    /\ call[t].state = "idle"
    /\ call' = [call EXCEPT ![t] = [state |-> "asked", version |-> v, key |-> NoKey]]
    /\ UNCHANGED store

(* The first answer for a version decides its key, which is of that version. *)
Answer(t) ==
    \E v \in Versions, key \in Keys :
        /\ call[t] = [state |-> "asked", version |-> v, key |-> NoKey]
        /\ key.version = v
        /\ store[v] \in {NoKey, key}
        /\ store' = [store EXCEPT ![v] = key]
        /\ call' = [call EXCEPT ![t] = [state |-> "answered", version |-> v, key |-> key]]

(* A caller that is done with its key, or whose call ended in a panic. *)
Leave(t) ==
    /\ call[t].state # "idle"
    /\ call' = [call EXCEPT ![t] = Idle]
    /\ UNCHANGED store

Next == \E t \in Callers : Answer(t) \/ Leave(t) \/ \E v \in Versions : Ask(t, v)

Spec == Init /\ [][Next]_<<store, call>>
=============================================================================
