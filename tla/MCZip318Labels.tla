--------------------------- MODULE MCZip318Labels ---------------------------
(* The transactions that differ from a canonical preparation, or from a     *)
(* canonical crossing, in at most Deviations fields.                        *)
EXTENDS Zip318Labels, FiniteSets

CONSTANTS Targets, Deviations

Preparation(t) ==
    [source_actions |-> PREP_TX_ACTIONS, destination_actions |-> 0,
     other_bundles_present |-> FALSE, source_outputs |-> {"internal"},
     sole_destination_value |-> {}, target |-> t, expiry |-> CanonicalExpiry(t),
     anchor |-> 0, fee_is_canonical |-> TRUE]

Crossing(t) ==
    [Preparation(t) EXCEPT !.source_actions = 2, !.destination_actions = 1,
                           !.source_outputs = {},
                           !.sole_destination_value = {DENOM_CAP}]

(* The expiry is canonical, canonical of the period before, or ordinary. *)
Candidates(t) ==
    [source_actions : {2, PREP_TX_ACTIONS}, destination_actions : {0, 1, 2},
     other_bundles_present : BOOLEAN,
     source_outputs : {{}, {"internal"}, {"foreign"},
                       {"internal", "foreign"}, {"internal", "external"}},
     sole_destination_value : {{}, {DENOM_CAP}, {30}},
     target : {t},
     expiry : {CanonicalExpiry(t), CanonicalExpiry(t) - EXPIRY_MODULUS, t + 2},
     anchor : {0, 1}, fee_is_canonical : BOOLEAN]

Fields == DOMAIN Preparation(0)
Distance(a, b) == Cardinality({f \in Fields : a[f] # b[f]})

MCTransactions ==
    UNION {{c \in Candidates(t) : Distance(c, Preparation(t)) <= Deviations
                               \/ Distance(c, Crossing(t)) <= Deviations} : t \in Targets}
=============================================================================
