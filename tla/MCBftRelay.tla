----------------------------- MODULE MCBftRelay -----------------------------
(* Two finalizers, two namespaces, and a proof-of-work chain with a fork.   *)
EXTENDS BftRelay

NoNamespace == {}
Fork == {"fork"}
MCNamespaces == {NoNamespace, Fork}

(* All alike, with and without a namespace; the second finalizer on the     *)
(* other side; the receiver on the other side.                              *)
MCNamespaceChoices ==
    {[p \in Parties |-> NoNamespace],
     [p \in Parties |-> Fork],
     [p \in Parties |-> IF p = 2 THEN Fork ELSE NoNamespace],
     [p \in Parties |-> IF p = Receiver THEN NoNamespace ELSE Fork]}

NullWire == CHOOSE wire \in FatPointerWrite(NullFatPointer) : TRUE

(* A header that points to a BFT block, as headers do in this build. *)
PointerWire ==
    CHOOSE wire \in FatPointerWrite(FatPointerFromParts(PastHash, 0, 1, <<>>)) : TRUE

Deep == Header(4, ZeroHash, 0, "valid", NullWire)
Best == Header(5, HeaderHash(Deep), 1, "valid", PointerWire)
Other == Header(5, HeaderHash(Deep), 2, "valid", NullWire)
Unsolved == Header(5, HeaderHash(Deep), 3, "invalid", NullWire)

(* The first window is valid; the others are too short, not a chain, and    *)
(* not worked for.                                                          *)
MCHeaderChoices ==
    {<<Deep, Best>>, <<Deep>>, <<Best, Other>>, <<Deep, Unsolved>>}

MCParameterInputs == {<<2, 4>>, <<2, 3>>}
WrappingInputs == {<<2, 4>>, <<8, 0>>}

(* Without a rule, with one that lists its finalizers in either order, and  *)
(* with one that repeats a finalizer.                                       *)
MCBlockChoices == {<<1, <<>>>>, <<2, <<1, 2>>>>, <<2, <<2, 1>>>>, <<2, <<1, 1>>>>}
LongRules == {<<2, <<1, 2, 3>>>>}
=============================================================================
