------------------------- MODULE MCZip318Migration -------------------------
(* Balances past several caps, and up to the width of the integers.         *)
EXTENDS Zip318Migration

MCBalances == (0 .. 1300) \union (MaxU64 - 10 .. MaxU64)
=============================================================================
