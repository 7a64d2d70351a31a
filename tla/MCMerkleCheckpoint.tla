------------------------ MODULE MCMerkleCheckpoint ------------------------
(* A tree of sixteen leaves, the depth of the repository's own test tree. *)
EXTENDS MerkleCheckpoint
=============================================================================
