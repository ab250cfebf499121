--------------------------- MODULE MCOpenRegistry ---------------------------
(***************************************************************************)
(* OpenRegistry with a registry that is full after one boundary.           *)
(***************************************************************************)
EXTENDS OpenRegistry

CONSTANTS k1, k2, g1, g2, b1, b2, b3

RegistrySymmetry == Permutations(Key) \cup Permutations(Group) \cup Permutations(BlockId)
=============================================================================
