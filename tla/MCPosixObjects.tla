--------------------------- MODULE MCPosixObjects ---------------------------
(* Small instances of PosixObjects for TLC.                                *)
EXTENDS PosixObjects, TLC

CONSTANTS t1, t2, t3, i1, i2, b1, b2

Symmetry == Permutations(Threads) \cup Permutations(Items) \cup Permutations(Bits)
=============================================================================
