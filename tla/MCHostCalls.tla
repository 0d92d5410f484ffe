---------------------------- MODULE MCHostCalls ----------------------------
(* Small instances of HostCalls for TLC.                                   *)
EXTENDS HostCalls, TLC

CONSTANTS c1, c2

Symmetry == Permutations(Calls)
=============================================================================
