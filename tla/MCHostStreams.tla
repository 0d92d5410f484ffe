--------------------------- MODULE MCHostStreams ---------------------------
(* Small instances of HostStreams for TLC.                                 *)
EXTENDS HostStreams, TLC

CONSTANTS t1, t2

Symmetry == Permutations(Threads)
=============================================================================
