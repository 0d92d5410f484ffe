----------------------------- MODULE MCHostCore -----------------------------
(* Small instances of HostCore for TLC.                                    *)
EXTENDS HostCore, TLC

CallSymmetry == Permutations(Calls)
=============================================================================
