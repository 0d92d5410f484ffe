-------------------------- MODULE MCCoprocBluetooth --------------------------
(* Small instances of CoprocBluetooth for TLC.                             *)
EXTENDS CoprocBluetooth, TLC

ThreadSymmetry == Permutations(Threads)
=============================================================================
