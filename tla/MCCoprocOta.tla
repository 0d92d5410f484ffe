----------------------------- MODULE MCCoprocOta -----------------------------
(* Small instances of CoprocOta for TLC.                                   *)
EXTENDS CoprocOta
=============================================================================
