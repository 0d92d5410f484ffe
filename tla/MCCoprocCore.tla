---------------------------- MODULE MCCoprocCore ----------------------------
(* A small instance of CoprocCore for TLC.                                 *)
EXTENDS CoprocCore, TLC

CONSTANTS r1, r2, wifi, now
=============================================================================
