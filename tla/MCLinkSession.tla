--------------------------- MODULE MCLinkSession ---------------------------
(* A small instance of LinkSession for TLC.                                *)
EXTENDS LinkSession, TLC
=============================================================================
