------------------------- MODULE MCCoprocEthernetRx -------------------------
(* Small instances of CoprocEthernetRx for TLC.                            *)
EXTENDS CoprocEthernetRx, TLC

CONSTANTS sta, ap

=============================================================================
