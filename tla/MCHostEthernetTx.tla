-------------------------- MODULE MCHostEthernetTx --------------------------
(* Small instances of HostEthernetTx for TLC.                              *)
EXTENDS HostEthernetTx, TLC

MCSymmetry == Permutations(Threads) \cup Permutations(Ethernet)
=============================================================================
