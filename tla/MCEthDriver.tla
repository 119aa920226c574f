----------------------------- MODULE MCEthDriver -----------------------------
(* EthDriver on small instances. The packets are interchangeable.          *)
EXTENDS EthDriver, TLC

Symmetry == Permutations(Packet)
=============================================================================
