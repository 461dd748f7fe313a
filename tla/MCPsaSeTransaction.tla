------------------------- MODULE MCPsaSeTransaction -------------------------
(* An instance of PsaSeTransaction for TLC.                                *)
EXTENDS PsaSeTransaction, TLC

Symmetry == Permutations(KeyIds) \cup Permutations(SeSlots)
=============================================================================
