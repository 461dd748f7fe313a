----------------------------- MODULE MCPsaAead -----------------------------
(* One direct context and two PSA operations share the GCM engine. *)
EXTENDS PsaAead, TLC

CONSTANTS d1, p1, p2, k1, k2, n1, n8, b1

OpSymmetry == Permutations({p1, p2}) \cup Permutations({k1, k2})
=============================================================================
