---------------------------- MODULE MCPsaKeyStore ----------------------------
(* An instance of PsaKeyStore for TLC.                                     *)
EXTENDS PsaKeyStore

CONSTANTS t1, t2, t3, p1, b1
=============================================================================
