---------------------------- MODULE MCDtlsRecord ----------------------------
(* Instances of DtlsRecord for TLC.                                        *)
EXTENDS DtlsRecord
=============================================================================
