---------------------------- MODULE MCSslTicket ----------------------------
(* An instance of SslTicket for TLC.                                       *)
EXTENDS SslTicket

AllBuilds == [psa : BOOLEAN, have_time : BOOLEAN]
=============================================================================
