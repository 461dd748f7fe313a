-------------------------- MODULE MCDtlsReassembly --------------------------
(* Two flights: one message, then three messages, the change of cipher     *)
(* spec and Finished.                                                      *)
EXTENDS DtlsReassembly

Frag(seq, total, off, len, epoch) ==
    [seq |-> seq, total |-> total, off |-> off, len |-> len, epoch |-> epoch]

TwoFlights == <<"last", "msg", "msg", "msg", "ccs", "last">>

\* Fragments that overlap, that cross and that do not fill a byte of the mask.
Repeated ==
    {Frag(0, 4, 0, 4, 0),
     Frag(1, 10, 0, 7, 0), Frag(1, 10, 5, 5, 0), Frag(1, 10, 7, 3, 0),
     Frag(2, 9, 0, 9, 0), Frag(2, 9, 8, 1, 0), Frag(2, 9, 0, 8, 0),
     Frag(3, 3, 0, 2, 0), Frag(3, 3, 2, 1, 0),
     Frag(4, 4, 0, 4, 1), Frag(4, 4, 0, 2, 1), Frag(4, 4, 2, 2, 1)}

\* Records no peer that follows the protocol sends: another length, a message
\* in the place of the change of cipher spec, two that are too large.
Strays ==
    {Frag(1, 13, 8, 5, 0), Frag(4, 4, 0, 4, 0), Frag(3, 45, 0, 3, 0), Frag(3, 50, 0, 3, 0)}
=============================================================================
