---------------------------- MODULE MCDtlsFlight ----------------------------
(* Instances of DtlsFlight for TLC.  Lengths are in units of a few bytes.  *)
EXTENDS DtlsFlight, TLC

Msg(t, l) == [type |-> t, len |-> l]

Endpoint(flights, client, last) ==
    [flights |-> flights, client |-> client, sends_last |-> last]

\* A full handshake: ClientHello; ClientKeyExchange, ChangeCipherSpec and
\* Finished.
Client == Endpoint(<<<<Msg("handshake", 2)>>,
                     <<Msg("handshake", 4), Msg("ccs", 1), Msg("finished", 2)>>>>, TRUE, FALSE)

\* ServerHello, ServerHelloDone; NewSessionTicket, ChangeCipherSpec, Finished.
Server == Endpoint(<<<<Msg("handshake", 2), Msg("handshake", 0)>>,
                     <<Msg("handshake", 3), Msg("ccs", 1), Msg("finished", 2)>>>>, FALSE, TRUE)

\* A resumed session, where the client sends the last flight.
ResumingClient == Endpoint(<<<<Msg("handshake", 2)>>, <<Msg("ccs", 1), Msg("finished", 2)>>>>,
                           TRUE, TRUE)
ResumingServer == Endpoint(<<<<Msg("handshake", 2), Msg("ccs", 1), Msg("finished", 4)>>>>,
                           FALSE, FALSE)

Endpoints == {Client, Server, ResumingClient, ResumingServer}
RecordExpansion == (0 :> 1 @@ 1 :> 2)

\* An expansion that an MTU can be lower than.
LargeExpansion == (0 :> 2 @@ 1 :> 3)
=============================================================================
