------------------------ MODULE Tls13HandshakeProofs ------------------------
(***************************************************************************)
(* Proofs about Tls13Handshake, for every set of configurations and every  *)
(* bound: two endpoints whose handshake is over agree on the parameters,   *)
(* the keys, the early data and the tickets, and each of them knows the    *)
(* peer it insists on.                                                     *)
(***************************************************************************)
EXTENDS Tls13Handshake, FiniteSetTheorems, TLAPS

(* The states, as far as the argument tells them apart: before the keys of *)
(* the handshake are there, with them, after the server's Finished, and    *)
(* after the client's.                                                     *)

ClientKeyed == {"ENCRYPTED_EXTENSIONS", "CERTIFICATE_REQUEST", "SERVER_CERTIFICATE",
                "CERTIFICATE_VERIFY", "SERVER_FINISHED"}
ClientDone == {"FLUSH_BUFFERS", "HANDSHAKE_WRAPUP", "HANDSHAKE_OVER"}
ClientSecond == {"END_OF_EARLY_DATA", "CLIENT_CCS_AFTER_SERVER_FINISHED", "CLIENT_CERTIFICATE",
                 "CLIENT_CERTIFICATE_VERIFY", "CLIENT_FINISHED"} \cup ClientDone

ServerKeyed == {"SERVER_CCS_AFTER_SERVER_HELLO", "ENCRYPTED_EXTENSIONS", "CERTIFICATE_REQUEST",
                "SERVER_CERTIFICATE", "CERTIFICATE_VERIFY", "SERVER_FINISHED"}
ServerTickets == {"NEW_SESSION_TICKET", "NEW_SESSION_TICKET_FLUSH", "HANDSHAKE_OVER"}
ServerDone == {"HANDSHAKE_WRAPUP"} \cup ServerTickets
ServerSecond == {"END_OF_EARLY_DATA", "CLIENT_CERTIFICATE", "CLIENT_CERTIFICATE_VERIFY",
                 "CLIENT_FINISHED"} \cup ServerDone

ClientFields ==
    {"state", "tin", "tout", "tr", "psk", "share", "mode", "selected", "hrr", "ccs_sent", "early",
     "total", "early_key", "handshake_key", "application_key", "resumption", "client_auth",
     "peer_cert", "tickets"}
ServerFields ==
    {"state", "tin", "tout", "tr", "psk", "share", "mode", "selected", "hrr", "ccs_sent", "groups",
     "psk_modes", "early_accepted", "discard", "limit", "total", "resume", "early_key",
     "handshake_key", "application_key", "resumption", "certificate_request_sent", "peer_cert",
     "count", "tickets"}

IsSeq(q) == q \in Seq({q[i] : i \in 1 .. Len(q)})

\* The records on their way, with the one in the output buffer.
ToClient == net.client \o out.server
ToServer == net.server \o out.client

Carries(r, t) == r.type = "handshake" /\ r.msg.t = t

QueuesAreSeqs ==
    /\ DOMAIN out = Endpoints
    /\ DOMAIN net = Endpoints
    /\ DOMAIN failed = Endpoints
    /\ \A e \in Endpoints : IsSeq(net[e]) /\ IsSeq(out[e])

\* The number of the messages up to the ServerHello.
HelloLen(ep) == Len(ep.handshake_key.tr)

\* The parameters of a handshake are those of the ServerHello, the last
\* message its keys are derived from.
KeysAreOfHello(ep) ==
    LET tr == ep.handshake_key.tr
    IN  /\ ep.handshake_key = Key("handshake", ep.psk, ep.share, tr)
        /\ ep.mode = ModeOf(tr[Len(tr)])

\* The message after the ServerHello says whether early data is accepted.
SaysEarly(tr, n, accepted) ==
    /\ n \in Nat /\ n < Len(tr)
    /\ tr[n + 1].early <=> accepted

\* The tickets of an endpoint come from its own secret, in their order.
TicketsAreOf(ep) ==
    /\ IsSeq(ep.tickets)
    /\ \A k \in 1 .. Len(ep.tickets) : ep.tickets[k] = [secret |-> ep.resumption, nonce |-> k]

-----------------------------------------------------------------------------
(* What is true of the client, whatever the server does.                   *)

ClientInFirstFlight ==
    /\ c.state \notin ClientSecond => c.early # "SERVER_FINISHED_RECEIVED"
    /\ c.state \in ClientKeyed => c.tin = c.handshake_key
    /\ c.state = "ENCRYPTED_EXTENSIONS" => HelloLen(c) = Len(c.tr)
    /\ c.state \in ClientKeyed \ {"ENCRYPTED_EXTENSIONS"} =>
         SaysEarly(c.tr, HelloLen(c), c.early = "ACCEPTED")

ClientIsSure ==
    /\ c.state \in {"CERTIFICATE_VERIFY", "SERVER_FINISHED"} \cup ClientSecond
    /\ c.mode \notin PskModes
    =>  c.peer_cert = conf.s_cert /\ Satisfies(c.peer_cert, conf.c_authmode)

ClientSide ==
    /\ DOMAIN c = ClientFields
    /\ IsSeq(c.tr)
    /\ c.state \in ClientKeyed \cup ClientSecond => KeysAreOfHello(c)
    /\ ClientInFirstFlight
    /\ ClientIsSure
    /\ c.state \in ClientDone => c.resumption = Key("resumption", c.psk, c.share, c.tr)
    /\ c.state = "HANDSHAKE_OVER" => c.tin = c.application_key /\ c.tout = c.application_key
    /\ c.state # "HANDSHAKE_OVER" => c.tickets = <<>>
    /\ TicketsAreOf(c)

(* What is true of the server, whatever the client does.                   *)

ServerHasParameters ==
    /\ s.mode \in PskModes \cup {"ephemeral"}
    /\ s.share = "none" <=> s.mode = "psk"
    /\ s.mode \in PskModes =>
         s.selected # 0 /\ s.psk \in ToSet(ClientPsks) /\ ServerKnows(s.psk)

ServerInFirstFlight ==
    /\ s.state \in {"SERVER_CCS_AFTER_SERVER_HELLO", "ENCRYPTED_EXTENSIONS"} =>
         HelloLen(s) = Len(s.tr)
    /\ s.state \in ServerKeyed \ {"SERVER_CCS_AFTER_SERVER_HELLO", "ENCRYPTED_EXTENSIONS"} =>
         s.tout = s.handshake_key /\ SaysEarly(s.tr, HelloLen(s), s.early_accepted)

ServerIsSure ==
    /\ s.state \notin {"CLIENT_CERTIFICATE_VERIFY", "CLIENT_FINISHED"} \cup ServerDone =>
         s.peer_cert = "none"
    /\ s.state \notin {"SERVER_CERTIFICATE", "CERTIFICATE_VERIFY", "SERVER_FINISHED"} \cup ServerSecond =>
         ~s.certificate_request_sent
    /\ s.state = "CLIENT_CERTIFICATE" => s.certificate_request_sent
    /\ /\ s.state \in {"SERVER_CERTIFICATE", "CERTIFICATE_VERIFY", "SERVER_FINISHED",
                       "END_OF_EARLY_DATA", "CLIENT_CERTIFICATE"}
       /\ s.mode = "ephemeral"
       =>  (s.certificate_request_sent <=> conf.s_authmode # "none")
    /\ /\ s.state \in {"CLIENT_CERTIFICATE_VERIFY", "CLIENT_FINISHED"} \cup ServerDone
       /\ s.mode = "ephemeral"
       =>  /\ Satisfies(s.peer_cert, conf.s_authmode)
           /\ s.peer_cert = IF conf.s_authmode = "none" THEN "none" ELSE conf.c_cert

ServerSide ==
    /\ DOMAIN s = ServerFields
    /\ IsSeq(s.tr)
    /\ s.early_accepted \in BOOLEAN
    /\ s.state \in {"SERVER_HELLO"} \cup ServerKeyed \cup ServerSecond => ServerHasParameters
    /\ s.state \in ServerKeyed \cup ServerSecond => KeysAreOfHello(s)
    /\ ServerInFirstFlight
    /\ ServerIsSure
    /\ s.state \in ServerDone => s.resumption = Key("resumption", s.psk, s.share, s.tr)
    /\ s.state \in ServerTickets => s.tin = s.application_key /\ s.tout = s.application_key
    /\ s.state \notin ServerTickets => s.tickets = <<>>
    /\ TicketsAreOf(s)

(* What ties them together.                                                *)

\* The server's Finished, on its way, stands for its transcript and its keys.
ServerFinishedIsRight(r) ==
    /\ s.state \in ServerSecond
    /\ r.key = s.handshake_key
    /\ s.application_key = Key("application", s.psk, s.share, Append(r.over, r.msg))
    /\ SaysEarly(r.over, HelloLen(s), s.early_accepted)

ServerRecordIsRight(r) ==
    /\ Carries(r, "certificate") => r.msg.cert = conf.s_cert
    /\ Carries(r, "finished") => ServerFinishedIsRight(r)

ClientRecordIsRight(r) ==
    /\ Carries(r, "client_hello") => r.msg.psks = ClientPsks
    /\ Carries(r, "certificate") => r.msg.cert = conf.c_cert
    /\ Carries(r, "finished") => c.state \in ClientDone /\ c.tr = Append(r.over, r.msg)

RecordsAreRight ==
    /\ \A k \in 1 .. Len(ToClient) : ServerRecordIsRight(ToClient[k])
    /\ \A k \in 1 .. Len(ToServer) : ClientRecordIsRight(ToServer[k])

\* A client that verified the server's Finished has the server's keys, and a
\* server that verified the client's Finished has its transcript.
PeersAgree ==
    /\ c.state \in ClientSecond =>
         /\ s.state \in ServerSecond
         /\ c.handshake_key = s.handshake_key
         /\ c.application_key = s.application_key
         /\ (c.early = "SERVER_FINISHED_RECEIVED") = s.early_accepted
    /\ s.state \in ServerDone => c.state \in ClientDone /\ s.tr = c.tr
    /\ s.state \notin ServerTickets => c.tickets = <<>>

\* The server's Finished is the last record of its flight; what comes after it
\* are tickets, in their order.
FlightIsOrdered ==
    s.state \in ServerSecond \ ServerTickets =>
        IF c.state \in ClientSecond THEN ToClient = <<>>
        ELSE /\ ToClient # <<>>
             /\ \A k \in 1 .. Len(ToClient) : Carries(ToClient[k], "finished") <=> k = Len(ToClient)

TicketsAreOrdered ==
    s.state \in ServerTickets =>
        /\ Len(s.tickets) = Len(c.tickets) + Len(ToClient)
        /\ \A k \in 1 .. Len(ToClient) :
             /\ ToClient[k].type = "handshake"
             /\ ToClient[k].msg = [t |-> "new_session_ticket", nonce |-> Len(c.tickets) + k]

QueueIsOrdered == failed.client = "no" => FlightIsOrdered /\ TicketsAreOrdered

Joint == RecordsAreRight /\ PeersAgree /\ QueueIsOrdered

TlsInv == QueuesAreSeqs /\ ClientSide /\ ServerSide /\ Joint

-----------------------------------------------------------------------------
(* Sequences of anything.                                                  *)

\* A sequence over any set is one over its own elements.
LEMMA SeqIsSeq ==
    ASSUME NEW S, NEW q \in Seq(S)
    PROVE  IsSeq(q)
BY DEF IsSeq

\* What Append returns.
LEMMA AppendIs ==
    ASSUME NEW q, IsSeq(q), NEW x
    PROVE  /\ IsSeq(Append(q, x))
           /\ Len(q) \in Nat
           /\ Len(Append(q, x)) = Len(q) + 1
           /\ Append(q, x)[Len(q) + 1] = x
           /\ \A i \in 1 .. Len(q) : Append(q, x)[i] = q[i]
           /\ Append(q, x) # <<>>
<1> DEFINE S == {q[i] : i \in 1 .. Len(q)}
           T == S \cup {x}
<1>1. q \in Seq(S) /\ S \subseteq T /\ x \in T
  BY DEF IsSeq
<1> HIDE DEF S, T
<1>2. q \in Seq(T)
  BY <1>1
<1>3. Append(q, x) \in Seq(T)
  BY <1>1, <1>2
<1>4. IsSeq(Append(q, x))
  BY <1>3, SeqIsSeq
<1>5. Append(q, x)[Len(q) + 1] = x
  BY <1>1, <1>2
<1>6. \A i \in 1 .. Len(q) : Append(q, x)[i] = q[i]
  BY <1>1, <1>2
<1>7. Append(q, x) # <<>> /\ Len(Append(q, x)) = Len(q) + 1 /\ Len(q) \in Nat
  BY <1>1, <1>2
<1> QED
  BY <1>4, <1>5, <1>6, <1>7

\* What Tail returns.
LEMMA TailIs ==
    ASSUME NEW q, IsSeq(q), q # <<>>
    PROVE  /\ IsSeq(Tail(q))
           /\ Len(q) \in Nat \ {0}
           /\ Len(Tail(q)) = Len(q) - 1
           /\ \A i \in 1 .. Len(q) - 1 : Tail(q)[i] = q[i + 1]
           /\ Head(q) = q[1]
<1> DEFINE S == {q[i] : i \in 1 .. Len(q)}
<1>1. q \in Seq(S)
  BY DEF IsSeq
<1> HIDE DEF S
<1>2. Tail(q) \in Seq(S)
  BY <1>1
<1>3. IsSeq(Tail(q))
  BY <1>2, SeqIsSeq
<1> QED
  BY <1>1, <1>3

\* What concatenation returns.
LEMMA ConcatIs ==
    ASSUME NEW p, IsSeq(p), NEW q, IsSeq(q)
    PROVE  /\ IsSeq(p \o q)
           /\ Len(p \o q) = Len(p) + Len(q)
           /\ q = <<>> => p \o q = p
           /\ p # <<>> => /\ p \o q # <<>>
                          /\ Head(p \o q) = Head(p)
                          /\ Tail(p \o q) = Tail(p) \o q
           /\ \A x : q = <<x>> => p \o q = Append(p, x)
<1> DEFINE S == {p[i] : i \in 1 .. Len(p)} \cup {q[i] : i \in 1 .. Len(q)}
<1>1. p \in Seq(S) /\ q \in Seq(S)
  <2> DEFINE P == {p[i] : i \in 1 .. Len(p)}
             Q == {q[i] : i \in 1 .. Len(q)}
  <2>1. p \in Seq(P) /\ q \in Seq(Q) /\ P \subseteq S /\ Q \subseteq S
    BY DEF IsSeq
  <2> HIDE DEF P, Q, S
  <2> QED
    BY <2>1
<1> HIDE DEF S
<1>2. p \o q \in Seq(S) /\ Len(p \o q) = Len(p) + Len(q)
  BY <1>1
<1>3. IsSeq(p \o q)
  BY <1>2, SeqIsSeq
<1>4. q = <<>> => p \o q = p
  BY <1>1
<1>5. ASSUME p # <<>>
      PROVE  p \o q # <<>> /\ Head(p \o q) = Head(p) /\ Tail(p \o q) = Tail(p) \o q
  BY <1>1, <1>5
<1>6. ASSUME NEW x, q = <<x>> PROVE p \o q = Append(p, x)
  BY <1>1, <1>6
<1> QED
  BY <1>2, <1>3, <1>4, <1>5, <1>6

\* A single element and nothing are sequences.
LEMMA SingleIs ==
    ASSUME NEW x
    PROVE  IsSeq(<<x>>) /\ IsSeq(<<>>)
<1>1. <<x>> \in Seq({x}) /\ <<>> \in Seq({x})
  OBVIOUS
<1> QED
  BY <1>1, SeqIsSeq

-----------------------------------------------------------------------------
(* What an operation does to the records on their way.                     *)

\* All records on their way in one direction form a sequence.
LEMMA QueuesAre ==
    ASSUME QueuesAreSeqs
    PROVE  IsSeq(ToClient) /\ IsSeq(ToServer)
BY ConcatIs DEF QueuesAreSeqs, ToClient, ToServer, Endpoints

\* A step that writes and reads no record moves none.
LEMMA NothingMoves ==
    ASSUME QueuesAreSeqs, net' = net, out' = out
    PROVE  /\ ToClient' = ToClient
           /\ ToServer' = ToServer
           /\ DOMAIN failed' = Endpoints => QueuesAreSeqs'
BY DEF QueuesAreSeqs, ToClient, ToServer

\* A record the client writes is the last on its way to the server.
LEMMA ClientEmits ==
    ASSUME QueuesAreSeqs, NEW r, out.client = <<>>, Emit("client", r), net' = net
    PROVE  /\ ToClient' = ToClient
           /\ ToServer' = Append(ToServer, r)
           /\ DOMAIN failed' = Endpoints => QueuesAreSeqs'
<1>1. /\ DOMAIN out' = Endpoints
      /\ out'.client = <<r>>
      /\ out'.server = out.server
  BY DEF Emit, QueuesAreSeqs, Endpoints
<1>2. IsSeq(net.server) /\ IsSeq(<<>>) /\ IsSeq(<<r>>)
  BY SingleIs DEF QueuesAreSeqs, Endpoints
<1>3. net.server \o <<>> = net.server /\ net.server \o <<r>> = Append(net.server, r)
  BY <1>2, ConcatIs
<1> QED
  BY <1>1, <1>2, <1>3 DEF QueuesAreSeqs, ToClient, ToServer, Endpoints

\* A record the server writes is the last on its way to the client.
LEMMA ServerEmits ==
    ASSUME QueuesAreSeqs, NEW r, out.server = <<>>, Emit("server", r), net' = net
    PROVE  /\ ToClient' = Append(ToClient, r)
           /\ ToServer' = ToServer
           /\ DOMAIN failed' = Endpoints => QueuesAreSeqs'
<1>1. /\ DOMAIN out' = Endpoints
      /\ out'.server = <<r>>
      /\ out'.client = out.client
  BY DEF Emit, QueuesAreSeqs, Endpoints
<1>2. IsSeq(net.client) /\ IsSeq(<<>>) /\ IsSeq(<<r>>)
  BY SingleIs DEF QueuesAreSeqs, Endpoints
<1>3. net.client \o <<>> = net.client /\ net.client \o <<r>> = Append(net.client, r)
  BY <1>2, ConcatIs
<1> QED
  BY <1>1, <1>2, <1>3 DEF QueuesAreSeqs, ToClient, ToServer, Endpoints

\* The client reads the first record on its way.
LEMMA ClientConsumes ==
    ASSUME QueuesAreSeqs, net.client # <<>>, Consume("client"), out' = out
    PROVE  /\ ToClient # <<>>
           /\ ToClient[1] = Head(net.client)
           /\ ToClient' = Tail(ToClient)
           /\ ToServer' = ToServer
           /\ DOMAIN failed' = Endpoints => QueuesAreSeqs'
<1>1. /\ DOMAIN net' = Endpoints
      /\ net'.client = Tail(net.client)
      /\ net'.server = net.server
  BY DEF Consume, QueuesAreSeqs, Endpoints
<1>2. IsSeq(net.client) /\ IsSeq(out.server) /\ IsSeq(Tail(net.client))
  BY TailIs DEF QueuesAreSeqs, Endpoints
<1>3. /\ ToClient # <<>>
      /\ Head(ToClient) = Head(net.client)
      /\ Tail(ToClient) = Tail(net.client) \o out.server
  BY <1>2, ConcatIs DEF ToClient
<1>4. Head(ToClient) = ToClient[1]
  BY <1>3, QueuesAre, TailIs
<1> QED
  BY <1>1, <1>2, <1>3, <1>4 DEF QueuesAreSeqs, ToClient, ToServer, Endpoints

\* The server reads the first record on its way.
LEMMA ServerConsumes ==
    ASSUME QueuesAreSeqs, net.server # <<>>, Consume("server"), out' = out
    PROVE  /\ ToServer # <<>>
           /\ ToServer[1] = Head(net.server)
           /\ ToServer' = Tail(ToServer)
           /\ ToClient' = ToClient
           /\ DOMAIN failed' = Endpoints => QueuesAreSeqs'
<1>1. /\ DOMAIN net' = Endpoints
      /\ net'.server = Tail(net.server)
      /\ net'.client = net.client
  BY DEF Consume, QueuesAreSeqs, Endpoints
<1>2. IsSeq(net.server) /\ IsSeq(out.client) /\ IsSeq(Tail(net.server))
  BY TailIs DEF QueuesAreSeqs, Endpoints
<1>3. /\ ToServer # <<>>
      /\ Head(ToServer) = Head(net.server)
      /\ Tail(ToServer) = Tail(net.server) \o out.client
  BY <1>2, ConcatIs DEF ToServer
<1>4. Head(ToServer) = ToServer[1]
  BY <1>3, QueuesAre, TailIs
<1> QED
  BY <1>1, <1>2, <1>3, <1>4 DEF QueuesAreSeqs, ToClient, ToServer, Endpoints

\* mbedtls_ssl_flush_output() passes records on in their order: the sequence
\* on its way is the same.
LEMMA FlushMovesNothing ==
    ASSUME QueuesAreSeqs, NEW e \in Endpoints, Flush(e)
    PROVE  ToClient' = ToClient /\ ToServer' = ToServer /\ QueuesAreSeqs'
<1>1. /\ out' = [out EXCEPT ![e] = <<>>]
      /\ net' = [net EXCEPT ![Peer(e)] = net[Peer(e)] \o out[e]]
      /\ failed' = failed
  BY DEF Flush, QueuesAreSeqs
<1>2. IsSeq(<<>>) /\ \A q : IsSeq(q) => q \o <<>> = q
  BY SingleIs, ConcatIs
<1>3. IsSeq(ToClient) /\ IsSeq(ToServer)
  BY QueuesAre
<1>4. CASE e = "client"
  <2>1. /\ out'.client = <<>> /\ out'.server = out.server
        /\ net'.server = ToServer /\ net'.client = net.client
        /\ DOMAIN out' = Endpoints /\ DOMAIN net' = Endpoints
    BY <1>1, <1>4 DEF QueuesAreSeqs, Endpoints, Peer, ToServer
  <2> QED
    BY <2>1, <1>1, <1>2, <1>3 DEF QueuesAreSeqs, ToClient, ToServer, Endpoints
<1>5. CASE e = "server"
  <2>1. /\ out'.server = <<>> /\ out'.client = out.client
        /\ net'.client = ToClient /\ net'.server = net.server
        /\ DOMAIN out' = Endpoints /\ DOMAIN net' = Endpoints
    BY <1>1, <1>5 DEF QueuesAreSeqs, Endpoints, Peer, ToClient
  <2> QED
    BY <2>1, <1>1, <1>2, <1>3 DEF QueuesAreSeqs, ToClient, ToServer, Endpoints
<1> QED
  BY <1>4, <1>5 DEF Endpoints

-----------------------------------------------------------------------------
(* Most operations keep what ties the endpoints together: they leave the    *)
(* phase of the endpoint and what the peer knows of it as they are, and put *)
(* on the way, or take off it, a record that is not a Finished.             *)

ClientKeeps ==
    /\ c'.state \in ClientSecond <=> c.state \in ClientSecond
    /\ c'.state \in ClientDone <=> c.state \in ClientDone
    /\ c.state \in ClientSecond =>
         /\ c'.handshake_key = c.handshake_key
         /\ c'.application_key = c.application_key
         /\ c'.early = c.early
    /\ c.state \in ClientDone => c'.tr = c.tr
    /\ c'.tickets = c.tickets

ServerKeeps ==
    /\ s'.state \in ServerSecond <=> s.state \in ServerSecond
    /\ s'.state \in ServerDone <=> s.state \in ServerDone
    /\ s'.state \in ServerTickets <=> s.state \in ServerTickets
    /\ s.state \in ServerSecond =>
         /\ s'.handshake_key = s.handshake_key
         /\ s'.application_key = s.application_key
         /\ s'.psk = s.psk /\ s'.share = s.share
         /\ s'.early_accepted = s.early_accepted
    /\ s.state \in ServerDone => s'.tr = s.tr
    /\ s'.tickets = s.tickets

ToClientKeeps ==
    \/ ToClient' = ToClient
    \/ /\ ToClient # <<>>
       /\ ToClient' = Tail(ToClient)
       /\ failed'.client = "no" =>
            c.state \notin ClientSecond /\ ~Carries(ToClient[1], "finished")
    \/ \E r : /\ ToClient' = Append(ToClient, r)
              /\ s.state \notin ServerSecond
              /\ ~Carries(r, "finished")
              /\ ServerRecordIsRight(r)

ToServerKeeps ==
    \/ ToServer' = ToServer
    \/ ToServer # <<>> /\ ToServer' = Tail(ToServer)
    \/ \E r : /\ ToServer' = Append(ToServer, r)
              /\ ~Carries(r, "finished")
              /\ ClientRecordIsRight(r)

ClientStays ==
    c.state \in ClientDone => c'.state \in ClientDone /\ c'.tr = c.tr

ServerStays ==
    s.state \in ServerSecond =>
        /\ s'.state \in ServerSecond
        /\ s'.handshake_key = s.handshake_key
        /\ s'.application_key = s.application_key
        /\ s'.psk = s.psk /\ s'.share = s.share
        /\ s'.early_accepted = s.early_accepted

\* A record is put at the end, right, or taken from the beginning.
ToClientMoves ==
    \/ ToClient' = ToClient
    \/ ToClient # <<>> /\ ToClient' = Tail(ToClient)
    \/ \E r : ToClient' = Append(ToClient, r) /\ ServerRecordIsRight(r)'

ToServerMoves ==
    \/ ToServer' = ToServer
    \/ ToServer # <<>> /\ ToServer' = Tail(ToServer)
    \/ \E r : ToServer' = Append(ToServer, r) /\ ClientRecordIsRight(r)'

\* What is right of a record stays right.
LEMMA ServerRecordStaysRight ==
    ASSUME ServerStays, conf' = conf, NEW r, ServerRecordIsRight(r)
    PROVE  ServerRecordIsRight(r)'
BY DEF ServerStays, ServerRecordIsRight, ServerFinishedIsRight, Carries, SaysEarly, HelloLen

\* A record of the client stays right as long as what the client sent stays.
LEMMA ClientRecordStaysRight ==
    ASSUME ClientStays, conf' = conf, NEW r, ClientRecordIsRight(r)
    PROVE  ClientRecordIsRight(r)'
BY DEF ClientStays, ClientRecordIsRight, Carries, ClientPsks, TicketModes

\* Records stay right when the endpoints keep what they stand for and new
\* ones are right.
LEMMA RecordsStayRight ==
    ASSUME QueuesAreSeqs, RecordsAreRight, ClientStays, ServerStays, conf' = conf,
           ToClientMoves, ToServerMoves
    PROVE  RecordsAreRight'
<1>1. IsSeq(ToClient) /\ IsSeq(ToServer)
  BY QueuesAre
<1>2. ASSUME NEW k \in 1 .. Len(ToClient') PROVE ServerRecordIsRight(ToClient[k])'
  <2>1. CASE ToClient' = ToClient
    BY <2>1, ServerRecordStaysRight DEF RecordsAreRight
  <2>2. CASE ToClient # <<>> /\ ToClient' = Tail(ToClient)
    <3>1. k + 1 \in 1 .. Len(ToClient) /\ ToClient'[k] = ToClient[k + 1]
      BY <1>1, <2>2, TailIs
    <3>2. ServerRecordIsRight(ToClient[k + 1])
      BY <3>1 DEF RecordsAreRight
    <3> QED
      BY <3>1, <3>2, ServerRecordStaysRight
  <2>3. ASSUME NEW r, ToClient' = Append(ToClient, r), ServerRecordIsRight(r)'
        PROVE  ServerRecordIsRight(ToClient[k])'
    <3>1. /\ Len(ToClient) \in Nat
          /\ Len(ToClient') = Len(ToClient) + 1
          /\ ToClient'[Len(ToClient) + 1] = r
          /\ \A i \in 1 .. Len(ToClient) : ToClient'[i] = ToClient[i]
      BY <1>1, <2>3, AppendIs
    <3>2. CASE k \in 1 .. Len(ToClient)
      <4>1. ServerRecordIsRight(ToClient[k])
        BY <3>2 DEF RecordsAreRight
      <4> QED
        BY <4>1, <3>1, <3>2, ServerRecordStaysRight
    <3>3. CASE k = Len(ToClient) + 1
      BY <2>3, <3>1, <3>3, ServerRecordStaysRight
    <3> QED
      BY <3>1, <3>2, <3>3
  <2> QED
    BY <2>1, <2>2, <2>3 DEF ToClientMoves
<1>3. ASSUME NEW k \in 1 .. Len(ToServer') PROVE ClientRecordIsRight(ToServer[k])'
  <2>1. CASE ToServer' = ToServer
    BY <2>1, ClientRecordStaysRight DEF RecordsAreRight
  <2>2. CASE ToServer # <<>> /\ ToServer' = Tail(ToServer)
    <3>1. k + 1 \in 1 .. Len(ToServer) /\ ToServer'[k] = ToServer[k + 1]
      BY <1>1, <2>2, TailIs
    <3>2. ClientRecordIsRight(ToServer[k + 1])
      BY <3>1 DEF RecordsAreRight
    <3> QED
      BY <3>1, <3>2, ClientRecordStaysRight
  <2>3. ASSUME NEW r, ToServer' = Append(ToServer, r), ClientRecordIsRight(r)'
        PROVE  ClientRecordIsRight(ToServer[k])'
    <3>1. /\ Len(ToServer) \in Nat
          /\ Len(ToServer') = Len(ToServer) + 1
          /\ ToServer'[Len(ToServer) + 1] = r
          /\ \A i \in 1 .. Len(ToServer) : ToServer'[i] = ToServer[i]
      BY <1>1, <2>3, AppendIs
    <3>2. CASE k \in 1 .. Len(ToServer)
      <4>1. ClientRecordIsRight(ToServer[k])
        BY <3>2 DEF RecordsAreRight
      <4> QED
        BY <4>1, <3>1, <3>2, ClientRecordStaysRight
    <3>3. CASE k = Len(ToServer) + 1
      BY <2>3, <3>1, <3>3, ClientRecordStaysRight
    <3> QED
      BY <3>1, <3>2, <3>3
  <2> QED
    BY <2>1, <2>2, <2>3 DEF ToServerMoves
<1> QED
  BY <1>2, <1>3 DEF RecordsAreRight

\* The server's Finished stays the last of its flight, and its tickets stay
\* in order behind it.
LEMMA QueueStaysOrdered ==
    ASSUME QueuesAreSeqs, QueueIsOrdered, PeersAgree, ClientKeeps, ServerKeeps, ToClientKeeps,
           failed'.client = "no" => failed.client = "no"
    PROVE  QueueIsOrdered'
<1> SUFFICES ASSUME failed'.client = "no"
             PROVE  FlightIsOrdered' /\ TicketsAreOrdered'
  BY DEF QueueIsOrdered
<1>1. IsSeq(ToClient) /\ FlightIsOrdered /\ TicketsAreOrdered
  BY QueuesAre DEF QueueIsOrdered
<1>2. CASE ToClient' = ToClient
  BY <1>1, <1>2 DEF FlightIsOrdered, TicketsAreOrdered, ClientKeeps, ServerKeeps
<1>3. CASE ToClient # <<>> /\ ToClient' = Tail(ToClient)
  <2>1. \/ c.state \notin ClientSecond /\ ~Carries(ToClient[1], "finished")
        \/ ToClient' = ToClient
    <3>1. ToClient' # ToClient
      BY <1>1, <1>3, TailIs
    <3>2. ASSUME NEW r, ToClient' = Append(ToClient, r) PROVE FALSE
      BY <1>1, <1>3, <3>2, TailIs, AppendIs
    <3> QED
      BY <3>1, <3>2 DEF ToClientKeeps
  <2>2. s'.state \notin ServerTickets
    BY <2>1, <1>2, <1>1, <1>3, TailIs
       DEF PeersAgree, ServerKeeps, ServerDone, ClientSecond
  <2>3. /\ Len(ToClient) \in Nat \ {0}
        /\ Len(ToClient') = Len(ToClient) - 1
        /\ \A i \in 1 .. Len(ToClient) - 1 : ToClient'[i] = ToClient[i + 1]
    BY <1>1, <1>3, TailIs
  <2>4. ASSUME s'.state \in ServerSecond, ~Carries(ToClient[1], "finished"),
               c.state \notin ClientSecond
        PROVE  /\ ToClient' # <<>>
               /\ \A k \in 1 .. Len(ToClient') :
                    Carries(ToClient'[k], "finished") <=> k = Len(ToClient')
    <3>1. \A k \in 1 .. Len(ToClient) :
              Carries(ToClient[k], "finished") <=> k = Len(ToClient)
      BY <1>1, <2>2, <2>4 DEF FlightIsOrdered, ServerKeeps
    <3>2. Len(ToClient) # 1
      BY <2>3, <2>4, <3>1
    <3>3. \A k \in 1 .. Len(ToClient') :
              k + 1 \in 1 .. Len(ToClient) /\ ToClient'[k] = ToClient[k + 1]
      BY <2>3
    <3> QED
      BY <2>3, <3>1, <3>2, <3>3
  <2> QED
    BY <1>2, <2>1, <2>2, <2>4 DEF FlightIsOrdered, TicketsAreOrdered, ClientKeeps
<1>4. ASSUME NEW r, ToClient' = Append(ToClient, r), s.state \notin ServerSecond
      PROVE  FlightIsOrdered' /\ TicketsAreOrdered'
  BY <1>4 DEF FlightIsOrdered, TicketsAreOrdered, ServerKeeps, ServerSecond, ServerDone
<1> QED
  BY <1>2, <1>3, <1>4 DEF ToClientKeeps

\* What the peers agree on stays when both keep what they know.
LEMMA PeersStillAgree ==
    ASSUME PeersAgree, ClientKeeps, ServerKeeps
    PROVE  PeersAgree'
<1>1. c.state \in ClientDone => c.state \in ClientSecond
  BY DEF ClientDone, ClientSecond
<1>2. s.state \in ServerDone => s.state \in ServerSecond
  BY DEF ServerDone, ServerSecond
<1> QED
  BY <1>1, <1>2 DEF PeersAgree, ClientKeeps, ServerKeeps

\* The joint part of the invariant holds after a step of either side.
LEMMA JointKept ==
    ASSUME QueuesAreSeqs, Joint, ClientKeeps, ServerKeeps, conf' = conf,
           ToClientKeeps, ToServerKeeps,
           failed'.client = "no" => failed.client = "no"
    PROVE  Joint'
<1>1. ClientStays /\ ServerStays
  BY DEF ClientStays, ServerStays, ClientKeeps, ServerKeeps
<1>2. ToClientMoves
  BY <1>1, ServerRecordStaysRight DEF ToClientKeeps, ToClientMoves
<1>3. ToServerMoves
  BY <1>1, ClientRecordStaysRight DEF ToServerKeeps, ToServerMoves
<1>4. RecordsAreRight'
  BY <1>1, <1>2, <1>3, RecordsStayRight DEF Joint
<1> QED
  BY <1>4, QueueStaysOrdered, PeersStillAgree DEF Joint

-----------------------------------------------------------------------------
(* The invariant from its parts.                                           *)

\* A step that leaves the client alone keeps its part.
LEMMA ClientSame ==
    ASSUME ClientSide, c' = c, conf' = conf
    PROVE  ClientSide' /\ ClientKeeps
BY DEF ClientSide, ClientKeeps, ClientInFirstFlight, ClientIsSure, KeysAreOfHello, SaysEarly,
       HelloLen, TicketsAreOf, IsSeq

\* The server keeps the parameters it selected.
LEMMA ParametersStay ==
    ASSUME ServerHasParameters, conf' = conf,
           s'.mode = s.mode, s'.share = s.share, s'.psk = s.psk, s'.selected = s.selected
    PROVE  ServerHasParameters'
<1>1. ClientPsks' = ClientPsks
  BY DEF ClientPsks, TicketModes
<1>2. ServerKnows(s.psk)' <=> ServerKnows(s.psk)
  BY DEF ServerKnows
<1> QED
  BY <1>1, <1>2 DEF ServerHasParameters

\* A step that leaves the server alone keeps its part.
LEMMA ServerSame ==
    ASSUME ServerSide, s' = s, conf' = conf
    PROVE  ServerSide' /\ ServerKeeps
<1>1. ServerHasParameters => ServerHasParameters'
  BY ParametersStay
<1>2. ServerKeeps
  BY DEF ServerKeeps
<1>3. (ServerInFirstFlight /\ ServerIsSure)'
  BY DEF ServerSide, ServerInFirstFlight, ServerIsSure, SaysEarly, HelloLen
<1>4. (KeysAreOfHello(s) => KeysAreOfHello(s)') /\ TicketsAreOf(s)' /\ IsSeq(s.tr)'
  BY DEF ServerSide, KeysAreOfHello, TicketsAreOf, IsSeq
<1> QED
  BY <1>1, <1>2, <1>3, <1>4 DEF ServerSide

\* The frame of every step: both sides keep their parts and the records keep
\* theirs.
LEMMA EndpointsStep ==
    ASSUME TlsInv, ClientSide', ClientKeeps, ServerSide', ServerKeeps, conf' = conf,
           failed'.client = "no" => failed.client = "no", QueuesAreSeqs',
           ToClientKeeps, ToServerKeeps
    PROVE  TlsInv'
BY JointKept DEF TlsInv

\* A client that refuses a record fails, and the invariant holds.
LEMMA ClientRefuses ==
    ASSUME TlsInv, net.client # <<>>, NEW why, why # "no", Refuses("client", why)
    PROVE  TlsInv'
<1>1. /\ QueuesAreSeqs /\ ClientSide /\ ServerSide
      /\ Consume("client") /\ c' = c /\ s' = s /\ conf' = conf /\ out' = out
  BY DEF TlsInv, Refuses, GivesUp
<1>2. DOMAIN failed' = Endpoints /\ failed'.client # "no"
  BY <1>1 DEF Refuses, GivesUp, QueuesAreSeqs, Endpoints
<1>3. ToClient # <<>> /\ ToClient' = Tail(ToClient) /\ ToServer' = ToServer /\ QueuesAreSeqs'
  BY <1>1, <1>2, ClientConsumes
<1>4. ToClientKeeps /\ ToServerKeeps
  BY <1>2, <1>3 DEF ToClientKeeps, ToServerKeeps
<1>5. ClientSide' /\ ClientKeeps /\ ServerSide' /\ ServerKeeps
  BY <1>1, ClientSame, ServerSame
<1> QED
  BY <1>1, <1>2, <1>3, <1>4, <1>5, EndpointsStep

\* A server that refuses a record fails, and the invariant holds.
LEMMA ServerRefuses ==
    ASSUME TlsInv, net.server # <<>>, NEW why, Refuses("server", why)
    PROVE  TlsInv'
<1>1. /\ QueuesAreSeqs /\ ClientSide /\ ServerSide
      /\ Consume("server") /\ c' = c /\ s' = s /\ conf' = conf /\ out' = out
  BY DEF TlsInv, Refuses, GivesUp
<1>2. DOMAIN failed' = Endpoints /\ failed'.client = failed.client
  BY <1>1 DEF Refuses, GivesUp, QueuesAreSeqs, Endpoints
<1>3. ToServer # <<>> /\ ToServer' = Tail(ToServer) /\ ToClient' = ToClient /\ QueuesAreSeqs'
  BY <1>1, <1>2, ServerConsumes
<1>4. ToClientKeeps /\ ToServerKeeps
  BY <1>3 DEF ToClientKeeps, ToServerKeeps
<1>5. ClientSide' /\ ClientKeeps /\ ServerSide' /\ ServerKeeps
  BY <1>1, ClientSame, ServerSame
<1> QED
  BY <1>1, <1>2, <1>3, <1>4, <1>5, EndpointsStep

\* An endpoint that gives up without reading keeps the invariant.
LEMMA GivesUpInPlace ==
    ASSUME TlsInv, NEW e \in Endpoints, NEW why, why # "no", GivesUp(e, why), net' = net
    PROVE  TlsInv'
<1>1. /\ QueuesAreSeqs /\ ClientSide /\ ServerSide
      /\ c' = c /\ s' = s /\ conf' = conf /\ out' = out
  BY DEF TlsInv, GivesUp
<1>2. DOMAIN failed' = Endpoints /\ (failed'.client = "no" => failed.client = "no")
  BY <1>1 DEF GivesUp, QueuesAreSeqs, Endpoints
<1>3. ToServer' = ToServer /\ ToClient' = ToClient /\ QueuesAreSeqs'
  BY <1>1, <1>2, NothingMoves
<1>4. ToClientKeeps /\ ToServerKeeps
  BY <1>3 DEF ToClientKeeps, ToServerKeeps
<1>5. ClientSide' /\ ClientKeeps /\ ServerSide' /\ ServerKeeps
  BY <1>1, ClientSame, ServerSame
<1> QED
  BY <1>1, <1>2, <1>3, <1>4, <1>5, EndpointsStep

\* An operation of one endpoint that puts nothing on the way.
LEMMA ClientAlone ==
    ASSUME TlsInv, ClientSide', ClientKeeps, UNCHANGED <<conf, s, out, net, failed>>
    PROVE  TlsInv'
<1>1. QueuesAreSeqs /\ ServerSide /\ DOMAIN failed' = Endpoints
  BY DEF TlsInv, QueuesAreSeqs
<1>2. ToServer' = ToServer /\ ToClient' = ToClient /\ QueuesAreSeqs'
  BY <1>1, NothingMoves
<1>3. ToClientKeeps /\ ToServerKeeps
  BY <1>2 DEF ToClientKeeps, ToServerKeeps
<1> QED
  BY <1>1, <1>2, <1>3, ServerSame, EndpointsStep

\* The frame of a server's step without input and output.
LEMMA ServerAlone ==
    ASSUME TlsInv, ServerSide', ServerKeeps, UNCHANGED <<conf, c, out, net, failed>>
    PROVE  TlsInv'
<1>1. QueuesAreSeqs /\ ClientSide /\ DOMAIN failed' = Endpoints
  BY DEF TlsInv, QueuesAreSeqs
<1>2. ToServer' = ToServer /\ ToClient' = ToClient /\ QueuesAreSeqs'
  BY <1>1, NothingMoves
<1>3. ToClientKeeps /\ ToServerKeeps
  BY <1>2 DEF ToClientKeeps, ToServerKeeps
<1> QED
  BY <1>1, <1>2, <1>3, ClientSame, EndpointsStep

\* One that puts a record in the output buffer.
LEMMA ClientPuts ==
    ASSUME TlsInv, ClientSide', ClientKeeps, out.client = <<>>, NEW r, Emit("client", r),
           ~Carries(r, "finished"), ClientRecordIsRight(r),
           UNCHANGED <<conf, s, net, failed>>
    PROVE  TlsInv'
<1>1. QueuesAreSeqs /\ ServerSide /\ DOMAIN failed' = Endpoints
  BY DEF TlsInv, QueuesAreSeqs
<1>2. ToServer' = Append(ToServer, r) /\ ToClient' = ToClient /\ QueuesAreSeqs'
  BY <1>1, ClientEmits
<1>3. ToClientKeeps /\ ToServerKeeps
  BY <1>2 DEF ToClientKeeps, ToServerKeeps
<1> QED
  BY <1>1, <1>2, <1>3, ServerSame, EndpointsStep

\* The frame of a server's step that writes one record before its tickets.
LEMMA ServerPuts ==
    ASSUME TlsInv, ServerSide', ServerKeeps, out.server = <<>>, NEW r, Emit("server", r),
           s.state \notin ServerSecond, ~Carries(r, "finished"), ServerRecordIsRight(r),
           UNCHANGED <<conf, c, net, failed>>
    PROVE  TlsInv'
<1>1. QueuesAreSeqs /\ ClientSide /\ DOMAIN failed' = Endpoints
  BY DEF TlsInv, QueuesAreSeqs
<1>2. ToClient' = Append(ToClient, r) /\ ToServer' = ToServer /\ QueuesAreSeqs'
  BY <1>1, ServerEmits
<1>3. ToClientKeeps /\ ToServerKeeps
  BY <1>2 DEF ToClientKeeps, ToServerKeeps
<1> QED
  BY <1>1, <1>2, <1>3, ClientSame, EndpointsStep

\* One that takes a record from the transport.
LEMMA ClientTakes ==
    ASSUME TlsInv, ClientSide', ClientKeeps, net.client # <<>>, Consume("client"),
           c.state \notin ClientSecond, ~Carries(Head(net.client), "finished"),
           UNCHANGED <<conf, s, out, failed>>
    PROVE  TlsInv'
<1>1. QueuesAreSeqs /\ ServerSide /\ DOMAIN failed' = Endpoints
  BY DEF TlsInv, QueuesAreSeqs
<1>2. /\ ToClient # <<>> /\ ToClient[1] = Head(net.client)
      /\ ToClient' = Tail(ToClient) /\ ToServer' = ToServer /\ QueuesAreSeqs'
  BY <1>1, ClientConsumes
<1>3. ToClientKeeps /\ ToServerKeeps
  BY <1>2 DEF ToClientKeeps, ToServerKeeps
<1> QED
  BY <1>1, <1>2, <1>3, ServerSame, EndpointsStep

\* The frame of a server's step that reads one record.
LEMMA ServerTakes ==
    ASSUME TlsInv, ServerSide', ServerKeeps, net.server # <<>>, Consume("server"),
           UNCHANGED <<conf, c, out, failed>>
    PROVE  TlsInv'
<1>1. QueuesAreSeqs /\ ClientSide /\ DOMAIN failed' = Endpoints
  BY DEF TlsInv, QueuesAreSeqs
<1>2. /\ ToServer # <<>> /\ ToServer' = Tail(ToServer) /\ ToClient' = ToClient /\ QueuesAreSeqs'
  BY <1>1, ServerConsumes
<1>3. ToClientKeeps /\ ToServerKeeps
  BY <1>2 DEF ToClientKeeps, ToServerKeeps
<1> QED
  BY <1>1, <1>2, <1>3, ClientSame, EndpointsStep

-----------------------------------------------------------------------------
(* What an endpoint that reads a message of a type knows.                  *)

\* What a client that reads a message finds.
LEMMA ClientReceives ==
    ASSUME TlsInv, NEW t, Receives("client", t)
    PROVE  /\ net.client # <<>>
           /\ out.client = <<>>
           /\ failed.client = "no"
           /\ ToClient # <<>>
           /\ ToClient[1] = Head(net.client)
           /\ Carries(Head(net.client), t)
           /\ Head(net.client).key = c.tin
           /\ Message("client") = Head(net.client).msg
           /\ Message("client").t = t
           /\ ServerRecordIsRight(Head(net.client))
           /\ c.state \in DOMAIN ClientWaits /\ t \in ClientWaits[c.state]
<1>1. /\ net.client # <<>> /\ failed.client = "no" /\ out.client = <<>>
      /\ Carries(Head(net.client), t) /\ Head(net.client).key = c.tin
      /\ c.state \in DOMAIN ClientWaits /\ t \in ClientWaits[c.state]
  BY DEF Receives, Reading, IsExpected, Context, Waits, Carries
<1>2. QueuesAreSeqs /\ RecordsAreRight
  BY DEF TlsInv, Joint
<1>3. IsSeq(ToClient) /\ IsSeq(net.client) /\ IsSeq(out.server)
  BY <1>2, QueuesAre DEF QueuesAreSeqs, Endpoints
<1>4. ToClient # <<>> /\ Head(ToClient) = Head(net.client)
  BY <1>1, <1>3, ConcatIs DEF ToClient
<1>5. Head(ToClient) = ToClient[1] /\ 1 \in 1 .. Len(ToClient)
  BY <1>3, <1>4, TailIs
<1> QED
  BY <1>1, <1>2, <1>4, <1>5 DEF RecordsAreRight, Message, Carries

\* What a server that reads a message finds.
LEMMA ServerReceives ==
    ASSUME TlsInv, NEW t, Receives("server", t)
    PROVE  /\ net.server # <<>>
           /\ out.server = <<>>
           /\ failed.server = "no"
           /\ ToServer # <<>>
           /\ ToServer[1] = Head(net.server)
           /\ Carries(Head(net.server), t)
           /\ Head(net.server).key = s.tin
           /\ Message("server") = Head(net.server).msg
           /\ Message("server").t = t
           /\ ClientRecordIsRight(Head(net.server))
           /\ s.state \in DOMAIN ServerWaits /\ t \in ServerWaits[s.state]
<1>1. /\ net.server # <<>> /\ failed.server = "no" /\ out.server = <<>>
      /\ Carries(Head(net.server), t) /\ Head(net.server).key = s.tin
      /\ s.state \in DOMAIN ServerWaits /\ t \in ServerWaits[s.state]
  BY DEF Receives, Reading, IsExpected, Context, Waits, Carries
<1>2. QueuesAreSeqs /\ RecordsAreRight
  BY DEF TlsInv, Joint
<1>3. IsSeq(ToServer) /\ IsSeq(net.server) /\ IsSeq(out.client)
  BY <1>2, QueuesAre DEF QueuesAreSeqs, Endpoints
<1>4. ToServer # <<>> /\ Head(ToServer) = Head(net.server)
  BY <1>1, <1>3, ConcatIs DEF ToServer
<1>5. Head(ToServer) = ToServer[1] /\ 1 \in 1 .. Len(ToServer)
  BY <1>3, <1>4, TailIs
<1> QED
  BY <1>1, <1>2, <1>4, <1>5 DEF RecordsAreRight, Message, Carries

-----------------------------------------------------------------------------
(* The operations of the client, phase by phase.                           *)

\* A client that has no keys yet may change what it offers: its part of the
\* invariant says nothing of it.
LEMMA ClientBeforeKeys ==
    ASSUME ClientSide, conf' = conf, DOMAIN c' = ClientFields, IsSeq(c'.tr),
           c.state \notin ClientKeyed \cup ClientSecond,
           c'.state \notin ClientKeyed \cup ClientSecond,
           c'.early # "SERVER_FINISHED_RECEIVED",
           c'.tickets = c.tickets, c'.resumption = c.resumption
    PROVE  ClientSide' /\ ClientKeeps
<1>1. c'.state \notin ClientDone /\ c.state \notin ClientDone /\ c'.state # "HANDSHAKE_OVER"
  BY DEF ClientSecond, ClientDone
<1>2. c.state # "HANDSHAKE_OVER"
  BY <1>1 DEF ClientDone
<1>3. c'.tickets = <<>> /\ TicketsAreOf(c)'
  BY <1>2 DEF ClientSide, TicketsAreOf, IsSeq
<1>4. IsSeq(c.tr)'
  BY DEF IsSeq
<1>5. ClientInFirstFlight' /\ ClientIsSure'
  BY DEF ClientInFirstFlight, ClientIsSure, ClientKeyed
<1>6. ClientKeeps
  BY <1>1 DEF ClientKeeps
<1> QED
  BY <1>1, <1>3, <1>4, <1>5, <1>6 DEF ClientSide

\* The client writes its first or second ClientHello.
LEMMA WriteClientHelloStep ==
    ASSUME TlsInv, WriteClientHello
    PROVE  TlsInv'
<1> DEFINE m == ClientHelloMessage
           r == HandshakeRecord(c, m)
<1>1. /\ ClientSide /\ failed.client = "no" /\ c.state = "CLIENT_HELLO" /\ out.client = <<>>
      /\ DOMAIN c = ClientFields /\ IsSeq(c.tr)
  BY DEF TlsInv, ClientSide, WriteClientHello, CanStep, Context
<1>2. Emit("client", r) /\ UNCHANGED <<conf, s, net, failed>>
  BY DEF WriteClientHello, ClientWrites
<1>3. m.t = "client_hello" /\ m.psks = ClientPsks
  BY DEF ClientHelloMessage
<1>4. c.early # "SERVER_FINISHED_RECEIVED"
  BY <1>1 DEF ClientSide, ClientInFirstFlight, ClientSecond, ClientDone
<1> HIDE DEF m
<1>5. /\ DOMAIN c' = ClientFields
      /\ c'.tr = Append(c.tr, m)
      /\ c'.state \in {"SERVER_HELLO", "CLIENT_CCS_AFTER_CLIENT_HELLO"}
      /\ c'.early # "SERVER_FINISHED_RECEIVED"
      /\ c'.tickets = c.tickets /\ c'.resumption = c.resumption
  BY <1>1, <1>4 DEF WriteClientHello, ClientWrites, ClientFields, m
<1>6. IsSeq(c'.tr)
  BY <1>1, <1>5, AppendIs
<1>7. ClientSide' /\ ClientKeeps
  BY <1>1, <1>2, <1>5, <1>6, ClientBeforeKeys DEF ClientKeyed, ClientSecond, ClientDone
<1>8. ~Carries(r, "finished") /\ ClientRecordIsRight(r)
  BY <1>3 DEF HandshakeRecord, Carries, ClientRecordIsRight
<1> HIDE DEF r
<1> QED
  BY <1>1, <1>2, <1>7, <1>8, ClientPuts

\* A dummy ChangeCipherSpec record, if it was not sent yet.
LEMMA ClientCcsStep ==
    ASSUME TlsInv, NEW st, CanStep("client", st), NEW next, WriteCcs("client", next),
           ClientSide', ClientKeeps
    PROVE  TlsInv'
<1>1. out.client = <<>> /\ UNCHANGED <<conf, s, net, failed>>
  BY DEF CanStep, WriteCcs
<1>2. CASE out' = out
  BY <1>1, <1>2, ClientAlone
<1>3. CASE Emit("client", CcsRecord(c))
  <2> DEFINE r == CcsRecord(c)
  <2>1. ~Carries(r, "finished") /\ ClientRecordIsRight(r)
    BY DEF CcsRecord, Carries, ClientRecordIsRight
  <2>2. Emit("client", r)
    BY <1>3
  <2> HIDE DEF r
  <2> QED
    BY <1>1, <2>1, <2>2, ClientPuts
<1> QED
  BY <1>2, <1>3 DEF WriteCcs, Context

\* The client writes its compatibility ChangeCipherSpec after a ClientHello.
LEMMA ClientEarlyCcsStep ==
    ASSUME TlsInv, ClientCcsAfterClientHello \/ ClientCcsBefore2ndClientHello
    PROVE  TlsInv'
<1>1. /\ ClientSide /\ DOMAIN c = ClientFields /\ IsSeq(c.tr)
      /\ c.state \in {"CLIENT_CCS_AFTER_CLIENT_HELLO", "CLIENT_CCS_BEFORE_2ND_CLIENT_HELLO"}
  BY DEF TlsInv, ClientSide, ClientCcsAfterClientHello, ClientCcsBefore2ndClientHello,
         CanStep, Context
<1>2. c.early # "SERVER_FINISHED_RECEIVED"
  BY <1>1 DEF ClientSide, ClientInFirstFlight, ClientSecond, ClientDone
<1>3. /\ DOMAIN c' = ClientFields
      /\ c'.tr = c.tr
      /\ c'.state \in {"SERVER_HELLO", "CLIENT_HELLO"}
      /\ c'.early # "SERVER_FINISHED_RECEIVED"
      /\ c'.tickets = c.tickets /\ c'.resumption = c.resumption
      /\ conf' = conf
  <2>1. /\ conf' = conf
        /\ \/ c' = [[c EXCEPT !.state = "SERVER_HELLO", !.tout = c.early_key,
                              !.early = "CAN_WRITE"] EXCEPT !.ccs_sent = TRUE]
           \/ c' = [[c EXCEPT !.state = "CLIENT_HELLO"] EXCEPT !.ccs_sent = TRUE]
    BY DEF ClientCcsAfterClientHello, ClientCcsBefore2ndClientHello, WriteCcs
  <2> QED
    BY <1>1, <1>2, <2>1, ZenonT(40) DEF ClientFields
<1>4. ClientSide' /\ ClientKeeps
  BY <1>1, <1>3, ClientBeforeKeys DEF ClientKeyed, ClientSecond, ClientDone
<1> QED
  BY <1>4, ClientCcsStep DEF ClientCcsAfterClientHello, ClientCcsBefore2ndClientHello

\* The client reads a HelloRetryRequest.
LEMMA ProcessHelloRetryRequestStep ==
    ASSUME TlsInv, ProcessHelloRetryRequest
    PROVE  TlsInv'
<1> DEFINE m == Message("client")
<1>1. /\ ClientSide /\ DOMAIN c = ClientFields /\ c.state = "SERVER_HELLO"
      /\ net.client # <<>> /\ Carries(Head(net.client), "server_hello")
  BY ClientReceives DEF TlsInv, ClientSide, ProcessHelloRetryRequest
<1>2. c.early # "SERVER_FINISHED_RECEIVED"
  BY <1>1 DEF ClientSide, ClientInFirstFlight, ClientSecond, ClientDone
<1>3. CASE Refuses("client", "retry")
  BY <1>1, <1>3, ClientRefuses
<1>4. CASE ~Refuses("client", "retry")
  <2> HIDE DEF m
  <2>1. /\ Consume("client") /\ UNCHANGED <<conf, s, out, failed>>
        /\ DOMAIN c' = ClientFields
        /\ c'.tr = Append(TranscriptForHrr(c.tr), m)
        /\ c'.state \in {"CLIENT_CCS_BEFORE_2ND_CLIENT_HELLO", "CLIENT_HELLO"}
        /\ c'.early # "SERVER_FINISHED_RECEIVED"
        /\ c'.tickets = c.tickets /\ c'.resumption = c.resumption
    BY <1>1, <1>2, <1>4, ZenonT(40) DEF ProcessHelloRetryRequest, ClientReads, ClientFields, m
  <2>2. IsSeq(c'.tr)
    BY <2>1, SingleIs, AppendIs DEF TranscriptForHrr
  <2>3. ClientSide' /\ ClientKeeps
    BY <1>1, <2>1, <2>2, ClientBeforeKeys DEF ClientKeyed, ClientSecond, ClientDone
  <2>4. c.state \notin ClientSecond /\ ~Carries(Head(net.client), "finished")
    BY <1>1 DEF ClientSecond, ClientDone, Carries
  <2> QED
    BY <1>1, <2>1, <2>3, <2>4, ClientTakes
<1> QED
  BY <1>3, <1>4

\* The client begins.
LEMMA ClientHelloRequestStep ==
    ASSUME TlsInv, HelloRequest("client")
    PROVE  TlsInv'
<1>1. /\ ClientSide /\ DOMAIN c = ClientFields /\ IsSeq(c.tr) /\ c.state = "HELLO_REQUEST"
  BY DEF TlsInv, ClientSide, HelloRequest, CanStep, Context
<1>2. c.early # "SERVER_FINISHED_RECEIVED"
  BY <1>1 DEF ClientSide, ClientInFirstFlight, ClientSecond, ClientDone
<1>3. /\ DOMAIN c' = ClientFields /\ c'.tr = c.tr /\ c'.state = "CLIENT_HELLO"
      /\ c'.early = c.early /\ c'.tickets = c.tickets /\ c'.resumption = c.resumption
      /\ UNCHANGED <<conf, s, out, net, failed>>
  BY <1>1 DEF HelloRequest, ClientFields
<1>4. ClientSide' /\ ClientKeeps
  BY <1>1, <1>2, <1>3, ClientBeforeKeys DEF ClientKeyed, ClientSecond, ClientDone
<1> QED
  BY <1>3, <1>4, ClientAlone

\* The transcript only grows, so what a message said stays said.
LEMMA StillSays ==
    ASSUME NEW tr, IsSeq(tr), NEW n, NEW accepted, SaysEarly(tr, n, accepted), NEW m
    PROVE  SaysEarly(Append(tr, m), n, accepted)
<1>1. n + 1 \in 1 .. Len(tr)
  BY AppendIs DEF SaysEarly
<1>2. Append(tr, m)[n + 1] = tr[n + 1] /\ Len(Append(tr, m)) = Len(tr) + 1 /\ Len(tr) \in Nat
  BY <1>1, AppendIs
<1> QED
  BY <1>2 DEF SaysEarly

\* The client reads the ServerHello and has the mode, PSK and group the
\* server selected, or fails.
LEMMA ProcessServerHelloStep ==
    ASSUME TlsInv, ProcessServerHello
    PROVE  TlsInv'
<1> DEFINE m == Message("client")
           tr == Append(c.tr, m)
           psk == ClientEarlySecret(m)
           key == Key("handshake", psk, m.share, tr)
<1>1. /\ ClientSide /\ DOMAIN c = ClientFields /\ IsSeq(c.tr) /\ c.state = "SERVER_HELLO"
      /\ net.client # <<>> /\ Carries(Head(net.client), "server_hello")
      /\ c.tickets = <<>>
  BY ClientReceives DEF TlsInv, ClientSide, ProcessServerHello
<1>2. c.early # "SERVER_FINISHED_RECEIVED"
  BY <1>1 DEF ClientSide, ClientInFirstFlight, ClientSecond, ClientDone
<1>3. CASE Refuses("client", "server hello")
  BY <1>1, <1>3, ClientRefuses
<1>4. CASE ~Refuses("client", "server hello")
  <2>1. /\ Consume("client") /\ UNCHANGED <<conf, s, out, failed>>
        /\ c' = [c EXCEPT !.mode = ModeOf(m), !.selected = m.psk, !.psk = psk,
                          !.share = m.share, !.tr = tr, !.handshake_key = key,
                          !.tin = key, !.state = "ENCRYPTED_EXTENSIONS"]
    BY <1>4 DEF ProcessServerHello, ClientReads
  <2>2. IsSeq(tr) /\ Len(tr) \in Nat /\ tr[Len(tr)] = m
    BY <1>1, AppendIs
  <2>3. key = Key("handshake", psk, m.share, tr) /\ key.tr = tr
    BY DEF Key
  <2> HIDE DEF m, tr, psk, key
  <2>4. /\ DOMAIN c' = ClientFields
        /\ c'.state = "ENCRYPTED_EXTENSIONS"
        /\ c'.mode = ModeOf(m) /\ c'.psk = psk /\ c'.share = m.share /\ c'.tr = tr
        /\ c'.handshake_key = key /\ c'.tin = key
        /\ c'.early = c.early /\ c'.tickets = <<>> /\ c'.resumption = c.resumption
    BY <1>1, <2>1 DEF ClientFields
  <2>5. KeysAreOfHello(c)' /\ HelloLen(c)' = Len(c'.tr)
    BY <2>2, <2>3, <2>4 DEF KeysAreOfHello, HelloLen, ModeOf
  <2>6. ClientInFirstFlight' /\ ClientIsSure'
    BY <1>2, <2>4, <2>5 DEF ClientInFirstFlight, ClientIsSure, ClientKeyed, ClientSecond,
                            ClientDone
  <2>7. TicketsAreOf(c)' /\ IsSeq(c.tr)'
    BY <2>2, <2>4, SingleIs DEF TicketsAreOf, IsSeq
  <2>8. ClientSide'
    BY <2>4, <2>5, <2>6, <2>7 DEF ClientSide, ClientDone
  <2>9. ClientKeeps
    BY <1>1, <2>4 DEF ClientKeeps, ClientSecond, ClientDone
  <2>10. c.state \notin ClientSecond /\ ~Carries(Head(net.client), "finished")
    BY <1>1 DEF ClientSecond, ClientDone, Carries
  <2> QED
    BY <1>1, <2>1, <2>8, <2>9, <2>10, ClientTakes
<1> QED
  BY <1>3, <1>4

\* The operations between the ServerHello and the server's Finished.
LEMMA ClientWithKeys ==
    ASSUME ClientSide, conf' = conf, DOMAIN c' = ClientFields, IsSeq(c'.tr),
           c.state \in ClientKeyed, c'.state \in ClientKeyed \ {"ENCRYPTED_EXTENSIONS"},
           c'.early # "SERVER_FINISHED_RECEIVED",
           SaysEarly(c'.tr, HelloLen(c), c'.early = "ACCEPTED"),
           c'.tin = c.tin, c'.handshake_key = c.handshake_key,
           c'.psk = c.psk, c'.share = c.share, c'.mode = c.mode,
           c'.tickets = c.tickets, c'.resumption = c.resumption,
           ClientIsSure'
    PROVE  ClientSide' /\ ClientKeeps
<1>1. c'.state \notin ClientSecond /\ c.state \notin ClientSecond
  BY DEF ClientKeyed, ClientSecond, ClientDone
<1>2. /\ c'.state \notin ClientDone /\ c.state \notin ClientDone
      /\ c'.state # "HANDSHAKE_OVER" /\ c.state # "HANDSHAKE_OVER"
  BY <1>1 DEF ClientSecond, ClientDone
<1>3. c'.tickets = <<>> /\ TicketsAreOf(c)'
  BY <1>2 DEF ClientSide, TicketsAreOf, IsSeq
<1>4. IsSeq(c.tr)'
  BY DEF IsSeq
<1>5. KeysAreOfHello(c)'
  BY DEF ClientSide, KeysAreOfHello
<1>6. HelloLen(c)' = HelloLen(c) /\ c.tin = c.handshake_key
  BY DEF HelloLen, ClientSide, ClientInFirstFlight
<1>7. ClientInFirstFlight'
  BY <1>1, <1>6 DEF ClientInFirstFlight, SaysEarly
<1>8. ClientKeeps
  BY <1>1, <1>2 DEF ClientKeeps
<1> QED
  BY <1>1, <1>2, <1>3, <1>4, <1>5, <1>7, <1>8 DEF ClientSide

\* The client reads the EncryptedExtensions and learns whether its early data
\* were accepted.
LEMMA ProcessEncryptedExtensionsStep ==
    ASSUME TlsInv, ProcessEncryptedExtensions
    PROVE  TlsInv'
<1> DEFINE m == Message("client")
<1>1. /\ ClientSide /\ DOMAIN c = ClientFields /\ IsSeq(c.tr)
      /\ net.client # <<>> /\ Carries(Head(net.client), "encrypted_extensions")
  BY ClientReceives DEF TlsInv, ClientSide, ProcessEncryptedExtensions
<1>2. c.state = "ENCRYPTED_EXTENSIONS"
  <2>1. /\ c.state \in DOMAIN ClientWaits /\ "encrypted_extensions" \in ClientWaits[c.state]
    BY ClientReceives DEF ProcessEncryptedExtensions
  <2> QED
    BY <2>1 DEF ClientWaits
<1>3. c.early # "SERVER_FINISHED_RECEIVED" /\ HelloLen(c) = Len(c.tr)
  BY <1>1, <1>2 DEF ClientSide, ClientInFirstFlight, ClientSecond, ClientDone
<1>4. CASE Refuses("client", "early data")
  BY <1>1, <1>4, ClientRefuses
<1>5. CASE ~Refuses("client", "early data")
  <2> HIDE DEF m
  <2>1. /\ Consume("client") /\ UNCHANGED <<conf, s, out, failed>>
        /\ c' = [c EXCEPT !.early = IF m.early THEN "ACCEPTED"
                                    ELSE IF c.early = "NO_IND_SENT" THEN c.early
                                    ELSE "REJECTED",
                          !.tr = Append(c.tr, m),
                          !.state = IF c.mode \in PskModes THEN "SERVER_FINISHED"
                                    ELSE "CERTIFICATE_REQUEST"]
    BY <1>1, <1>5 DEF ProcessEncryptedExtensions, ClientReads, m, ClientFields
  <2>2. /\ DOMAIN c' = ClientFields
        /\ c'.state \in {"SERVER_FINISHED", "CERTIFICATE_REQUEST"}
        /\ c'.state = "SERVER_FINISHED" => c.mode \in PskModes
        /\ c'.tr = Append(c.tr, m)
        /\ c'.early # "SERVER_FINISHED_RECEIVED"
        /\ m.early <=> c'.early = "ACCEPTED"
        /\ c'.tin = c.tin /\ c'.handshake_key = c.handshake_key
        /\ c'.psk = c.psk /\ c'.share = c.share /\ c'.mode = c.mode
        /\ c'.tickets = c.tickets /\ c'.resumption = c.resumption
    BY <1>1, <1>3, <2>1 DEF ClientFields
  <2>3. IsSeq(c'.tr) /\ SaysEarly(c'.tr, HelloLen(c), c'.early = "ACCEPTED")
    <3>1. /\ IsSeq(Append(c.tr, m)) /\ Len(c.tr) \in Nat
          /\ Len(Append(c.tr, m)) = Len(c.tr) + 1 /\ Append(c.tr, m)[Len(c.tr) + 1] = m
      BY <1>1, AppendIs
    <3> QED
      BY <1>3, <2>2, <3>1 DEF SaysEarly
  <2>4. ClientIsSure'
    BY <2>2 DEF ClientIsSure, ClientSecond, ClientDone
  <2>5. ClientSide' /\ ClientKeeps
    <3>1. c.state \in ClientKeyed /\ c'.state \in ClientKeyed \ {"ENCRYPTED_EXTENSIONS"}
      BY <1>2, <2>2 DEF ClientKeyed
    <3> QED
      BY <1>1, <2>1, <2>2, <2>3, <2>4, <3>1, ClientWithKeys
  <2>6. c.state \notin ClientSecond /\ ~Carries(Head(net.client), "finished")
    BY <1>1, <1>2 DEF ClientSecond, ClientDone, Carries
  <2> QED
    BY <1>1, <2>1, <2>5, <2>6, ClientTakes
<1> QED
  BY <1>4, <1>5

\* The client reads the CertificateRequest, or finds that there is none.
LEMMA ProcessCertificateRequestStep ==
    ASSUME TlsInv, ProcessCertificateRequest
    PROVE  TlsInv'
<1> DEFINE m == Message("client")
<1>1. /\ ClientSide /\ DOMAIN c = ClientFields /\ IsSeq(c.tr) /\ c.state = "CERTIFICATE_REQUEST"
      /\ c.state \in ClientKeyed
  BY DEF TlsInv, ClientSide, ProcessCertificateRequest, ClientKeyed
<1>2. c.early # "SERVER_FINISHED_RECEIVED" /\ SaysEarly(c.tr, HelloLen(c), c.early = "ACCEPTED")
  BY <1>1 DEF ClientSide, ClientInFirstFlight, ClientSecond, ClientDone, ClientKeyed
<1>3. ASSUME c'.state = "SERVER_CERTIFICATE" PROVE ClientIsSure'
  BY <1>3 DEF ClientIsSure, ClientSecond, ClientDone
<1>4. CASE /\ Receives("client", "certificate_request")
           /\ ClientReads([c EXCEPT !.client_auth = TRUE, !.tr = Append(@, Message("client")),
                                    !.state = "SERVER_CERTIFICATE"])
  <2>1. /\ net.client # <<>> /\ Carries(Head(net.client), "certificate_request")
    BY <1>4, ClientReceives
  <2> HIDE DEF m
  <2>2. /\ Consume("client") /\ UNCHANGED <<conf, s, out, failed>>
        /\ c' = [c EXCEPT !.client_auth = TRUE, !.tr = Append(c.tr, m),
                          !.state = "SERVER_CERTIFICATE"]
    BY <1>1, <1>4 DEF ClientReads, m, ClientFields
  <2>3. /\ DOMAIN c' = ClientFields
        /\ c'.state = "SERVER_CERTIFICATE"
        /\ c'.tr = Append(c.tr, m)
        /\ c'.early = c.early
        /\ c'.tin = c.tin /\ c'.handshake_key = c.handshake_key
        /\ c'.psk = c.psk /\ c'.share = c.share /\ c'.mode = c.mode
        /\ c'.tickets = c.tickets /\ c'.resumption = c.resumption
    BY <1>1, <2>2 DEF ClientFields
  <2>4. IsSeq(c'.tr) /\ SaysEarly(c'.tr, HelloLen(c), c'.early = "ACCEPTED")
    BY <1>1, <1>2, <2>3, AppendIs, StillSays
  <2>5. ClientSide' /\ ClientKeeps
    <3>1. c'.state \in ClientKeyed \ {"ENCRYPTED_EXTENSIONS"}
      BY <2>3 DEF ClientKeyed
    <3> QED
      BY <1>1, <1>2, <1>3, <2>2, <2>3, <2>4, <3>1, ClientWithKeys
  <2>6. c.state \notin ClientSecond /\ ~Carries(Head(net.client), "finished")
    BY <1>1, <2>1 DEF ClientSecond, ClientDone, Carries
  <2> QED
    BY <1>1, <2>1, <2>2, <2>5, <2>6, ClientTakes
<1>5. CASE /\ c' = [c EXCEPT !.client_auth = FALSE, !.state = "SERVER_CERTIFICATE"]
           /\ UNCHANGED <<conf, s, out, net, app, failed>>
  <2>1. /\ DOMAIN c' = ClientFields
        /\ c'.state = "SERVER_CERTIFICATE"
        /\ c'.tr = c.tr
        /\ c'.early = c.early
        /\ c'.tin = c.tin /\ c'.handshake_key = c.handshake_key
        /\ c'.psk = c.psk /\ c'.share = c.share /\ c'.mode = c.mode
        /\ c'.tickets = c.tickets /\ c'.resumption = c.resumption
    BY <1>1, <1>5 DEF ClientFields
  <2>2. ClientSide' /\ ClientKeeps
    <3>1. c'.state \in ClientKeyed \ {"ENCRYPTED_EXTENSIONS"}
      BY <2>1 DEF ClientKeyed
    <3>2. IsSeq(c'.tr) /\ SaysEarly(c'.tr, HelloLen(c), c'.early = "ACCEPTED")
      BY <1>1, <1>2, <2>1
    <3> QED
      BY <1>1, <1>2, <1>3, <1>5, <2>1, <3>1, <3>2, ClientWithKeys
  <2> QED
    BY <1>5, <2>2, ClientAlone
<1> QED
  BY <1>4, <1>5 DEF ProcessCertificateRequest

\* The client reads the server's Certificate.
LEMMA ProcessServerCertificateStep ==
    ASSUME TlsInv, ProcessServerCertificate
    PROVE  TlsInv'
<1> DEFINE m == Message("client")
<1>1. /\ ClientSide /\ DOMAIN c = ClientFields /\ IsSeq(c.tr) /\ c.state = "SERVER_CERTIFICATE"
      /\ c.state \in ClientKeyed
      /\ net.client # <<>> /\ Carries(Head(net.client), "certificate")
      /\ m.cert = conf.s_cert
  BY ClientReceives DEF TlsInv, ClientSide, ProcessServerCertificate, ClientKeyed,
                        ServerRecordIsRight
<1>2. c.early # "SERVER_FINISHED_RECEIVED" /\ SaysEarly(c.tr, HelloLen(c), c.early = "ACCEPTED")
  BY <1>1 DEF ClientSide, ClientInFirstFlight, ClientSecond, ClientDone, ClientKeyed
<1>3. CASE Refuses("client", "peer certificate")
  BY <1>1, <1>3, ClientRefuses
<1>4. CASE ~Refuses("client", "peer certificate")
  <2>1. Accepts(conf.c_authmode, m.cert)
    BY <1>4 DEF ProcessServerCertificate
  <2> HIDE DEF m
  <2>2. /\ Consume("client") /\ UNCHANGED <<conf, s, out, failed>>
        /\ c' = [c EXCEPT !.peer_cert = m.cert, !.tr = Append(c.tr, m),
                          !.state = "CERTIFICATE_VERIFY"]
    BY <1>1, <1>4 DEF ProcessServerCertificate, ClientReads, m, ClientFields
  <2>3. /\ DOMAIN c' = ClientFields
        /\ c'.state = "CERTIFICATE_VERIFY"
        /\ c'.tr = Append(c.tr, m)
        /\ c'.early = c.early /\ c'.peer_cert = m.cert
        /\ c'.tin = c.tin /\ c'.handshake_key = c.handshake_key
        /\ c'.psk = c.psk /\ c'.share = c.share /\ c'.mode = c.mode
        /\ c'.tickets = c.tickets /\ c'.resumption = c.resumption
    BY <1>1, <2>2 DEF ClientFields
  <2>4. IsSeq(c'.tr) /\ SaysEarly(c'.tr, HelloLen(c), c'.early = "ACCEPTED")
    BY <1>1, <1>2, <2>3, AppendIs, StillSays
  <2>5. ClientIsSure'
    BY <1>1, <2>1, <2>2, <2>3 DEF ClientIsSure, Accepts, Satisfies
  <2>6. ClientSide' /\ ClientKeeps
    <3>1. c'.state \in ClientKeyed \ {"ENCRYPTED_EXTENSIONS"}
      BY <2>3 DEF ClientKeyed
    <3> QED
      BY <1>1, <1>2, <2>2, <2>3, <2>4, <2>5, <3>1, ClientWithKeys
  <2>7. c.state \notin ClientSecond /\ ~Carries(Head(net.client), "finished")
    BY <1>1 DEF ClientSecond, ClientDone, Carries
  <2> QED
    BY <1>1, <2>2, <2>6, <2>7, ClientTakes
<1> QED
  BY <1>3, <1>4

\* The client reads the server's CertificateVerify.
LEMMA ProcessServerCertificateVerifyStep ==
    ASSUME TlsInv, ProcessServerCertificateVerify
    PROVE  TlsInv'
<1> DEFINE m == Message("client")
<1>1. /\ ClientSide /\ DOMAIN c = ClientFields /\ IsSeq(c.tr)
      /\ net.client # <<>> /\ Carries(Head(net.client), "certificate_verify")
  BY ClientReceives DEF TlsInv, ClientSide, ProcessServerCertificateVerify
<1>2. c.state = "CERTIFICATE_VERIFY" /\ c.state \in ClientKeyed
  <2>1. /\ c.state \in DOMAIN ClientWaits /\ "certificate_verify" \in ClientWaits[c.state]
    BY ClientReceives DEF ProcessServerCertificateVerify
  <2> QED
    BY <2>1 DEF ClientWaits, ClientKeyed
<1>3. c.early # "SERVER_FINISHED_RECEIVED" /\ SaysEarly(c.tr, HelloLen(c), c.early = "ACCEPTED")
  BY <1>1, <1>2 DEF ClientSide, ClientInFirstFlight, ClientSecond, ClientDone, ClientKeyed
<1>4. CASE Refuses("client", "signature")
  BY <1>1, <1>4, ClientRefuses
<1>5. CASE ~Refuses("client", "signature")
  <2> HIDE DEF m
  <2>1. /\ Consume("client") /\ UNCHANGED <<conf, s, out, failed>>
        /\ c' = [c EXCEPT !.tr = Append(c.tr, m), !.state = "SERVER_FINISHED"]
    BY <1>1, <1>5 DEF ProcessServerCertificateVerify, ClientReads, m, ClientFields
  <2>2. /\ DOMAIN c' = ClientFields
        /\ c'.state = "SERVER_FINISHED"
        /\ c'.tr = Append(c.tr, m)
        /\ c'.early = c.early /\ c'.peer_cert = c.peer_cert
        /\ c'.tin = c.tin /\ c'.handshake_key = c.handshake_key
        /\ c'.psk = c.psk /\ c'.share = c.share /\ c'.mode = c.mode
        /\ c'.tickets = c.tickets /\ c'.resumption = c.resumption
    BY <1>1, <2>1 DEF ClientFields
  <2>3. IsSeq(c'.tr) /\ SaysEarly(c'.tr, HelloLen(c), c'.early = "ACCEPTED")
    BY <1>1, <1>3, <2>2, AppendIs, StillSays
  <2>4. ClientIsSure'
    BY <1>1, <1>2, <2>1, <2>2 DEF ClientSide, ClientIsSure, Satisfies
  <2>5. ClientSide' /\ ClientKeeps
    <3>1. c'.state \in ClientKeyed \ {"ENCRYPTED_EXTENSIONS"}
      BY <2>2 DEF ClientKeyed
    <3> QED
      BY <1>1, <1>2, <1>3, <2>1, <2>2, <2>3, <2>4, <3>1, ClientWithKeys
  <2>6. c.state \notin ClientSecond /\ ~Carries(Head(net.client), "finished")
    BY <1>1, <1>2 DEF ClientSecond, ClientDone, Carries
  <2> QED
    BY <1>1, <2>1, <2>5, <2>6, ClientTakes
<1> QED
  BY <1>4, <1>5

\* An item of early data is the last record on its way, whether the transport
\* takes it at once or it waits in the output buffer.
LEMMA EarlyDataGoesOut ==
    ASSUME QueuesAreSeqs, NEW taken \in BOOLEAN, WriteEarlyData(taken)
    PROVE  /\ ToClient' = ToClient
           /\ ToServer' = Append(ToServer, DataRecord(c, app.next))
           /\ QueuesAreSeqs'
<1> DEFINE r == DataRecord(c, app.next)
<1>1. out.client = <<>> /\ failed' = failed
  BY DEF WriteEarlyData
<1>2. CASE taken
  <2>1. net' = [net EXCEPT !.server = Append(net.server, r)] /\ out' = out
    BY <1>2 DEF WriteEarlyData, QueuesAreSeqs, Endpoints
  <2>2. IsSeq(net.server) /\ IsSeq(Append(net.server, r)) /\ IsSeq(<<>>)
    BY SingleIs, AppendIs DEF QueuesAreSeqs, Endpoints
  <2>3. net.server \o <<>> = net.server /\ Append(net.server, r) \o <<>> = Append(net.server, r)
    BY <2>2, ConcatIs
  <2> HIDE DEF r
  <2>4. /\ DOMAIN net' = Endpoints /\ net'.client = net.client
        /\ net'.server = Append(net.server, r)
    BY <2>1 DEF QueuesAreSeqs, Endpoints
  <2>5. ToClient' = ToClient /\ ToServer' = Append(ToServer, r)
    BY <1>1, <2>1, <2>3, <2>4 DEF ToClient, ToServer
  <2>6. QueuesAreSeqs'
    BY <1>1, <2>1, <2>2, <2>4 DEF QueuesAreSeqs, Endpoints
  <2> QED
    BY <2>5, <2>6 DEF r
<1>3. CASE ~taken
  <2>1. Emit("client", r) /\ net' = net
    BY <1>3 DEF WriteEarlyData
  <2>2. DOMAIN failed' = Endpoints
    BY <1>1 DEF QueuesAreSeqs
  <2> HIDE DEF r
  <2>3. ToClient' = ToClient /\ ToServer' = Append(ToServer, r) /\ QueuesAreSeqs'
    BY <1>1, <2>1, <2>2, ClientEmits
  <2> QED
    BY <2>3 DEF r
<1> QED
  BY <1>2, <1>3

\* Early data goes out at any time; a record the transport takes at once never
\* is in the output buffer.
LEMMA WriteEarlyDataStep ==
    ASSUME TlsInv, NEW taken \in BOOLEAN, WriteEarlyData(taken)
    PROVE  TlsInv'
<1> DEFINE r == DataRecord(c, app.next)
<1>1. /\ QueuesAreSeqs /\ ClientSide /\ DOMAIN c = ClientFields /\ out.client = <<>>
      /\ ServerSide
  BY DEF TlsInv, ClientSide, WriteEarlyData
<1>2. ~Carries(r, "finished") /\ ClientRecordIsRight(r)
  BY DEF DataRecord, Carries, ClientRecordIsRight
<1>3. UNCHANGED <<conf, s, failed>>
  BY DEF WriteEarlyData
<1>4. c' = c \/ c' = [c EXCEPT !.total = c.total + 1]
  BY <1>1 DEF WriteEarlyData, ClientFields
<1>5. /\ DOMAIN c' = ClientFields
      /\ c'.state = c.state /\ c'.tr = c.tr /\ c'.early = c.early /\ c'.peer_cert = c.peer_cert
      /\ c'.tin = c.tin /\ c'.tout = c.tout /\ c'.handshake_key = c.handshake_key
      /\ c'.application_key = c.application_key
      /\ c'.psk = c.psk /\ c'.share = c.share /\ c'.mode = c.mode
      /\ c'.tickets = c.tickets /\ c'.resumption = c.resumption
  BY <1>1, <1>4 DEF ClientFields
<1>6. ClientKeeps
  BY <1>5 DEF ClientKeeps
<1>7. ClientSide'
  BY <1>1, <1>3, <1>5 DEF ClientSide, ClientInFirstFlight, ClientIsSure, KeysAreOfHello,
                          SaysEarly, HelloLen, TicketsAreOf, IsSeq
<1>8. ToClient' = ToClient /\ ToServer' = Append(ToServer, r) /\ QueuesAreSeqs'
  BY <1>1, EarlyDataGoesOut
<1> HIDE DEF r
<1>9. ToClientKeeps /\ ToServerKeeps
  BY <1>2, <1>8 DEF ToClientKeeps, ToServerKeeps
<1> QED
  BY <1>1, <1>3, <1>6, <1>7, <1>8, <1>9, ServerSame, EndpointsStep

\* The operations after the server's Finished, on either side of the client's.
LEMMA ClientAfterFinished ==
    ASSUME ClientSide, conf' = conf, DOMAIN c' = ClientFields, IsSeq(c'.tr),
           c.state \in ClientSecond, c'.state \in ClientSecond,
           c.state # "HANDSHAKE_OVER",
           c'.state \in ClientDone <=> c.state \in ClientDone,
           c.state \in ClientDone => c'.tr = c.tr,
           c'.early = c.early, c'.peer_cert = c.peer_cert,
           c'.handshake_key = c.handshake_key, c'.application_key = c.application_key,
           c'.psk = c.psk, c'.share = c.share, c'.mode = c.mode,
           c'.tickets = c.tickets, c'.resumption = c.resumption,
           c'.state = "HANDSHAKE_OVER" =>
               c'.tin = c.application_key /\ c'.tout = c.application_key
    PROVE  ClientSide' /\ ClientKeeps
<1>1. c'.state \notin ClientKeyed /\ c.state \notin ClientKeyed
  BY DEF ClientKeyed, ClientSecond, ClientDone
<1>2. c'.tickets = <<>> /\ TicketsAreOf(c)' /\ IsSeq(c.tr)'
  BY DEF ClientSide, TicketsAreOf, IsSeq
<1>3. KeysAreOfHello(c)'
  BY DEF ClientSide, KeysAreOfHello
<1>4. ClientInFirstFlight'
  BY <1>1 DEF ClientInFirstFlight, ClientKeyed
<1>5. ClientIsSure'
  BY DEF ClientSide, ClientIsSure, Satisfies
<1>6. ClientKeeps
  BY DEF ClientKeeps
<1>7. c'.state \in ClientDone => c'.resumption = Key("resumption", c'.psk, c'.share, c'.tr)
  BY DEF ClientSide
<1> QED
  BY <1>1, <1>2, <1>3, <1>4, <1>5, <1>6, <1>7 DEF ClientSide

\* The client ends its early data.
LEMMA WriteEndOfEarlyDataStep ==
    ASSUME TlsInv, WriteEndOfEarlyData
    PROVE  TlsInv'
<1> DEFINE m == [t |-> "end_of_early_data"]
           r == HandshakeRecord(c, m)
<1>1. /\ ClientSide /\ DOMAIN c = ClientFields /\ IsSeq(c.tr) /\ c.state = "END_OF_EARLY_DATA"
      /\ out.client = <<>>
  BY DEF TlsInv, ClientSide, WriteEndOfEarlyData, CanStep, Context
<1>2. Emit("client", r) /\ UNCHANGED <<conf, s, net, failed>>
  BY DEF WriteEndOfEarlyData, ClientWrites
<1>3. ~Carries(r, "finished") /\ ClientRecordIsRight(r)
  BY DEF HandshakeRecord, Carries, ClientRecordIsRight
<1> HIDE DEF m
<1>4. /\ DOMAIN c' = ClientFields
      /\ c'.state = "CLIENT_CERTIFICATE" /\ c'.tr = Append(c.tr, m)
      /\ c'.early = c.early /\ c'.peer_cert = c.peer_cert
      /\ c'.handshake_key = c.handshake_key /\ c'.application_key = c.application_key
      /\ c'.psk = c.psk /\ c'.share = c.share /\ c'.mode = c.mode
      /\ c'.tickets = c.tickets /\ c'.resumption = c.resumption
  BY <1>1 DEF WriteEndOfEarlyData, ClientWrites, ClientFields, m
<1>5. IsSeq(c'.tr)
  BY <1>1, <1>4, AppendIs
<1>6. ClientSide' /\ ClientKeeps
  BY <1>1, <1>2, <1>4, <1>5, ClientAfterFinished DEF ClientSecond, ClientDone
<1> HIDE DEF r
<1> QED
  BY <1>1, <1>2, <1>3, <1>6, ClientPuts

\* The client writes its ChangeCipherSpec after the server's Finished.
LEMMA ClientCcsAfterServerFinishedStep ==
    ASSUME TlsInv, ClientCcsAfterServerFinished
    PROVE  TlsInv'
<1>1. /\ ClientSide /\ DOMAIN c = ClientFields /\ IsSeq(c.tr)
      /\ c.state = "CLIENT_CCS_AFTER_SERVER_FINISHED"
  BY DEF TlsInv, ClientSide, ClientCcsAfterServerFinished, CanStep, Context
<1>2. /\ DOMAIN c' = ClientFields
      /\ c'.state = "CLIENT_CERTIFICATE" /\ c'.tr = c.tr
      /\ c'.early = c.early /\ c'.peer_cert = c.peer_cert
      /\ c'.handshake_key = c.handshake_key /\ c'.application_key = c.application_key
      /\ c'.psk = c.psk /\ c'.share = c.share /\ c'.mode = c.mode
      /\ c'.tickets = c.tickets /\ c'.resumption = c.resumption
      /\ conf' = conf
  BY <1>1, ZenonT(40) DEF ClientCcsAfterServerFinished, WriteCcs, ClientFields
<1>3. ClientSide' /\ ClientKeeps
  BY <1>1, <1>2, ClientAfterFinished DEF ClientSecond, ClientDone
<1> QED
  BY <1>3, ClientCcsStep DEF ClientCcsAfterServerFinished

\* The client writes its Certificate, possibly empty.
LEMMA WriteClientCertificateStep ==
    ASSUME TlsInv, WriteClientCertificate
    PROVE  TlsInv'
<1> DEFINE m == [t |-> "certificate", cert |-> conf.c_cert]
           ep == [c EXCEPT !.tout = c.handshake_key]
           next == [ep EXCEPT !.state = IF c.client_auth /\ conf.c_cert # "none"
                                        THEN "CLIENT_CERTIFICATE_VERIFY"
                                        ELSE "CLIENT_FINISHED"]
           r == HandshakeRecord(ep, m)
<1>1. /\ ClientSide /\ DOMAIN c = ClientFields /\ IsSeq(c.tr) /\ c.state = "CLIENT_CERTIFICATE"
      /\ out.client = <<>>
  BY DEF TlsInv, ClientSide, WriteClientCertificate, CanStep, Context
<1>2. UNCHANGED <<conf, s, net, failed>>
  BY DEF WriteClientCertificate, ClientWrites
<1>3. ~Carries(r, "finished") /\ ClientRecordIsRight(r)
  BY DEF HandshakeRecord, Carries, ClientRecordIsRight
<1>4. ep.tr = c.tr
  BY <1>1 DEF ClientFields
<1>5. ASSUME NEW tr, IsSeq(tr), c' = [next EXCEPT !.tr = tr]
      PROVE  ClientSide' /\ ClientKeeps
  <2>1. /\ DOMAIN c' = ClientFields
        /\ c'.state \in {"CLIENT_CERTIFICATE_VERIFY", "CLIENT_FINISHED"} /\ c'.tr = tr
        /\ c'.early = c.early /\ c'.peer_cert = c.peer_cert
        /\ c'.handshake_key = c.handshake_key /\ c'.application_key = c.application_key
        /\ c'.psk = c.psk /\ c'.share = c.share /\ c'.mode = c.mode
        /\ c'.tickets = c.tickets /\ c'.resumption = c.resumption
    BY <1>1, <1>5 DEF ClientFields
  <2> QED
    BY <1>1, <1>2, <1>5, <2>1, ClientAfterFinished DEF ClientSecond, ClientDone
<1>6. CASE c.client_auth
  <2>1. Emit("client", r) /\ c' = [next EXCEPT !.tr = Append(c.tr, m)]
    BY <1>4, <1>6 DEF WriteClientCertificate, ClientWrites
  <2> HIDE DEF m, ep, next, r
  <2>2. ClientSide' /\ ClientKeeps
    BY <1>1, <1>5, <2>1, AppendIs
  <2> QED
    BY <1>1, <1>2, <1>3, <2>1, <2>2, ClientPuts
<1>7. CASE ~c.client_auth
  <2>1. c' = next /\ UNCHANGED out
    BY <1>7 DEF WriteClientCertificate
  <2>2. next = [next EXCEPT !.tr = c.tr]
    BY <1>1 DEF ClientFields
  <2> HIDE DEF m, ep, next, r
  <2>3. ClientSide' /\ ClientKeeps
    BY <1>1, <1>5, <2>1, <2>2
  <2> QED
    BY <1>2, <2>1, <2>3, ClientAlone
<1> QED
  BY <1>6, <1>7

\* The client writes its CertificateVerify.
LEMMA WriteClientCertificateVerifyStep ==
    ASSUME TlsInv, WriteClientCertificateVerify
    PROVE  TlsInv'
<1> DEFINE m == [t |-> "certificate_verify"]
           r == HandshakeRecord(c, m)
<1>1. /\ ClientSide /\ DOMAIN c = ClientFields /\ IsSeq(c.tr)
      /\ c.state = "CLIENT_CERTIFICATE_VERIFY" /\ out.client = <<>>
  BY DEF TlsInv, ClientSide, WriteClientCertificateVerify, CanStep, Context
<1>2. Emit("client", r) /\ UNCHANGED <<conf, s, net, failed>>
  BY DEF WriteClientCertificateVerify, ClientWrites
<1>3. ~Carries(r, "finished") /\ ClientRecordIsRight(r)
  BY DEF HandshakeRecord, Carries, ClientRecordIsRight
<1> HIDE DEF m
<1>4. /\ DOMAIN c' = ClientFields
      /\ c'.state = "CLIENT_FINISHED" /\ c'.tr = Append(c.tr, m)
      /\ c'.early = c.early /\ c'.peer_cert = c.peer_cert
      /\ c'.handshake_key = c.handshake_key /\ c'.application_key = c.application_key
      /\ c'.psk = c.psk /\ c'.share = c.share /\ c'.mode = c.mode
      /\ c'.tickets = c.tickets /\ c'.resumption = c.resumption
  BY <1>1 DEF WriteClientCertificateVerify, ClientWrites, ClientFields, m
<1>5. IsSeq(c'.tr)
  BY <1>1, <1>4, AppendIs
<1>6. ClientSide' /\ ClientKeeps
  BY <1>1, <1>2, <1>4, <1>5, ClientAfterFinished DEF ClientSecond, ClientDone
<1> HIDE DEF r
<1> QED
  BY <1>1, <1>2, <1>3, <1>6, ClientPuts

\* The client flushes and wraps its handshake up.
LEMMA ClientWrapupStep ==
    ASSUME TlsInv, ClientFlushBuffers \/ ClientHandshakeWrapup
    PROVE  TlsInv'
<1>1. /\ ClientSide /\ DOMAIN c = ClientFields /\ IsSeq(c.tr)
      /\ c.state \in {"FLUSH_BUFFERS", "HANDSHAKE_WRAPUP"}
  BY DEF TlsInv, ClientSide, ClientFlushBuffers, ClientHandshakeWrapup, CanStep, Context
<1>2. UNCHANGED <<conf, s, out, net, failed>>
  BY DEF ClientFlushBuffers, ClientHandshakeWrapup
<1>3. /\ DOMAIN c' = ClientFields
      /\ c'.state \in {"HANDSHAKE_WRAPUP", "HANDSHAKE_OVER"} /\ c'.tr = c.tr
      /\ c'.early = c.early /\ c'.peer_cert = c.peer_cert
      /\ c'.handshake_key = c.handshake_key /\ c'.application_key = c.application_key
      /\ c'.psk = c.psk /\ c'.share = c.share /\ c'.mode = c.mode
      /\ c'.tickets = c.tickets /\ c'.resumption = c.resumption
      /\ c'.state = "HANDSHAKE_OVER" => c'.tin = c.application_key /\ c'.tout = c.application_key
  <2>1. \/ c' = [c EXCEPT !.state = "HANDSHAKE_WRAPUP"]
        \/ c' = [c EXCEPT !.tin = c.application_key, !.tout = c.application_key,
                          !.state = "HANDSHAKE_OVER"]
    BY DEF ClientFlushBuffers, ClientHandshakeWrapup
  <2> QED
    BY <1>1, <2>1, ZenonT(40) DEF ClientFields
<1>4. ClientSide' /\ ClientKeeps
  BY <1>1, <1>2, <1>3, ClientAfterFinished DEF ClientSecond, ClientDone
<1> QED
  BY <1>2, <1>4, ClientAlone

\* The server's Finished is the last of its flight, so nothing is left of it,
\* and its key is that of the server: both sides have the same parameters.
LEMMA ProcessServerFinishedStep ==
    ASSUME TlsInv, ProcessServerFinished
    PROVE  TlsInv'
<1> DEFINE r == Head(net.client)
           m == Message("client")
           tr == Append(c.tr, m)
<1>1. /\ QueuesAreSeqs /\ ClientSide /\ ServerSide /\ DOMAIN c = ClientFields /\ IsSeq(c.tr)
      /\ RecordsAreRight /\ PeersAgree /\ QueueIsOrdered
      /\ net.client # <<>> /\ failed.client = "no"
      /\ ToClient # <<>> /\ ToClient[1] = r /\ r.msg = m
      /\ Carries(r, "finished") /\ r.key = c.tin /\ ServerRecordIsRight(r)
  BY ClientReceives DEF TlsInv, Joint, ClientSide, ProcessServerFinished
<1>2. c.state = "SERVER_FINISHED"
  <2>1. /\ c.state \in DOMAIN ClientWaits /\ "finished" \in ClientWaits[c.state]
    BY ClientReceives DEF ProcessServerFinished
  <2> QED
    BY <2>1 DEF ClientWaits
<1>3. CASE Refuses("client", "finished")
  BY <1>1, <1>3, ClientRefuses
<1>4. CASE ~Refuses("client", "finished")
  <2>1. /\ c.state \notin ClientSecond /\ c.state \notin ClientDone /\ c.state \in ClientKeyed
        /\ c.early # "SERVER_FINISHED_RECEIVED" /\ c.tin = c.handshake_key
        /\ SaysEarly(c.tr, HelloLen(c), c.early = "ACCEPTED")
        /\ KeysAreOfHello(c) /\ c.tickets = <<>>
    BY <1>1, <1>2 DEF ClientSide, ClientInFirstFlight, ClientKeyed, ClientSecond, ClientDone
  <2>2. ServerFinishedIsRight(r) /\ s.state \in ServerSecond
    BY <1>1 DEF ServerRecordIsRight, ServerFinishedIsRight
  <2>3. s.state \notin ServerDone /\ s.state \notin ServerTickets
    BY <1>1, <2>1 DEF PeersAgree, ServerDone
  <2>4. KeysAreOfHello(s) /\ s.early_accepted \in BOOLEAN
    BY <1>1, <2>2 DEF ServerSide
  <2>5. c.handshake_key = s.handshake_key
    BY <1>1, <2>1, <2>2 DEF ServerFinishedIsRight
  <2>6. c.psk = s.psk /\ c.share = s.share
    BY <2>1, <2>4, <2>5 DEF KeysAreOfHello, Key
  <2>7. r.over = c.tr
    BY <1>4 DEF ProcessServerFinished
  <2>8. s.early_accepted = (c.early = "ACCEPTED")
    BY <2>1, <2>2, <2>4, <2>5, <2>7 DEF ServerFinishedIsRight, SaysEarly, HelloLen
  <2>9. s.application_key = Key("application", c.psk, c.share, tr)
    BY <1>1, <2>2, <2>6, <2>7 DEF ServerFinishedIsRight
  <2>10. Consume("client") /\ UNCHANGED <<conf, s, out, failed>>
    BY <1>4 DEF ProcessServerFinished, ClientReads
  <2>11. IsSeq(tr)
    BY <1>1, AppendIs
  <2> HIDE DEF r, m, tr
  <2>12. /\ DOMAIN c' = ClientFields
         /\ c'.state \in {"END_OF_EARLY_DATA", "CLIENT_CCS_AFTER_SERVER_FINISHED",
                          "CLIENT_CERTIFICATE"}
         /\ c'.tr = tr
         /\ (c'.early = "SERVER_FINISHED_RECEIVED") = (c.early = "ACCEPTED")
         /\ c'.application_key = Key("application", c.psk, c.share, tr)
         /\ c'.handshake_key = c.handshake_key
         /\ c'.peer_cert = c.peer_cert
         /\ c'.psk = c.psk /\ c'.share = c.share /\ c'.mode = c.mode
         /\ c'.tickets = <<>> /\ c'.resumption = c.resumption
    <3> DEFINE next == [c EXCEPT !.tr = tr,
                                 !.application_key = Key("application", c.psk, c.share, tr)]
    <3>1. \/ /\ c.early = "ACCEPTED"
             /\ c' = [next EXCEPT !.early = "SERVER_FINISHED_RECEIVED",
                                  !.state = "END_OF_EARLY_DATA"]
          \/ /\ c.early # "ACCEPTED"
             /\ c' = [next EXCEPT !.state = IF conf.compat
                                            THEN "CLIENT_CCS_AFTER_SERVER_FINISHED"
                                            ELSE "CLIENT_CERTIFICATE"]
      BY <1>4 DEF ProcessServerFinished, ClientReads, tr, m
    <3>2. c.early # "SERVER_FINISHED_RECEIVED" /\ c.tickets = <<>> /\ DOMAIN c = ClientFields
      BY <1>1, <2>1
    <3>3. CASE c.early = "ACCEPTED"
      BY <3>1, <3>2, <3>3, ZenonT(40) DEF ClientFields
    <3>4. CASE c.early # "ACCEPTED"
      BY <3>1, <3>2, <3>4 DEF ClientFields
    <3> QED
      BY <3>3, <3>4
  <2>13. c'.state \in ClientSecond /\ c'.state \notin ClientDone \cup ClientKeyed
    BY <2>12 DEF ClientSecond, ClientDone, ClientKeyed
  <2>14. ClientSide'
    <3>1. KeysAreOfHello(c)' /\ IsSeq(c.tr)' /\ TicketsAreOf(c)'
      BY <2>1, <2>11, <2>12, SingleIs DEF KeysAreOfHello, TicketsAreOf, IsSeq
    <3>2. ClientInFirstFlight'
      BY <2>13 DEF ClientInFirstFlight, ClientKeyed
    <3>3. ClientIsSure'
      BY <1>1, <1>2, <2>10, <2>12 DEF ClientSide, ClientIsSure, Satisfies
    <3> QED
      BY <2>12, <2>13, <3>1, <3>2, <3>3 DEF ClientSide, ClientDone
  <2>15. /\ ToClient' = Tail(ToClient) /\ ToServer' = ToServer /\ QueuesAreSeqs'
    <3>1. DOMAIN failed' = Endpoints
      BY <1>1, <2>10 DEF QueuesAreSeqs
    <3> QED
      BY <1>1, <2>10, <3>1, ClientConsumes
  <2>16. ToClient' = <<>>
    <3>1. IsSeq(ToClient)
      BY <1>1, QueuesAre
    <3>2. 1 \in 1 .. Len(ToClient)
      BY <1>1, <3>1, TailIs
    <3>3. Len(ToClient) = 1
      BY <1>1, <2>1, <2>2, <2>3, <3>2 DEF QueueIsOrdered, FlightIsOrdered
    <3>4. Len(Tail(ToClient)) = 0 /\ IsSeq(Tail(ToClient))
      BY <1>1, <3>1, <3>3, TailIs
    <3> DEFINE q == Tail(ToClient)
    <3>5. q \in Seq({q[i] : i \in 1 .. Len(q)}) /\ Len(q) = 0
      BY <3>4 DEF IsSeq
    <3>6. q = <<>>
      <4> DEFINE S == {q[i] : i \in 1 .. Len(q)}
      <4>1. q \in Seq(S) /\ Len(q) = 0
        BY <3>5
      <4> HIDE DEF S, q
      <4> QED
        BY <4>1
    <3> QED
      BY <2>15, <3>6
  <2>17. ClientStays /\ ServerStays
    BY <2>1, <2>10 DEF ClientStays, ServerStays
  <2>18. RecordsAreRight'
    BY <1>1, <2>10, <2>15, <2>17, RecordsStayRight DEF ToClientMoves, ToServerMoves
  <2>19. PeersAgree'
    BY <2>2, <2>3, <2>5, <2>8, <2>9, <2>10, <2>12, <2>13 DEF PeersAgree
  <2>20. QueueIsOrdered'
    BY <2>3, <2>10, <2>13, <2>16 DEF QueueIsOrdered, FlightIsOrdered, TicketsAreOrdered
  <2>21. ServerSide'
    BY <1>1, <2>10, ServerSame
  <2> QED
    BY <2>14, <2>15, <2>18, <2>19, <2>20, <2>21 DEF TlsInv, Joint
<1> QED
  BY <1>3, <1>4

\* No other Finished of the client is on its way.
LEMMA WriteClientFinishedStep ==
    ASSUME TlsInv, WriteClientFinished
    PROVE  TlsInv'
<1> DEFINE m == [t |-> "finished"]
           r == HandshakeRecord(c, m)
<1>1. /\ QueuesAreSeqs /\ ClientSide /\ ServerSide /\ DOMAIN c = ClientFields /\ IsSeq(c.tr)
      /\ RecordsAreRight /\ PeersAgree /\ QueueIsOrdered
      /\ c.state = "CLIENT_FINISHED" /\ out.client = <<>>
  BY DEF TlsInv, Joint, ClientSide, WriteClientFinished, CanStep, Context
<1>2. Emit("client", r) /\ UNCHANGED <<conf, s, net, failed>>
  BY DEF WriteClientFinished, ClientWrites
<1>3. r.over = c.tr /\ r.msg = m /\ m.t = "finished"
  BY DEF HandshakeRecord, Bound
<1> HIDE DEF m
<1>4. /\ DOMAIN c' = ClientFields
      /\ c'.state = "FLUSH_BUFFERS" /\ c'.tr = Append(c.tr, m)
      /\ c'.early = c.early /\ c'.peer_cert = c.peer_cert
      /\ c'.handshake_key = c.handshake_key /\ c'.application_key = c.application_key
      /\ c'.psk = c.psk /\ c'.share = c.share /\ c'.mode = c.mode
      /\ c'.tickets = c.tickets
      /\ c'.resumption = Key("resumption", c.psk, c.share, Append(c.tr, m))
  BY <1>1 DEF WriteClientFinished, ClientWrites, ClientFields, m
<1>5. /\ c.state \in ClientSecond /\ c'.state \in ClientSecond
      /\ c.state \notin ClientDone /\ c'.state \in ClientDone
      /\ c'.state \notin ClientKeyed /\ c'.state # "HANDSHAKE_OVER"
      /\ c.tickets = <<>>
  BY <1>1, <1>4 DEF ClientSide, ClientSecond, ClientDone, ClientKeyed
<1>6. ClientSide'
  <2>1. IsSeq(c.tr)' /\ TicketsAreOf(c)'
    <3>1. IsSeq(c'.tr)
      BY <1>1, <1>4, AppendIs
    <3>2. c'.tickets = <<>> /\ IsSeq(c'.tickets)
      BY <1>4, <1>5, SingleIs
    <3> QED
      BY <3>1, <3>2 DEF TicketsAreOf, IsSeq
  <2>2. KeysAreOfHello(c)'
    BY <1>1, <1>4, <1>5 DEF ClientSide, KeysAreOfHello
  <2>3. ClientInFirstFlight'
    BY <1>5 DEF ClientInFirstFlight, ClientKeyed
  <2>4. ClientIsSure'
    BY <1>1, <1>2, <1>4, <1>5 DEF ClientSide, ClientIsSure, Satisfies
  <2> QED
    BY <1>4, <1>5, <2>1, <2>2, <2>3, <2>4 DEF ClientSide
<1>7. ToClient' = ToClient /\ ToServer' = Append(ToServer, r) /\ QueuesAreSeqs'
  <2>1. DOMAIN failed' = Endpoints
    BY <1>1, <1>2 DEF QueuesAreSeqs
  <2> HIDE DEF r
  <2> QED
    BY <1>1, <1>2, <2>1, ClientEmits
<1>8. PICK q : q = r
  OBVIOUS
<1>8a. ClientRecordIsRight(q)'
  BY <1>3, <1>4, <1>5, <1>8 DEF ClientRecordIsRight, Carries
<1>9. ClientStays /\ ServerStays
  BY <1>2, <1>5 DEF ClientStays, ServerStays
<1>10. RecordsAreRight'
  <2> HIDE DEF r
  <2>1. ToClientMoves /\ ToServerMoves
    BY <1>7, <1>8, <1>8a DEF ToClientMoves, ToServerMoves
  <2> QED
    BY <1>1, <1>2, <1>9, <2>1, RecordsStayRight
<1>11. s.state \notin ServerDone
  BY <1>1, <1>5 DEF PeersAgree
<1>12. PeersAgree'
  BY <1>1, <1>2, <1>4, <1>5, <1>11 DEF PeersAgree
<1>13. QueueIsOrdered'
  BY <1>1, <1>2, <1>4, <1>5, <1>7 DEF QueueIsOrdered, FlightIsOrdered, TicketsAreOrdered
<1> QED
  BY <1>1, <1>2, <1>6, <1>7, <1>10, <1>12, <1>13, ServerSame DEF TlsInv, Joint

\* The tickets come in the order the server wrote them.
LEMMA ProcessNewSessionTicketStep ==
    ASSUME TlsInv, ProcessNewSessionTicket
    PROVE  TlsInv'
<1> DEFINE m == Message("client")
           x == [secret |-> c.resumption, nonce |-> m.nonce]
<1>1. /\ QueuesAreSeqs /\ ClientSide /\ ServerSide /\ DOMAIN c = ClientFields /\ IsSeq(c.tr)
      /\ RecordsAreRight /\ PeersAgree /\ QueueIsOrdered
      /\ net.client # <<>> /\ failed.client = "no"
      /\ ToClient # <<>> /\ ToClient[1] = Head(net.client)
      /\ m = Head(net.client).msg
      /\ TicketsAreOf(c) /\ IsSeq(c.tickets)
  BY ClientReceives DEF TlsInv, Joint, ClientSide, ProcessNewSessionTicket, TicketsAreOf
<1>2. c.state = "HANDSHAKE_OVER"
  <2>1. /\ c.state \in DOMAIN ClientWaits /\ "new_session_ticket" \in ClientWaits[c.state]
    BY ClientReceives DEF ProcessNewSessionTicket
  <2> QED
    BY <2>1 DEF ClientWaits
<1>3. c.state \in ClientSecond /\ c.state \in ClientDone
  BY <1>2 DEF ClientSecond, ClientDone
<1>4. s.state \in ServerTickets
  BY <1>1, <1>3 DEF PeersAgree, QueueIsOrdered, FlightIsOrdered
<1>5. IsSeq(ToClient) /\ 1 \in 1 .. Len(ToClient)
  BY <1>1, QueuesAre, TailIs
<1>6. m.nonce = Len(c.tickets) + 1
  <2>1. ToClient[1].msg = [t |-> "new_session_ticket", nonce |-> Len(c.tickets) + 1]
    BY <1>1, <1>4, <1>5 DEF QueueIsOrdered, TicketsAreOrdered
  <2>2. m = ToClient[1].msg
    BY <1>1
  <2> QED
    BY <2>1, <2>2
<1>7. Consume("client") /\ UNCHANGED <<conf, s, out, failed>>
  BY DEF ProcessNewSessionTicket, ClientReads
<1> HIDE DEF x, m
<1>8. /\ DOMAIN c' = ClientFields
      /\ c'.state = c.state /\ c'.tr = c.tr /\ c'.tin = c.tin /\ c'.tout = c.tout
      /\ c'.early = c.early /\ c'.peer_cert = c.peer_cert
      /\ c'.handshake_key = c.handshake_key /\ c'.application_key = c.application_key
      /\ c'.psk = c.psk /\ c'.share = c.share /\ c'.mode = c.mode
      /\ c'.tickets = Append(c.tickets, x) /\ c'.resumption = c.resumption
  BY <1>1 DEF ProcessNewSessionTicket, ClientReads, ClientFields, x, m
<1>9. /\ IsSeq(c'.tickets) /\ Len(c.tickets) \in Nat /\ Len(c'.tickets) = Len(c.tickets) + 1
      /\ c'.tickets[Len(c.tickets) + 1] = x
      /\ \A i \in 1 .. Len(c.tickets) : c'.tickets[i] = c.tickets[i]
  BY <1>1, <1>8, AppendIs
<1>10. TicketsAreOf(c)'
  <2>1. x = [secret |-> c'.resumption, nonce |-> Len(c.tickets) + 1]
    BY <1>6, <1>8 DEF x
  <2>2. IsSeq(c.tickets)'
    BY <1>9 DEF IsSeq
  <2>3. ASSUME NEW k \in 1 .. Len(c'.tickets)
        PROVE  c'.tickets[k] = [secret |-> c'.resumption, nonce |-> k]
    <3>1. CASE k \in 1 .. Len(c.tickets)
      BY <1>1, <1>8, <1>9, <3>1 DEF TicketsAreOf
    <3>2. CASE k = Len(c.tickets) + 1
      BY <1>9, <2>1, <3>2
    <3> QED
      BY <1>9, <3>1, <3>2
  <2> QED
    BY <2>2, <2>3 DEF TicketsAreOf
<1>11. ClientSide'
  <2>1. ClientInFirstFlight' /\ ClientIsSure' /\ KeysAreOfHello(c)'
    BY <1>1, <1>3, <1>7, <1>8
       DEF ClientSide, ClientInFirstFlight, ClientIsSure, Satisfies, KeysAreOfHello, ClientSecond,
           ClientDone, ClientKeyed
  <2>2. IsSeq(c.tr)'
    BY <1>1, <1>8 DEF IsSeq
  <2> QED
    BY <1>1, <1>2, <1>8, <1>10, <2>1, <2>2 DEF ClientSide
<1>12. /\ ToClient' = Tail(ToClient) /\ ToServer' = ToServer /\ QueuesAreSeqs'
  <2>1. DOMAIN failed' = Endpoints
    BY <1>1, <1>7 DEF QueuesAreSeqs
  <2> QED
    BY <1>1, <1>7, <2>1, ClientConsumes
<1>13. ClientStays /\ ServerStays
  BY <1>7, <1>8 DEF ClientStays, ServerStays
<1>14. RecordsAreRight'
  BY <1>1, <1>7, <1>12, <1>13, RecordsStayRight DEF ToClientMoves, ToServerMoves
<1>15. PeersAgree'
  BY <1>1, <1>3, <1>4, <1>7, <1>8 DEF PeersAgree
<1>16. QueueIsOrdered'
  <2>1. /\ Len(ToClient) \in Nat \ {0} /\ Len(ToClient') = Len(ToClient) - 1
        /\ \A i \in 1 .. Len(ToClient) - 1 : ToClient'[i] = ToClient[i + 1]
    BY <1>1, <1>5, <1>12, TailIs
  <2>2. TicketsAreOrdered
    BY <1>1 DEF QueueIsOrdered
  <2>3. Len(s.tickets) = Len(c'.tickets) + Len(ToClient')
    <3>1. Len(s.tickets) = Len(c.tickets) + Len(ToClient)
      BY <1>4, <2>2 DEF TicketsAreOrdered
    <3> DEFINE n == Len(c.tickets)
               q == Len(ToClient)
    <3>2. n \in Nat /\ q \in Nat \ {0} /\ Len(c'.tickets) = n + 1 /\ Len(ToClient') = q - 1
      BY <1>9, <2>1
    <3> HIDE DEF n, q
    <3>3. Len(c'.tickets) + Len(ToClient') = n + q
      BY <3>2
    <3> QED
      BY <3>1, <3>3 DEF n, q
  <2>4. ASSUME NEW k \in 1 .. Len(ToClient')
        PROVE  /\ ToClient'[k].type = "handshake"
               /\ ToClient'[k].msg = [t |-> "new_session_ticket", nonce |-> Len(c'.tickets) + k]
    <3>1. k + 1 \in 1 .. Len(ToClient) /\ ToClient'[k] = ToClient[k + 1]
      BY <2>1
    <3>1a. Len(c.tickets) + (k + 1) = Len(c'.tickets) + k
      <4> DEFINE n == Len(c.tickets)
      <4>1. n \in Nat /\ Len(c'.tickets) = n + 1 /\ k \in Nat
        BY <1>9, <2>1
      <4> HIDE DEF n
      <4>2. n + (k + 1) = (n + 1) + k
        BY <4>1
      <4> QED
        BY <4>1, <4>2 DEF n
    <3>2. /\ ToClient[k + 1].type = "handshake"
          /\ ToClient[k + 1].msg = [t |-> "new_session_ticket",
                                    nonce |-> Len(c.tickets) + (k + 1)]
      BY <1>4, <2>2, <3>1 DEF TicketsAreOrdered
    <3> QED
      BY <3>1, <3>1a, <3>2
  <2>5. TicketsAreOrdered'
    BY <1>7, <2>3, <2>4 DEF TicketsAreOrdered
  <2>6. FlightIsOrdered'
    BY <1>4, <1>7 DEF FlightIsOrdered
  <2> QED
    BY <2>5, <2>6 DEF QueueIsOrdered
<1> QED
  BY <1>1, <1>7, <1>11, <1>12, <1>14, <1>15, <1>16, ServerSame DEF TlsInv, Joint

-----------------------------------------------------------------------------
(* What the server makes of a ClientHello.                                 *)

\* A client offers at most two PSKs: its ticket and the configured one.
LEMMA ClientPsksAre ==
    DOMAIN ClientPsks \subseteq {1, 2}
<1> DEFINE has_ticket == conf.ticket # "none" /\ TicketModes # {}
           first == IF has_ticket THEN <<"ticket">> ELSE <<>>
           second == IF conf.c_psk THEN <<"external">> ELSE <<>>
<1>1. ClientPsks = IF conf.c_modes \cap PskModes = {} THEN <<>> ELSE first \o second
  BY DEF ClientPsks
<1>2. first \in {<<"ticket">>, <<>>} /\ second \in {<<"external">>, <<>>}
  OBVIOUS
<1> HIDE DEF has_ticket, first, second
<1>3. IsSeq(first) /\ IsSeq(second) /\ Len(first) \in {0, 1} /\ Len(second) \in {0, 1}
  BY <1>2, SingleIs
<1>4. IsSeq(ClientPsks) /\ Len(ClientPsks) \in {0, 1, 2}
  <2>1. IsSeq(first \o second) /\ Len(first \o second) = Len(first) + Len(second)
    BY <1>3, ConcatIs
  <2>2. Len(first \o second) \in {0, 1, 2}
    <3> DEFINE a == Len(first)
               b == Len(second)
    <3>1. a \in {0, 1} /\ b \in {0, 1} /\ Len(first \o second) = a + b
      BY <1>3, <2>1
    <3> HIDE DEF a, b
    <3>2. a + b \in {0, 1, 2}
      BY <3>1
    <3> QED
      BY <3>1, <3>2
  <2>3. IsSeq(<<>>) /\ Len(<<>>) = 0
    BY SingleIs
  <2> QED
    BY <1>1, <2>1, <2>2, <2>3
<1> QED
  <2> DEFINE q == ClientPsks
             S == {q[i] : i \in 1 .. Len(q)}
  <2>1. q \in Seq(S) /\ Len(q) \in {0, 1, 2}
    BY <1>4 DEF IsSeq
  <2> HIDE DEF q, S
  <2>2. DOMAIN q = 1 .. Len(q)
    BY <2>1
  <2>3. DOMAIN q \subseteq {1, 2}
    BY <2>1, <2>2
  <2> QED
    BY <2>3 DEF q

\* The PSK that is selected is one of those the client offered, and the
\* server knows it.
LEMMA SelectedPskIs ==
    ASSUME NEW m, m.psks = ClientPsks, SelectedPsk(m) # 0
    PROVE  /\ m.psks[SelectedPsk(m)] \in ToSet(ClientPsks)
           /\ ServerKnows(m.psks[SelectedPsk(m)])
<1> DEFINE fits == {i \in DOMAIN m.psks : /\ ServerKnows(m.psks[i])
                                          /\ PskModeFor(m.psks[i], m) # "none"}
           least == CHOOSE i \in fits : \A j \in fits : i <= j
<1>1. fits # {} /\ SelectedPsk(m) = least
  BY DEF SelectedPsk
<1>2. DOMAIN m.psks \subseteq {1, 2}
  BY ClientPsksAre
<1>3. fits \subseteq {1, 2} /\ fits \subseteq DOMAIN m.psks
  BY <1>2
<1>4. \A i \in fits : ServerKnows(m.psks[i])
  OBVIOUS
<1> HIDE DEF fits
<1>5. \E i \in fits : \A j \in fits : i <= j
  <2>1. fits \subseteq {1, 2} /\ fits # {}
    BY <1>1, <1>3
  <2>2. CASE 1 \in fits
    <3>1. \A j \in fits : 1 <= j
      BY <2>1
    <3> QED
      BY <2>2, <3>1
  <2>3. CASE 1 \notin fits
    <3>1. fits = {2}
      BY <2>1, <2>3
    <3>2. \A j \in fits : 2 <= j
      BY <3>1
    <3> QED
      BY <3>1, <3>2
  <2> QED
    BY <2>2, <2>3
<1>6. least \in fits
  BY <1>5
<1> HIDE DEF least
<1> QED
  BY <1>1, <1>3, <1>4, <1>6 DEF ToSet

\* The mode a server selects fits the PSK and the share it found.
LEMMA SelectedModeIs ==
    ASSUME NEW m, SelectedMode(m) # "none"
    PROVE  /\ SelectedMode(m) \in PskModes \cup {"ephemeral"}
           /\ SelectedMode(m) \in PskModes => SelectedPsk(m) # 0
           /\ SelectedMode(m) # "psk" => m.share # "none"
<1> DEFINE psk == SelectedPsk(m)
           mode == IF psk = 0 THEN "none" ELSE PskModeFor(m.psks[psk], m)
<1>1. mode \in {"psk_ephemeral", "psk", "none"} /\ (mode = "psk_ephemeral" => m.share # "none")
  BY DEF PskModeFor
<1>2. mode # "none" => psk # 0
  OBVIOUS
<1>3. SelectedMode(m) = IF mode = "psk_ephemeral" THEN "psk_ephemeral"
                        ELSE IF EphemeralAvailable(m) THEN "ephemeral" ELSE mode
  BY DEF SelectedMode
<1> HIDE DEF psk, mode
<1> QED
  BY <1>1, <1>2, <1>3 DEF EphemeralAvailable, PskModes, psk

-----------------------------------------------------------------------------
(* The operations of the server, phase by phase.                           *)

\* A server that has no keys yet may change what it found in the ClientHello.
LEMMA ServerBeforeKeys ==
    ASSUME ServerSide, conf' = conf, DOMAIN s' = ServerFields, IsSeq(s'.tr),
           s'.early_accepted \in BOOLEAN,
           s.state \notin ServerKeyed \cup ServerSecond,
           s'.state \notin ServerKeyed \cup ServerSecond,
           s'.state = "SERVER_HELLO" => ServerHasParameters',
           s'.peer_cert = s.peer_cert,
           s'.certificate_request_sent = s.certificate_request_sent,
           s'.tickets = s.tickets, s'.resumption = s.resumption
    PROVE  ServerSide' /\ ServerKeeps
<1>1. /\ s'.state \notin ServerDone /\ s.state \notin ServerDone
      /\ s'.state \notin ServerTickets /\ s.state \notin ServerTickets
  BY DEF ServerSecond, ServerDone
<1>2. s'.tickets = <<>> /\ TicketsAreOf(s)' /\ IsSeq(s.tr)'
  BY <1>1 DEF ServerSide, TicketsAreOf, IsSeq
<1>3. ServerInFirstFlight'
  BY DEF ServerInFirstFlight, ServerKeyed
<1>4. ServerIsSure'
  <2>1. /\ s.state \notin {"CLIENT_CERTIFICATE_VERIFY", "CLIENT_FINISHED"} \cup ServerDone
        /\ s.state \notin {"SERVER_CERTIFICATE", "CERTIFICATE_VERIFY", "SERVER_FINISHED"}
                          \cup ServerSecond
    BY DEF ServerKeyed, ServerSecond
  <2>2. s.peer_cert = "none" /\ ~s.certificate_request_sent
    BY <2>1 DEF ServerSide, ServerIsSure
  <2>3. s'.state \notin {"CLIENT_CERTIFICATE_VERIFY", "CLIENT_FINISHED", "SERVER_CERTIFICATE",
                         "CERTIFICATE_VERIFY", "SERVER_FINISHED", "END_OF_EARLY_DATA",
                         "CLIENT_CERTIFICATE"} \cup ServerDone
    BY DEF ServerKeyed, ServerSecond
  <2> QED
    BY <2>2, <2>3 DEF ServerIsSure
<1>5. ServerKeeps
  BY <1>1 DEF ServerKeeps
<1> QED
  BY <1>1, <1>2, <1>3, <1>4, <1>5 DEF ServerSide

\* The server begins.
LEMMA ServerHelloRequestStep ==
    ASSUME TlsInv, HelloRequest("server")
    PROVE  TlsInv'
<1>1. /\ ServerSide /\ DOMAIN s = ServerFields /\ IsSeq(s.tr) /\ s.state = "HELLO_REQUEST"
      /\ s.early_accepted \in BOOLEAN
  BY DEF TlsInv, ServerSide, HelloRequest, CanStep, Context
<1>2. /\ DOMAIN s' = ServerFields /\ s'.tr = s.tr /\ s'.state = "CLIENT_HELLO"
      /\ s'.early_accepted = s.early_accepted /\ s'.peer_cert = s.peer_cert
      /\ s'.certificate_request_sent = s.certificate_request_sent
      /\ s'.tickets = s.tickets /\ s'.resumption = s.resumption
      /\ UNCHANGED <<conf, c, out, net, failed>>
  BY <1>1 DEF HelloRequest, ServerFields
<1>3. ServerSide' /\ ServerKeeps
  BY <1>1, <1>2, ServerBeforeKeys DEF ServerKeyed, ServerSecond, ServerDone, ServerTickets
<1> QED
  BY <1>2, <1>3, ServerAlone

\* The frame of a server's compatibility ChangeCipherSpec.
LEMMA ServerCcsStep ==
    ASSUME TlsInv, NEW st, CanStep("server", st), NEW next, WriteCcs("server", next),
           s.state \notin ServerSecond, ServerSide', ServerKeeps
    PROVE  TlsInv'
<1>1. out.server = <<>> /\ UNCHANGED <<conf, c, net, failed>>
  BY DEF CanStep, WriteCcs
<1>2. CASE out' = out
  BY <1>1, <1>2, ServerAlone
<1>3. CASE Emit("server", CcsRecord(s))
  <2> DEFINE r == CcsRecord(s)
  <2>1. ~Carries(r, "finished") /\ ServerRecordIsRight(r)
    BY DEF CcsRecord, Carries, ServerRecordIsRight
  <2>2. Emit("server", r)
    BY <1>3
  <2> HIDE DEF r
  <2> QED
    BY <1>1, <2>1, <2>2, ServerPuts
<1> QED
  BY <1>2, <1>3 DEF WriteCcs, Context

\* The server writes its ChangeCipherSpec after a HelloRetryRequest.
LEMMA ServerCcsAfterHelloRetryRequestStep ==
    ASSUME TlsInv, ServerCcsAfterHelloRetryRequest
    PROVE  TlsInv'
<1>1. /\ ServerSide /\ DOMAIN s = ServerFields /\ IsSeq(s.tr)
      /\ s.state = "SERVER_CCS_AFTER_HELLO_RETRY_REQUEST"
      /\ s.early_accepted \in BOOLEAN
  BY DEF TlsInv, ServerSide, ServerCcsAfterHelloRetryRequest, CanStep, Context
<1>2. /\ DOMAIN s' = ServerFields /\ s'.tr = s.tr /\ s'.state = "CLIENT_HELLO"
      /\ s'.early_accepted = s.early_accepted /\ s'.peer_cert = s.peer_cert
      /\ s'.certificate_request_sent = s.certificate_request_sent
      /\ s'.tickets = s.tickets /\ s'.resumption = s.resumption
      /\ conf' = conf
  <2>1. /\ s' = [[s EXCEPT !.state = "CLIENT_HELLO"] EXCEPT !.ccs_sent = TRUE]
        /\ conf' = conf
    BY DEF ServerCcsAfterHelloRetryRequest, WriteCcs
  <2> QED
    BY <1>1, <2>1 DEF ServerFields
<1>3. s.state \notin ServerKeyed \cup ServerSecond /\ s'.state \notin ServerKeyed \cup ServerSecond
  BY <1>1, <1>2 DEF ServerKeyed, ServerSecond, ServerDone, ServerTickets
<1>4. ServerSide' /\ ServerKeeps
  BY <1>1, <1>2, <1>3, ServerBeforeKeys
<1> QED
  BY <1>3, <1>4, ServerCcsStep DEF ServerCcsAfterHelloRetryRequest

\* The server writes a HelloRetryRequest.
LEMMA WriteHelloRetryRequestStep ==
    ASSUME TlsInv, WriteHelloRetryRequest
    PROVE  TlsInv'
<1> DEFINE common == CommonGroups(s.groups)
           ep == [s EXCEPT !.tr = TranscriptForHrr(s.tr), !.tin = NoKey, !.tout = NoKey]
           m == [t |-> "server_hello", hrr |-> TRUE, psk |-> 0, share |-> FirstGroup(s.groups)]
           why == IF s.hrr THEN "retry" ELSE "group"
           r == HandshakeRecord(ep, m)
<1>1. /\ ServerSide /\ DOMAIN s = ServerFields /\ s.state = "HELLO_RETRY_REQUEST"
      /\ s.early_accepted \in BOOLEAN /\ out.server = <<>>
  BY DEF TlsInv, ServerSide, WriteHelloRetryRequest, CanStep, Context
<1>2. CASE s.hrr \/ common = {}
  <2>1. GivesUp("server", why) /\ net' = net
    BY <1>2 DEF WriteHelloRetryRequest
  <2> HIDE DEF common, ep, m, r
  <2> QED
    BY <2>1, GivesUpInPlace DEF Endpoints
<1>3. CASE ~(s.hrr \/ common = {})
  <2>1. ~Carries(r, "finished") /\ ServerRecordIsRight(r)
    BY DEF HandshakeRecord, Carries, ServerRecordIsRight
  <2>2. /\ Emit("server", r) /\ UNCHANGED <<conf, c, net, failed>>
        /\ s' = [[ep EXCEPT !.hrr = TRUE,
                            !.state = IF conf.compat THEN "SERVER_CCS_AFTER_HELLO_RETRY_REQUEST"
                                      ELSE "CLIENT_HELLO"]
                   EXCEPT !.tr = Append(ep.tr, m)]
    BY <1>1, <1>3 DEF WriteHelloRetryRequest, ServerWrites, ServerFields
  <2> HIDE DEF common, m, r
  <2>3. /\ DOMAIN s' = ServerFields /\ s'.tr = Append(TranscriptForHrr(s.tr), m)
        /\ s'.state \in {"SERVER_CCS_AFTER_HELLO_RETRY_REQUEST", "CLIENT_HELLO"}
        /\ s'.early_accepted = s.early_accepted /\ s'.peer_cert = s.peer_cert
        /\ s'.certificate_request_sent = s.certificate_request_sent
        /\ s'.tickets = s.tickets /\ s'.resumption = s.resumption
    BY <1>1, <2>2 DEF ServerFields
  <2>4. IsSeq(s'.tr)
    BY <2>3, SingleIs, AppendIs DEF TranscriptForHrr
  <2>5. s.state \notin ServerKeyed \cup ServerSecond
        /\ s'.state \notin ServerKeyed \cup ServerSecond /\ s'.state # "SERVER_HELLO"
    BY <1>1, <2>3 DEF ServerKeyed, ServerSecond, ServerDone, ServerTickets
  <2>6. ServerSide' /\ ServerKeeps
    BY <1>1, <2>2, <2>3, <2>4, <2>5, ServerBeforeKeys
  <2> HIDE DEF ep
  <2> QED
    BY <1>1, <2>1, <2>2, <2>5, <2>6, ServerPuts
<1> QED
  BY <1>2, <1>3

\* The server reads a ClientHello and selects mode, PSK and group, or fails.
LEMMA ProcessClientHelloStep ==
    ASSUME TlsInv, ProcessClientHello
    PROVE  TlsInv'
<1> DEFINE m == Message("server")
           psk == SelectedPsk(m)
           mode == SelectedMode(m)
           name == IF psk = 0 THEN "zero" ELSE m.psks[psk]
           tr == Append(s.tr, m)
           resume == s.resume \/ (mode \in PskModes /\ name = "ticket")
           accepted == AcceptsEarlyData(m, resume)
<1>1. /\ ServerSide /\ DOMAIN s = ServerFields /\ IsSeq(s.tr) /\ s.early_accepted \in BOOLEAN
      /\ net.server # <<>> /\ m.psks = ClientPsks
  BY ServerReceives DEF TlsInv, ServerSide, ProcessClientHello, ClientRecordIsRight
<1>2. s.state = "CLIENT_HELLO"
  <2>1. /\ s.state \in DOMAIN ServerWaits /\ "client_hello" \in ServerWaits[s.state]
    BY ServerReceives DEF ProcessClientHello
  <2> QED
    BY <2>1 DEF ServerWaits
<1>3. \/ \E why : Refuses("server", why)
      \/ /\ mode # "none"
         /\ Consume("server") /\ UNCHANGED <<conf, c, out, failed>>
         /\ s' = [s EXCEPT
                    !.mode = mode, !.selected = psk, !.tr = tr, !.resume = resume,
                    !.psk = IF mode \in PskModes THEN name ELSE "zero",
                    !.share = IF mode = "psk" THEN "none" ELSE m.share,
                    !.groups = m.groups, !.psk_modes = m.psk_modes,
                    !.limit = IF name = "ticket" THEN MaxEarly ELSE s.limit,
                    !.early_accepted = IF m.early THEN accepted ELSE s.early_accepted,
                    !.early_key = IF accepted
                                  THEN Key("early", "ticket", "none", tr) ELSE s.early_key,
                    !.discard = DiscardAfter(m, accepted),
                    !.state = IF RetryRequired(m) THEN "HELLO_RETRY_REQUEST"
                              ELSE "SERVER_HELLO"]
  BY <1>1 DEF ProcessClientHello, ServerReads, ServerFields
<1>4. ASSUME NEW why, Refuses("server", why) PROVE TlsInv'
  BY <1>1, <1>4, ServerRefuses
<1>5. accepted \in BOOLEAN
  BY DEF AcceptsEarlyData
<1>6. IsSeq(tr)
  BY <1>1, AppendIs
<1>7. ASSUME mode # "none"
      PROVE  /\ mode \in PskModes \cup {"ephemeral"}
             /\ mode \in PskModes =>
                  psk # 0 /\ name \in ToSet(ClientPsks) /\ ServerKnows(name)
             /\ mode # "psk" => m.share # "none"
  <2>1. /\ mode \in PskModes \cup {"ephemeral"}
        /\ mode \in PskModes => psk # 0
        /\ mode # "psk" => m.share # "none"
    BY <1>7, SelectedModeIs
  <2>2. psk # 0 => name \in ToSet(ClientPsks) /\ ServerKnows(name)
    BY <1>1, SelectedPskIs
  <2> QED
    BY <2>1, <2>2
<1> HIDE DEF m, psk, mode, name, tr, resume, accepted
<1>8. CASE /\ mode # "none"
           /\ Consume("server") /\ UNCHANGED <<conf, c, out, failed>>
           /\ s' = [s EXCEPT
                    !.mode = mode, !.selected = psk, !.tr = tr, !.resume = resume,
                    !.psk = IF mode \in PskModes THEN name ELSE "zero",
                    !.share = IF mode = "psk" THEN "none" ELSE m.share,
                    !.groups = m.groups, !.psk_modes = m.psk_modes,
                    !.limit = IF name = "ticket" THEN MaxEarly ELSE s.limit,
                    !.early_accepted = IF m.early THEN accepted ELSE s.early_accepted,
                    !.early_key = IF accepted
                                  THEN Key("early", "ticket", "none", tr) ELSE s.early_key,
                    !.discard = DiscardAfter(m, accepted),
                    !.state = IF RetryRequired(m) THEN "HELLO_RETRY_REQUEST"
                              ELSE "SERVER_HELLO"]
  <2>1. /\ DOMAIN s' = ServerFields /\ s'.tr = tr
        /\ s'.state \in {"HELLO_RETRY_REQUEST", "SERVER_HELLO"}
        /\ s'.early_accepted = (IF m.early THEN accepted ELSE s.early_accepted)
        /\ s'.peer_cert = s.peer_cert
        /\ s'.certificate_request_sent = s.certificate_request_sent
        /\ s'.tickets = s.tickets /\ s'.resumption = s.resumption
        /\ s'.mode = mode /\ s'.selected = psk
        /\ s'.psk = (IF mode \in PskModes THEN name ELSE "zero")
        /\ s'.share = (IF mode = "psk" THEN "none" ELSE m.share)
    BY <1>1, <1>8 DEF ServerFields
  <2>2. s'.early_accepted \in BOOLEAN
    BY <1>1, <1>5, <2>1
  <2>3. ServerHasParameters'
    <3>1. ClientPsks' = ClientPsks
      BY <1>8 DEF ClientPsks, TicketModes
    <3>2. mode \in PskModes => ServerKnows(s.psk)'
      <4>1. mode \in PskModes => s'.psk = name /\ ServerKnows(name)
        BY <1>7, <1>8, <2>1
      <4> QED
        BY <1>8, <4>1 DEF ServerKnows
    <3> QED
      BY <1>7, <1>8, <2>1, <3>1, <3>2 DEF ServerHasParameters, PskModes
  <2>4. s.state \notin ServerKeyed \cup ServerSecond /\ s'.state \notin ServerKeyed \cup ServerSecond
    BY <1>2, <2>1 DEF ServerKeyed, ServerSecond, ServerDone, ServerTickets
  <2>5. IsSeq(s'.tr)
    BY <1>6, <2>1
  <2>6. ServerSide' /\ ServerKeeps
    BY <1>1, <1>8, <2>1, <2>2, <2>3, <2>4, <2>5, ServerBeforeKeys
  <2> QED
    BY <1>1, <1>8, <2>6, ServerTakes
<1> QED
  BY <1>3, <1>4, <1>8

\* The server writes the ServerHello.
LEMMA WriteServerHelloStep ==
    ASSUME TlsInv, WriteServerHello
    PROVE  TlsInv'
<1> DEFINE m == [t |-> "server_hello", hrr |-> FALSE, share |-> s.share,
                 psk |-> IF s.mode \in PskModes THEN s.selected ELSE 0]
           tr == Append(s.tr, m)
           key == Key("handshake", s.psk, s.share, tr)
           r == HandshakeRecord(s, m)
<1>1. /\ ServerSide /\ DOMAIN s = ServerFields /\ IsSeq(s.tr) /\ s.state = "SERVER_HELLO"
      /\ s.early_accepted \in BOOLEAN /\ out.server = <<>> /\ ServerHasParameters
  BY DEF TlsInv, ServerSide, WriteServerHello, CanStep, Context
<1>2. Emit("server", r) /\ UNCHANGED <<conf, c, net, failed>>
  BY DEF WriteServerHello, ServerWrites
<1>3. ~Carries(r, "finished") /\ ServerRecordIsRight(r)
  BY DEF HandshakeRecord, Carries, ServerRecordIsRight
<1>4. ModeOf(m) = s.mode
  BY <1>1 DEF ServerHasParameters, ModeOf, PskModes
<1>5. IsSeq(tr) /\ Len(tr) \in Nat /\ tr[Len(tr)] = m
  BY <1>1, AppendIs
<1>6. key = Key("handshake", s.psk, s.share, tr) /\ key.tr = tr
  BY DEF Key
<1>7. /\ DOMAIN s' = ServerFields /\ s'.tr = tr /\ s'.handshake_key = key
      /\ s'.state \in {"SERVER_CCS_AFTER_SERVER_HELLO", "ENCRYPTED_EXTENSIONS"}
      /\ s'.early_accepted = s.early_accepted /\ s'.peer_cert = s.peer_cert
      /\ s'.certificate_request_sent = s.certificate_request_sent
      /\ s'.tickets = s.tickets /\ s'.resumption = s.resumption
      /\ s'.mode = s.mode /\ s'.psk = s.psk /\ s'.share = s.share /\ s'.selected = s.selected
  <2> HIDE DEF m
  <2> QED
    BY <1>1 DEF WriteServerHello, ServerWrites, ServerFields, m
<1> HIDE DEF m, tr, key
<1>8. /\ s.state \notin ServerKeyed \cup ServerSecond
      /\ s'.state \in ServerKeyed /\ s'.state \notin ServerSecond
      /\ s.state \notin ServerDone \cup ServerTickets /\ s'.state \notin ServerDone \cup ServerTickets
  BY <1>1, <1>7 DEF ServerKeyed, ServerSecond, ServerDone, ServerTickets
<1>9. ServerSide'
  <2>1. KeysAreOfHello(s)' /\ HelloLen(s)' = Len(s'.tr)
    BY <1>4, <1>5, <1>6, <1>7 DEF KeysAreOfHello, HelloLen, ModeOf
  <2>2. s.tickets = <<>> /\ TicketsAreOf(s)' /\ IsSeq(s.tr)'
    BY <1>1, <1>5, <1>7, <1>8, SingleIs DEF ServerSide, TicketsAreOf, IsSeq
  <2>3. ServerHasParameters'
    BY <1>1, <1>2, <1>7, ParametersStay
  <2>4. ServerInFirstFlight'
    BY <1>7, <2>1 DEF ServerInFirstFlight, ServerKeyed
  <2>5. ServerIsSure'
    <3>1. s.peer_cert = "none" /\ ~s.certificate_request_sent
      BY <1>1 DEF ServerSide, ServerIsSure, ServerSecond, ServerDone, ServerTickets
    <3> QED
      BY <1>7, <1>8, <3>1 DEF ServerIsSure
  <2> QED
    BY <1>1, <1>5, <1>7, <1>8, <2>1, <2>2, <2>3, <2>4, <2>5 DEF ServerSide
<1>10. ServerKeeps
  BY <1>7, <1>8 DEF ServerKeeps
<1> HIDE DEF r
<1> QED
  BY <1>1, <1>2, <1>3, <1>8, <1>9, <1>10, ServerPuts

\* The operations between the ServerHello and the server's Finished.
LEMMA ServerWithKeys ==
    ASSUME ServerSide, conf' = conf, DOMAIN s' = ServerFields, IsSeq(s'.tr),
           s.state \in ServerKeyed, s'.state \in ServerKeyed,
           s'.early_accepted = s.early_accepted, s'.peer_cert = s.peer_cert,
           s'.handshake_key = s.handshake_key,
           s'.psk = s.psk, s'.share = s.share, s'.mode = s.mode, s'.selected = s.selected,
           s'.tickets = s.tickets, s'.resumption = s.resumption,
           ServerInFirstFlight',
           s'.state \notin {"SERVER_CERTIFICATE", "CERTIFICATE_VERIFY", "SERVER_FINISHED"} =>
               ~s'.certificate_request_sent,
           s'.state \in {"SERVER_CERTIFICATE", "CERTIFICATE_VERIFY", "SERVER_FINISHED"}
               /\ s.mode = "ephemeral"
               => (s'.certificate_request_sent <=> conf.s_authmode # "none")
    PROVE  ServerSide' /\ ServerKeeps /\ s.state \notin ServerSecond
<1>1. /\ s.state \notin ServerSecond /\ s'.state \notin ServerSecond
      /\ s.state \notin ServerDone \cup ServerTickets /\ s'.state \notin ServerDone \cup ServerTickets
  BY DEF ServerKeyed, ServerSecond, ServerDone, ServerTickets
<1>2. s.tickets = <<>> /\ TicketsAreOf(s)' /\ IsSeq(s.tr)'
  BY <1>1, SingleIs DEF ServerSide, TicketsAreOf, IsSeq
<1>3. ServerHasParameters'
  BY ParametersStay DEF ServerSide
<1>4. KeysAreOfHello(s)'
  BY DEF ServerSide, KeysAreOfHello
<1>5. ServerIsSure'
  <2>1. s.peer_cert = "none"
    BY <1>1 DEF ServerSide, ServerIsSure, ServerKeyed
  <2>2. s'.state \notin {"END_OF_EARLY_DATA", "CLIENT_CERTIFICATE", "CLIENT_CERTIFICATE_VERIFY",
                         "CLIENT_FINISHED"}
    BY <1>1 DEF ServerSecond
  <2> QED
    BY <1>1, <2>1, <2>2 DEF ServerIsSure
<1>6. ServerKeeps
  BY <1>1 DEF ServerKeeps
<1> QED
  BY <1>1, <1>2, <1>3, <1>4, <1>5, <1>6 DEF ServerSide

\* The server writes its ChangeCipherSpec after the ServerHello.
LEMMA ServerCcsAfterServerHelloStep ==
    ASSUME TlsInv, ServerCcsAfterServerHello
    PROVE  TlsInv'
<1>1. /\ ServerSide /\ DOMAIN s = ServerFields /\ IsSeq(s.tr)
      /\ s.state = "SERVER_CCS_AFTER_SERVER_HELLO" /\ HelloLen(s) = Len(s.tr)
      /\ ~s.certificate_request_sent
  BY DEF TlsInv, ServerSide, ServerCcsAfterServerHello, CanStep, Context, ServerInFirstFlight,
         ServerIsSure, ServerSecond, ServerDone, ServerTickets
<1>2. /\ DOMAIN s' = ServerFields /\ s'.tr = s.tr /\ s'.state = "ENCRYPTED_EXTENSIONS"
      /\ s'.early_accepted = s.early_accepted /\ s'.peer_cert = s.peer_cert
      /\ s'.handshake_key = s.handshake_key
      /\ s'.psk = s.psk /\ s'.share = s.share /\ s'.mode = s.mode /\ s'.selected = s.selected
      /\ s'.tickets = s.tickets /\ s'.resumption = s.resumption
      /\ s'.certificate_request_sent = s.certificate_request_sent
      /\ conf' = conf
  <2>1. /\ s' = [[s EXCEPT !.state = "ENCRYPTED_EXTENSIONS"] EXCEPT !.ccs_sent = TRUE]
        /\ conf' = conf
    BY DEF ServerCcsAfterServerHello, WriteCcs
  <2> QED
    BY <1>1, <2>1 DEF ServerFields
<1>3. ServerInFirstFlight'
  BY <1>1, <1>2 DEF ServerInFirstFlight, ServerKeyed, HelloLen
<1>4. s.state \in ServerKeyed /\ s'.state \in ServerKeyed
  BY <1>1, <1>2 DEF ServerKeyed
<1>5. ServerSide' /\ ServerKeeps /\ s.state \notin ServerSecond
  BY <1>1, <1>2, <1>3, <1>4, ServerWithKeys
<1> QED
  BY <1>5, ServerCcsStep DEF ServerCcsAfterServerHello

\* The server writes the EncryptedExtensions.
LEMMA WriteEncryptedExtensionsStep ==
    ASSUME TlsInv, WriteEncryptedExtensions
    PROVE  TlsInv'
<1> DEFINE m == [t |-> "encrypted_extensions", early |-> s.early_accepted]
           ep == [s EXCEPT !.tout = s.handshake_key]
           r == HandshakeRecord(ep, m)
<1>1. /\ ServerSide /\ DOMAIN s = ServerFields /\ IsSeq(s.tr) /\ out.server = <<>>
      /\ s.state = "ENCRYPTED_EXTENSIONS" /\ HelloLen(s) = Len(s.tr)
      /\ ~s.certificate_request_sent /\ ServerHasParameters
  BY DEF TlsInv, ServerSide, WriteEncryptedExtensions, CanStep, Context, ServerInFirstFlight,
         ServerIsSure, ServerSecond, ServerDone, ServerTickets, ServerKeyed
<1>2. Emit("server", r) /\ UNCHANGED <<conf, c, net, failed>>
  BY DEF WriteEncryptedExtensions, ServerWrites
<1>3. ~Carries(r, "finished") /\ ServerRecordIsRight(r)
  BY DEF HandshakeRecord, Carries, ServerRecordIsRight
<1>4. m.early = s.early_accepted
  OBVIOUS
<1>5. /\ DOMAIN s' = ServerFields /\ s'.tr = Append(s.tr, m)
      /\ s'.state \in {"SERVER_FINISHED", "CERTIFICATE_REQUEST"}
      /\ s'.state = "SERVER_FINISHED" => s.mode \in PskModes
      /\ s'.tout = s.handshake_key
      /\ s'.early_accepted = s.early_accepted /\ s'.peer_cert = s.peer_cert
      /\ s'.handshake_key = s.handshake_key
      /\ s'.psk = s.psk /\ s'.share = s.share /\ s'.mode = s.mode /\ s'.selected = s.selected
      /\ s'.tickets = s.tickets /\ s'.resumption = s.resumption
      /\ s'.certificate_request_sent = s.certificate_request_sent
  <2> HIDE DEF m
  <2> QED
    BY <1>1 DEF WriteEncryptedExtensions, ServerWrites, ServerFields, m
<1> HIDE DEF m
<1>6. /\ IsSeq(s'.tr) /\ Len(s.tr) \in Nat /\ Len(s'.tr) = Len(s.tr) + 1
      /\ s'.tr[Len(s.tr) + 1] = m
  BY <1>1, <1>5, AppendIs
<1>7. ServerInFirstFlight'
  <2>1. HelloLen(s)' = Len(s.tr)
    BY <1>1, <1>5 DEF HelloLen
  <2> DEFINE n == Len(s.tr)
  <2>2. n \in Nat /\ Len(s'.tr) = n + 1 /\ s'.tr[n + 1] = m
    BY <1>6
  <2> HIDE DEF n
  <2>3. SaysEarly(s'.tr, n, s'.early_accepted)
    BY <1>4, <1>5, <2>2 DEF SaysEarly
  <2>4. SaysEarly(s.tr, HelloLen(s), s.early_accepted)'
    BY <2>1, <2>3 DEF n, SaysEarly
  <2> QED
    BY <1>5, <2>4 DEF ServerInFirstFlight, ServerKeyed
<1>8. s.state \in ServerKeyed /\ s'.state \in ServerKeyed
  BY <1>1, <1>5 DEF ServerKeyed
<1>9. ServerSide' /\ ServerKeeps /\ s.state \notin ServerSecond
  <2>1. s'.state \in {"SERVER_CERTIFICATE", "CERTIFICATE_VERIFY", "SERVER_FINISHED"}
            => s.mode # "ephemeral"
    BY <1>5 DEF PskModes
  <2> QED
    BY <1>1, <1>2, <1>5, <1>6, <1>7, <1>8, <2>1, ServerWithKeys
<1> HIDE DEF r
<1> QED
  BY <1>1, <1>2, <1>3, <1>9, ServerPuts

\* A message of the first flight after EncryptedExtensions changes only the
\* transcript, besides the state.
LEMMA ServerFirstFlightStep ==
    ASSUME ServerSide, conf' = conf,
           s.state \in {"CERTIFICATE_REQUEST", "SERVER_CERTIFICATE", "CERTIFICATE_VERIFY"},
           s'.state \in {"SERVER_CERTIFICATE", "CERTIFICATE_VERIFY", "SERVER_FINISHED"},
           DOMAIN s' = ServerFields,
           s'.tr = s.tr \/ \E m : s'.tr = Append(s.tr, m),
           s'.tout = s.tout,
           s'.early_accepted = s.early_accepted, s'.peer_cert = s.peer_cert,
           s'.handshake_key = s.handshake_key,
           s'.psk = s.psk, s'.share = s.share, s'.mode = s.mode, s'.selected = s.selected,
           s'.tickets = s.tickets, s'.resumption = s.resumption,
           s.mode = "ephemeral" => (s'.certificate_request_sent <=> conf.s_authmode # "none")
    PROVE  ServerSide' /\ ServerKeeps /\ s.state \notin ServerSecond
<1>1. /\ IsSeq(s.tr) /\ s.tout = s.handshake_key
      /\ SaysEarly(s.tr, HelloLen(s), s.early_accepted)
  BY DEF ServerSide, ServerInFirstFlight, ServerKeyed
<1>2. IsSeq(s'.tr) /\ SaysEarly(s'.tr, HelloLen(s), s.early_accepted)
  <2>1. CASE s'.tr = s.tr
    BY <1>1, <2>1
  <2>2. ASSUME NEW m, s'.tr = Append(s.tr, m)
        PROVE  IsSeq(s'.tr) /\ SaysEarly(s'.tr, HelloLen(s), s.early_accepted)
    <3>1. IsSeq(Append(s.tr, m))
      BY <1>1, AppendIs
    <3>2. SaysEarly(Append(s.tr, m), HelloLen(s), s.early_accepted)
      BY <1>1, StillSays
    <3> QED
      BY <2>2, <3>1, <3>2
  <2> QED
    BY <2>1, <2>2
<1>3. ServerInFirstFlight'
  BY <1>1, <1>2 DEF ServerInFirstFlight, ServerKeyed, HelloLen, SaysEarly
<1>4. s.state \in ServerKeyed /\ s'.state \in ServerKeyed
  BY DEF ServerKeyed
<1> QED
  BY <1>2, <1>3, <1>4, ServerWithKeys

\* The server writes a CertificateRequest if it wants the client's
\* certificate.
LEMMA WriteCertificateRequestStep ==
    ASSUME TlsInv, WriteCertificateRequest
    PROVE  TlsInv'
<1> DEFINE m == [t |-> "certificate_request"]
           r == HandshakeRecord(s, m)
<1>1. /\ ServerSide /\ DOMAIN s = ServerFields /\ out.server = <<>>
      /\ s.state = "CERTIFICATE_REQUEST" /\ ~s.certificate_request_sent
  BY DEF TlsInv, ServerSide, WriteCertificateRequest, CanStep, Context,
         ServerIsSure, ServerSecond, ServerDone, ServerTickets
<1>2. UNCHANGED <<conf, c, net, failed>>
  BY DEF WriteCertificateRequest, ServerWrites
<1>3. ~Carries(r, "finished") /\ ServerRecordIsRight(r)
  BY DEF HandshakeRecord, Carries, ServerRecordIsRight
<1>4. CASE conf.s_authmode = "none"
  <2>1. /\ DOMAIN s' = ServerFields /\ s'.tr = s.tr /\ s'.state = "SERVER_CERTIFICATE"
        /\ s'.tout = s.tout
        /\ s'.early_accepted = s.early_accepted /\ s'.peer_cert = s.peer_cert
        /\ s'.handshake_key = s.handshake_key
        /\ s'.psk = s.psk /\ s'.share = s.share /\ s'.mode = s.mode /\ s'.selected = s.selected
        /\ s'.tickets = s.tickets /\ s'.resumption = s.resumption
        /\ s'.certificate_request_sent = s.certificate_request_sent
        /\ out' = out
    BY <1>1, <1>4 DEF WriteCertificateRequest, ServerFields
  <2>2. ServerSide' /\ ServerKeeps
    BY <1>1, <1>2, <1>4, <2>1, ServerFirstFlightStep
  <2> QED
    BY <1>2, <2>1, <2>2, ServerAlone
<1>5. CASE conf.s_authmode # "none"
  <2>1. Emit("server", r)
    BY <1>5 DEF WriteCertificateRequest, ServerWrites
  <2> HIDE DEF m
  <2>2. /\ DOMAIN s' = ServerFields /\ s'.tr = Append(s.tr, m) /\ s'.state = "SERVER_CERTIFICATE"
        /\ s'.tout = s.tout
        /\ s'.early_accepted = s.early_accepted /\ s'.peer_cert = s.peer_cert
        /\ s'.handshake_key = s.handshake_key
        /\ s'.psk = s.psk /\ s'.share = s.share /\ s'.mode = s.mode /\ s'.selected = s.selected
        /\ s'.tickets = s.tickets /\ s'.resumption = s.resumption
        /\ s'.certificate_request_sent = TRUE
    <3>1. s' = [[[s EXCEPT !.state = "SERVER_CERTIFICATE"]
                    EXCEPT !.certificate_request_sent = TRUE] EXCEPT !.tr = Append(s.tr, m)]
      BY <1>5 DEF WriteCertificateRequest, ServerWrites, m
    <3>2. DOMAIN s = ServerFields
      BY <1>1
    <3> QED
      BY <3>1, <3>2 DEF ServerFields
  <2>3. ServerSide' /\ ServerKeeps /\ s.state \notin ServerSecond
    BY <1>1, <1>2, <1>5, <2>2, ServerFirstFlightStep
  <2> HIDE DEF r
  <2> QED
    BY <1>1, <1>2, <1>3, <2>1, <2>3, ServerPuts
<1> QED
  BY <1>4, <1>5

\* The server writes its Certificate.
LEMMA WriteServerCertificateStep ==
    ASSUME TlsInv, WriteServerCertificate
    PROVE  TlsInv'
<1> DEFINE m == [t |-> "certificate", cert |-> conf.s_cert]
           r == HandshakeRecord(s, m)
<1>1. /\ ServerSide /\ DOMAIN s = ServerFields /\ out.server = <<>>
      /\ s.state = "SERVER_CERTIFICATE"
      /\ s.mode = "ephemeral" => (s.certificate_request_sent <=> conf.s_authmode # "none")
  BY DEF TlsInv, ServerSide, WriteServerCertificate, CanStep, Context, ServerIsSure
<1>2. CASE conf.s_cert = "none"
  <2>1. GivesUp("server", "own certificate") /\ net' = net
    BY <1>2 DEF WriteServerCertificate
  <2> QED
    BY <2>1, GivesUpInPlace DEF Endpoints
<1>3. CASE conf.s_cert # "none"
  <2>1. ~Carries(r, "finished") /\ ServerRecordIsRight(r)
    BY DEF HandshakeRecord, Carries, ServerRecordIsRight
  <2>2. Emit("server", r) /\ UNCHANGED <<conf, c, net, failed>>
    BY <1>3 DEF WriteServerCertificate, ServerWrites
  <2> HIDE DEF m
  <2>3. /\ DOMAIN s' = ServerFields /\ s'.tr = Append(s.tr, m) /\ s'.state = "CERTIFICATE_VERIFY"
        /\ s'.tout = s.tout
        /\ s'.early_accepted = s.early_accepted /\ s'.peer_cert = s.peer_cert
        /\ s'.handshake_key = s.handshake_key
        /\ s'.psk = s.psk /\ s'.share = s.share /\ s'.mode = s.mode /\ s'.selected = s.selected
        /\ s'.tickets = s.tickets /\ s'.resumption = s.resumption
        /\ s'.certificate_request_sent = s.certificate_request_sent
    <3>1. s' = [[s EXCEPT !.state = "CERTIFICATE_VERIFY"] EXCEPT !.tr = Append(s.tr, m)]
      BY <1>3 DEF WriteServerCertificate, ServerWrites, m
    <3>2. DOMAIN s = ServerFields
      BY <1>1
    <3> QED
      BY <3>1, <3>2 DEF ServerFields
  <2>4. ServerSide' /\ ServerKeeps /\ s.state \notin ServerSecond
    BY <1>1, <2>2, <2>3, ServerFirstFlightStep
  <2> HIDE DEF r
  <2> QED
    BY <1>1, <2>1, <2>2, <2>4, ServerPuts
<1> QED
  BY <1>2, <1>3

\* The server writes its CertificateVerify.
LEMMA WriteServerCertificateVerifyStep ==
    ASSUME TlsInv, WriteServerCertificateVerify
    PROVE  TlsInv'
<1> DEFINE m == [t |-> "certificate_verify"]
           r == HandshakeRecord(s, m)
<1>1. /\ ServerSide /\ DOMAIN s = ServerFields /\ out.server = <<>>
      /\ s.state = "CERTIFICATE_VERIFY"
      /\ s.mode = "ephemeral" => (s.certificate_request_sent <=> conf.s_authmode # "none")
  BY DEF TlsInv, ServerSide, WriteServerCertificateVerify, CanStep, Context, ServerIsSure
<1>2. ~Carries(r, "finished") /\ ServerRecordIsRight(r)
  BY DEF HandshakeRecord, Carries, ServerRecordIsRight
<1>3. Emit("server", r) /\ UNCHANGED <<conf, c, net, failed>>
  BY DEF WriteServerCertificateVerify, ServerWrites
<1> HIDE DEF m
<1>4. /\ DOMAIN s' = ServerFields /\ s'.tr = Append(s.tr, m) /\ s'.state = "SERVER_FINISHED"
      /\ s'.tout = s.tout
      /\ s'.early_accepted = s.early_accepted /\ s'.peer_cert = s.peer_cert
      /\ s'.handshake_key = s.handshake_key
      /\ s'.psk = s.psk /\ s'.share = s.share /\ s'.mode = s.mode /\ s'.selected = s.selected
      /\ s'.tickets = s.tickets /\ s'.resumption = s.resumption
      /\ s'.certificate_request_sent = s.certificate_request_sent
  BY <1>1 DEF WriteServerCertificateVerify, ServerWrites, ServerFields, m
<1>5. ServerSide' /\ ServerKeeps /\ s.state \notin ServerSecond
  BY <1>1, <1>3, <1>4, ServerFirstFlightStep
<1> HIDE DEF r
<1> QED
  BY <1>1, <1>2, <1>3, <1>5, ServerPuts

\* The server's Finished: none of its own is on its way yet, and the client
\* has not verified any.
LEMMA WriteServerFinishedStep ==
    ASSUME TlsInv, WriteServerFinished
    PROVE  TlsInv'
<1> DEFINE m == [t |-> "finished"]
           key == Key("application", s.psk, s.share, Append(s.tr, m))
           r == HandshakeRecord(s, m)
<1>1. /\ QueuesAreSeqs /\ ClientSide /\ ServerSide /\ DOMAIN s = ServerFields /\ IsSeq(s.tr)
      /\ RecordsAreRight /\ PeersAgree /\ QueueIsOrdered
      /\ s.state = "SERVER_FINISHED" /\ out.server = <<>>
  BY DEF TlsInv, Joint, ServerSide, WriteServerFinished, CanStep, Context
<1>2. Emit("server", r) /\ UNCHANGED <<conf, c, net, failed>>
  BY DEF WriteServerFinished, ServerWrites
<1>3. r.over = s.tr /\ r.msg = m /\ m.t = "finished" /\ r.key = s.tout /\ r.type = "handshake"
  BY DEF HandshakeRecord, Bound
<1> HIDE DEF m
<1>4. /\ DOMAIN s' = ServerFields /\ s'.tr = Append(s.tr, m) /\ s'.application_key = key
      /\ s'.state \in {"END_OF_EARLY_DATA", "CLIENT_CERTIFICATE", "CLIENT_FINISHED"}
      /\ s'.state = "CLIENT_CERTIFICATE" => s.certificate_request_sent
      /\ s'.state = "CLIENT_FINISHED" => ~s.certificate_request_sent
      /\ s'.early_accepted = s.early_accepted /\ s'.peer_cert = s.peer_cert
      /\ s'.handshake_key = s.handshake_key
      /\ s'.psk = s.psk /\ s'.share = s.share /\ s'.mode = s.mode /\ s'.selected = s.selected
      /\ s'.tickets = s.tickets /\ s'.resumption = s.resumption
      /\ s'.certificate_request_sent = s.certificate_request_sent
  <2> HIDE DEF r
  <2> QED
    BY <1>1 DEF WriteServerFinished, ServerWrites, ServerFields, m, SecondFlight
<1>5. /\ s.state \in ServerKeyed /\ s'.state \notin ServerKeyed
      /\ s.state \notin ServerSecond /\ s'.state \in ServerSecond
      /\ s.state \notin ServerDone \cup ServerTickets /\ s'.state \notin ServerDone \cup ServerTickets
  BY <1>1, <1>4 DEF ServerKeyed, ServerSecond, ServerDone, ServerTickets
<1>6. /\ s.tout = s.handshake_key
      /\ SaysEarly(s.tr, HelloLen(s), s.early_accepted)
      /\ KeysAreOfHello(s) /\ ServerHasParameters
      /\ s.peer_cert = "none"
      /\ s.mode = "ephemeral" => (s.certificate_request_sent <=> conf.s_authmode # "none")
      /\ s.tickets = <<>>
  BY <1>1, <1>5 DEF ServerSide, ServerInFirstFlight, ServerIsSure, ServerKeyed
<1>7. ServerSide'
  <2>1. KeysAreOfHello(s)'
    BY <1>4, <1>6 DEF KeysAreOfHello
  <2>2. TicketsAreOf(s)' /\ IsSeq(s.tr)'
    <3>1. IsSeq(s'.tr)
      BY <1>1, <1>4, AppendIs
    <3>2. s'.tickets = <<>> /\ IsSeq(s'.tickets)
      BY <1>4, <1>6, SingleIs
    <3> QED
      BY <3>1, <3>2 DEF TicketsAreOf, IsSeq
  <2>3. ServerHasParameters'
    BY <1>2, <1>4, <1>6, ParametersStay
  <2>4. ServerInFirstFlight'
    BY <1>5 DEF ServerInFirstFlight, ServerKeyed
  <2>5. ServerIsSure'
    <3>1. s'.state = "CLIENT_FINISHED" /\ s'.mode = "ephemeral" => conf'.s_authmode = "none"
      BY <1>2, <1>4, <1>6
    <3> QED
      BY <1>2, <1>4, <1>5, <1>6, <3>1 DEF ServerIsSure, Satisfies
  <2> QED
    BY <1>1, <1>4, <1>5, <1>6, <2>1, <2>2, <2>3, <2>4, <2>5 DEF ServerSide
<1>8. ToClient' = Append(ToClient, r) /\ ToServer' = ToServer /\ QueuesAreSeqs'
  <2>1. DOMAIN failed' = Endpoints
    BY <1>1, <1>2 DEF QueuesAreSeqs
  <2> HIDE DEF r
  <2> QED
    BY <1>1, <1>2, <2>1, ServerEmits
<1>9. PICK q : q = r
  OBVIOUS
<1>10. ServerRecordIsRight(q)'
  <2>1. ServerFinishedIsRight(q)'
    BY <1>3, <1>4, <1>5, <1>6, <1>9 DEF ServerFinishedIsRight, SaysEarly, HelloLen
  <2> QED
    BY <1>3, <1>9, <2>1 DEF ServerRecordIsRight, Carries
<1>11. Carries(q, "finished")
  BY <1>3, <1>9 DEF Carries
<1> HIDE DEF r
<1>12. ClientStays /\ ServerStays
  BY <1>2, <1>5 DEF ClientStays, ServerStays
<1>13. RecordsAreRight'
  <2>1. ToClientMoves /\ ToServerMoves
    BY <1>8, <1>9, <1>10 DEF ToClientMoves, ToServerMoves
  <2> QED
    BY <1>1, <1>2, <1>12, <2>1, RecordsStayRight
<1>14. c.state \notin ClientSecond
  BY <1>1, <1>5 DEF PeersAgree
<1>15. PeersAgree'
  BY <1>1, <1>2, <1>5, <1>14 DEF PeersAgree
<1>16. QueueIsOrdered'
  <2>1. /\ Len(ToClient) \in Nat /\ Len(ToClient') = Len(ToClient) + 1
        /\ ToClient'[Len(ToClient) + 1] = q
        /\ \A i \in 1 .. Len(ToClient) : ToClient'[i] = ToClient[i]
        /\ ToClient' # <<>>
    BY <1>1, <1>8, <1>9, QueuesAre, AppendIs
  <2>2. \A k \in 1 .. Len(ToClient) : ~Carries(ToClient[k], "finished")
    BY <1>1, <1>5 DEF RecordsAreRight, ServerRecordIsRight, ServerFinishedIsRight
  <2>3. ASSUME NEW k \in 1 .. Len(ToClient')
        PROVE  Carries(ToClient'[k], "finished") <=> k = Len(ToClient')
    <3>1. CASE k \in 1 .. Len(ToClient)
      BY <2>1, <2>2, <3>1
    <3>2. CASE k = Len(ToClient) + 1
      BY <1>11, <2>1, <3>2
    <3> QED
      BY <2>1, <3>1, <3>2
  <2> QED
    BY <1>2, <1>5, <1>14, <2>1, <2>3 DEF QueueIsOrdered, FlightIsOrdered, TicketsAreOrdered
<1> QED
  BY <1>1, <1>2, <1>7, <1>8, <1>13, <1>15, <1>16, ClientSame DEF TlsInv, Joint

\* The operations between the server's Finished and the client's.
LEMMA ServerAfterFinished ==
    ASSUME ServerSide, conf' = conf, DOMAIN s' = ServerFields, IsSeq(s'.tr),
           s.state \in ServerSecond \ ServerDone, s'.state \in ServerSecond \ ServerDone,
           s'.early_accepted = s.early_accepted,
           s'.handshake_key = s.handshake_key, s'.application_key = s.application_key,
           s'.psk = s.psk, s'.share = s.share, s'.mode = s.mode, s'.selected = s.selected,
           s'.tickets = s.tickets, s'.resumption = s.resumption,
           ServerIsSure'
    PROVE  ServerSide' /\ ServerKeeps
<1>1. /\ s.state \notin ServerKeyed /\ s'.state \notin ServerKeyed
      /\ s.state \notin ServerTickets /\ s'.state \notin ServerTickets
      /\ s'.state \notin {"SERVER_HELLO"}
  BY DEF ServerKeyed, ServerSecond, ServerDone, ServerTickets
<1>2. s.tickets = <<>> /\ TicketsAreOf(s)' /\ IsSeq(s.tr)'
  BY <1>1, SingleIs DEF ServerSide, TicketsAreOf, IsSeq
<1>3. ServerHasParameters'
  BY ParametersStay DEF ServerSide
<1>4. KeysAreOfHello(s)'
  BY DEF ServerSide, KeysAreOfHello
<1>5. ServerInFirstFlight'
  BY <1>1 DEF ServerInFirstFlight, ServerKeyed
<1>6. ServerKeeps
  BY <1>1 DEF ServerKeeps
<1> QED
  BY <1>1, <1>2, <1>3, <1>4, <1>5, <1>6 DEF ServerSide

\* The server reads the end of the early data.
LEMMA ProcessEndOfEarlyDataStep ==
    ASSUME TlsInv, ProcessEndOfEarlyData
    PROVE  TlsInv'
<1> DEFINE m == Message("server")
<1>1. /\ ServerSide /\ DOMAIN s = ServerFields /\ IsSeq(s.tr) /\ net.server # <<>>
  BY ServerReceives DEF TlsInv, ServerSide, ProcessEndOfEarlyData
<1>2. s.state = "END_OF_EARLY_DATA"
  <2>1. /\ s.state \in DOMAIN ServerWaits /\ "end_of_early_data" \in ServerWaits[s.state]
    BY ServerReceives DEF ProcessEndOfEarlyData
  <2> QED
    BY <2>1 DEF ServerWaits
<1>3. Consume("server") /\ UNCHANGED <<conf, c, out, failed>>
  BY DEF ProcessEndOfEarlyData, ServerReads
<1> HIDE DEF m
<1>4. /\ DOMAIN s' = ServerFields /\ s'.tr = Append(s.tr, m)
      /\ s'.state \in {"CLIENT_CERTIFICATE", "CLIENT_FINISHED"}
      /\ s'.state = "CLIENT_CERTIFICATE" => s.certificate_request_sent
      /\ s'.state = "CLIENT_FINISHED" => ~s.certificate_request_sent
      /\ s'.early_accepted = s.early_accepted /\ s'.peer_cert = s.peer_cert
      /\ s'.handshake_key = s.handshake_key /\ s'.application_key = s.application_key
      /\ s'.psk = s.psk /\ s'.share = s.share /\ s'.mode = s.mode /\ s'.selected = s.selected
      /\ s'.tickets = s.tickets /\ s'.resumption = s.resumption
      /\ s'.certificate_request_sent = s.certificate_request_sent
  BY <1>1 DEF ProcessEndOfEarlyData, ServerReads, ServerFields, m, SecondFlight
<1>5. ServerIsSure'
  <2>1. /\ s.peer_cert = "none"
        /\ s.mode = "ephemeral" => (s.certificate_request_sent <=> conf.s_authmode # "none")
    BY <1>1, <1>2 DEF ServerSide, ServerIsSure, ServerDone, ServerTickets
  <2> QED
    BY <1>3, <1>4, <2>1 DEF ServerIsSure, Satisfies, ServerSecond, ServerDone, ServerTickets
<1>6. s.state \in ServerSecond \ ServerDone /\ s'.state \in ServerSecond \ ServerDone
  BY <1>2, <1>4 DEF ServerSecond, ServerDone, ServerTickets
<1>7. IsSeq(s'.tr)
  BY <1>1, <1>4, AppendIs
<1>8. ServerSide' /\ ServerKeeps
  BY <1>1, <1>3, <1>4, <1>5, <1>6, <1>7, ServerAfterFinished
<1> QED
  BY <1>1, <1>3, <1>8, ServerTakes

\* The server reads the client's Certificate and fails if it requires a good
\* one and there is none.
LEMMA ProcessClientCertificateStep ==
    ASSUME TlsInv, ProcessClientCertificate
    PROVE  TlsInv'
<1> DEFINE m == Message("server")
<1>1. /\ ServerSide /\ DOMAIN s = ServerFields /\ IsSeq(s.tr) /\ net.server # <<>>
      /\ m.cert = conf.c_cert
  BY ServerReceives DEF TlsInv, ServerSide, ProcessClientCertificate, ClientRecordIsRight
<1>2. s.state = "CLIENT_CERTIFICATE"
  <2>1. /\ s.state \in DOMAIN ServerWaits /\ "certificate" \in ServerWaits[s.state]
    BY ServerReceives DEF ProcessClientCertificate
  <2> QED
    BY <2>1 DEF ServerWaits
<1>3. CASE Refuses("server", "peer certificate")
  BY <1>1, <1>3, ServerRefuses
<1>4. CASE ~Refuses("server", "peer certificate")
  <2>1. Consume("server") /\ UNCHANGED <<conf, c, out, failed>> /\ Accepts(conf.s_authmode, m.cert)
    BY <1>4 DEF ProcessClientCertificate, ServerReads
  <2> HIDE DEF m
  <2>2. /\ DOMAIN s' = ServerFields /\ s'.tr = Append(s.tr, m)
        /\ s'.state \in {"CLIENT_CERTIFICATE_VERIFY", "CLIENT_FINISHED"}
        /\ s'.early_accepted = s.early_accepted /\ s'.peer_cert = m.cert
        /\ s'.handshake_key = s.handshake_key /\ s'.application_key = s.application_key
        /\ s'.psk = s.psk /\ s'.share = s.share /\ s'.mode = s.mode /\ s'.selected = s.selected
        /\ s'.tickets = s.tickets /\ s'.resumption = s.resumption
    <3>1. s' = [s EXCEPT !.peer_cert = m.cert, !.tr = Append(@, m), !.discard = "NO_DISCARD",
                         !.state = IF m.cert = "none" THEN "CLIENT_FINISHED"
                                   ELSE "CLIENT_CERTIFICATE_VERIFY"]
      BY <1>4 DEF ProcessClientCertificate, ServerReads, m
    <3>2. DOMAIN s = ServerFields
      BY <1>1
    <3> QED
      BY <3>1, <3>2 DEF ServerFields
  <2>3. ServerIsSure'
    <3>1. s.mode = "ephemeral" => conf.s_authmode # "none"
      BY <1>1, <1>2 DEF ServerSide, ServerIsSure
    <3> QED
      BY <1>1, <2>1, <2>2, <3>1
         DEF ServerIsSure, Satisfies, Accepts, ServerSecond, ServerDone, ServerTickets
  <2>4. s.state \in ServerSecond \ ServerDone /\ s'.state \in ServerSecond \ ServerDone
    BY <1>2, <2>2 DEF ServerSecond, ServerDone, ServerTickets
  <2>5. IsSeq(s'.tr)
    BY <1>1, <2>2, AppendIs
  <2>6. ServerSide' /\ ServerKeeps
    BY <1>1, <2>1, <2>2, <2>3, <2>4, <2>5, ServerAfterFinished
  <2> QED
    BY <1>1, <2>1, <2>6, ServerTakes
<1> QED
  BY <1>3, <1>4

\* The server reads the client's CertificateVerify.
LEMMA ProcessClientCertificateVerifyStep ==
    ASSUME TlsInv, ProcessClientCertificateVerify
    PROVE  TlsInv'
<1> DEFINE m == Message("server")
<1>1. /\ ServerSide /\ DOMAIN s = ServerFields /\ IsSeq(s.tr) /\ net.server # <<>>
  BY ServerReceives DEF TlsInv, ServerSide, ProcessClientCertificateVerify
<1>2. s.state = "CLIENT_CERTIFICATE_VERIFY"
  <2>1. /\ s.state \in DOMAIN ServerWaits /\ "certificate_verify" \in ServerWaits[s.state]
    BY ServerReceives DEF ProcessClientCertificateVerify
  <2> QED
    BY <2>1 DEF ServerWaits
<1>3. CASE Refuses("server", "signature")
  BY <1>1, <1>3, ServerRefuses
<1>4. CASE ~Refuses("server", "signature")
  <2>1. Consume("server") /\ UNCHANGED <<conf, c, out, failed>>
    BY <1>4 DEF ProcessClientCertificateVerify, ServerReads
  <2> HIDE DEF m
  <2>2. /\ DOMAIN s' = ServerFields /\ s'.tr = Append(s.tr, m)
        /\ s'.state = "CLIENT_FINISHED"
        /\ s'.early_accepted = s.early_accepted /\ s'.peer_cert = s.peer_cert
        /\ s'.handshake_key = s.handshake_key /\ s'.application_key = s.application_key
        /\ s'.psk = s.psk /\ s'.share = s.share /\ s'.mode = s.mode /\ s'.selected = s.selected
        /\ s'.tickets = s.tickets /\ s'.resumption = s.resumption
    <3>1. s' = [s EXCEPT !.tr = Append(@, m), !.state = "CLIENT_FINISHED"]
      BY <1>4 DEF ProcessClientCertificateVerify, ServerReads, m
    <3>2. DOMAIN s = ServerFields
      BY <1>1
    <3> QED
      BY <3>1, <3>2 DEF ServerFields
  <2>3. ServerIsSure'
    <3>1. s.mode = "ephemeral" =>
            /\ Satisfies(s.peer_cert, conf.s_authmode)
            /\ s.peer_cert = IF conf.s_authmode = "none" THEN "none" ELSE conf.c_cert
      BY <1>1, <1>2 DEF ServerSide, ServerIsSure
    <3> QED
      BY <2>1, <2>2, <3>1
         DEF ServerIsSure, Satisfies, ServerSecond, ServerDone, ServerTickets
  <2>4. s.state \in ServerSecond \ ServerDone /\ s'.state \in ServerSecond \ ServerDone
    BY <1>2, <2>2 DEF ServerSecond, ServerDone, ServerTickets
  <2>5. IsSeq(s'.tr)
    BY <1>1, <2>2, AppendIs
  <2>6. ServerSide' /\ ServerKeeps
    BY <1>1, <2>1, <2>2, <2>3, <2>4, <2>5, ServerAfterFinished
  <2> QED
    BY <1>1, <2>1, <2>6, ServerTakes
<1> QED
  BY <1>3, <1>4

\* The client's Finished was written by a client that is done, over the
\* messages the server hashed.
LEMMA ProcessClientFinishedStep ==
    ASSUME TlsInv, ProcessClientFinished
    PROVE  TlsInv'
<1> DEFINE r == Head(net.server)
           m == Message("server")
           tr == Append(s.tr, m)
<1>1. /\ QueuesAreSeqs /\ ClientSide /\ ServerSide /\ DOMAIN s = ServerFields /\ IsSeq(s.tr)
      /\ RecordsAreRight /\ PeersAgree /\ QueueIsOrdered
      /\ net.server # <<>> /\ r.msg = m
      /\ Carries(r, "finished") /\ ClientRecordIsRight(r)
  BY ServerReceives DEF TlsInv, Joint, ServerSide, ProcessClientFinished
<1>2. s.state = "CLIENT_FINISHED"
  <2>1. /\ s.state \in DOMAIN ServerWaits /\ "finished" \in ServerWaits[s.state]
    BY ServerReceives DEF ProcessClientFinished
  <2> QED
    BY <2>1 DEF ServerWaits
<1>3. CASE Refuses("server", "finished")
  BY <1>1, <1>3, ServerRefuses
<1>4. CASE ~Refuses("server", "finished")
  <2>1. Consume("server") /\ UNCHANGED <<conf, c, out, failed>> /\ r.over = s.tr
    BY <1>4 DEF ProcessClientFinished, ServerReads
  <2>2. c.state \in ClientDone /\ c.tr = tr
    BY <1>1, <2>1 DEF ClientRecordIsRight
  <2>3. IsSeq(tr)
    BY <1>1, AppendIs
  <2> HIDE DEF r, m, tr
  <2>4. /\ DOMAIN s' = ServerFields /\ s'.tr = tr /\ s'.state = "HANDSHAKE_WRAPUP"
        /\ s'.resumption = Key("resumption", s.psk, s.share, tr)
        /\ s'.early_accepted = s.early_accepted /\ s'.peer_cert = s.peer_cert
        /\ s'.handshake_key = s.handshake_key /\ s'.application_key = s.application_key
        /\ s'.psk = s.psk /\ s'.share = s.share /\ s'.mode = s.mode /\ s'.selected = s.selected
        /\ s'.tickets = s.tickets
    <3>1. s' = [s EXCEPT !.tr = tr, !.discard = "NO_DISCARD",
                         !.resumption = Key("resumption", s.psk, s.share, tr),
                         !.state = "HANDSHAKE_WRAPUP"]
      BY <1>4 DEF ProcessClientFinished, ServerReads, tr, m
    <3>2. DOMAIN s = ServerFields
      BY <1>1
    <3> QED
      BY <3>1, <3>2 DEF ServerFields
  <2>5. /\ s.state \in ServerSecond /\ s.state \notin ServerDone /\ s.state \notin ServerTickets
        /\ s'.state \in ServerSecond /\ s'.state \in ServerDone /\ s'.state \notin ServerTickets
        /\ s'.state \notin ServerKeyed
    BY <1>2, <2>4 DEF ServerSecond, ServerDone, ServerTickets, ServerKeyed
  <2>6. ServerSide'
    <3>1. KeysAreOfHello(s)'
      BY <1>1, <2>4, <2>5 DEF ServerSide, KeysAreOfHello
    <3>2. TicketsAreOf(s)' /\ IsSeq(s.tr)' /\ s'.tickets = <<>>
      BY <1>1, <2>3, <2>4, <2>5, SingleIs DEF ServerSide, TicketsAreOf, IsSeq
    <3>3. ServerHasParameters'
      BY <1>1, <2>1, <2>4, <2>5, ParametersStay DEF ServerSide
    <3>4. ServerInFirstFlight'
      BY <2>5 DEF ServerInFirstFlight, ServerKeyed
    <3>5. ServerIsSure'
      <4>1. s.mode = "ephemeral" =>
              /\ Satisfies(s.peer_cert, conf.s_authmode)
              /\ s.peer_cert = IF conf.s_authmode = "none" THEN "none" ELSE conf.c_cert
        BY <1>1, <1>2 DEF ServerSide, ServerIsSure
      <4> QED
        BY <2>1, <2>4, <2>5, <4>1 DEF ServerIsSure, Satisfies
    <3> QED
      BY <1>1, <2>4, <2>5, <3>1, <3>2, <3>3, <3>4, <3>5 DEF ServerSide
  <2>7. ToClient' = ToClient /\ ToServer # <<>> /\ ToServer' = Tail(ToServer) /\ QueuesAreSeqs'
    <3>1. DOMAIN failed' = Endpoints
      BY <1>1, <2>1 DEF QueuesAreSeqs
    <3> QED
      BY <1>1, <2>1, <3>1, ServerConsumes
  <2>8. ClientStays /\ ServerStays
    BY <2>1, <2>4, <2>5 DEF ClientStays, ServerStays
  <2>9. RecordsAreRight'
    BY <1>1, <2>1, <2>7, <2>8, RecordsStayRight DEF ToClientMoves, ToServerMoves
  <2>10. PeersAgree'
    BY <1>1, <2>1, <2>2, <2>4, <2>5 DEF PeersAgree
  <2>11. QueueIsOrdered'
    BY <1>1, <2>1, <2>5, <2>7 DEF QueueIsOrdered, FlightIsOrdered, TicketsAreOrdered
  <2> QED
    BY <1>1, <2>1, <2>6, <2>7, <2>9, <2>10, <2>11, ClientSame DEF TlsInv, Joint
<1> QED
  BY <1>3, <1>4

\* The operations of a server that is done, which may add a ticket.
LEMMA ServerDoneStep ==
    ASSUME ServerSide, conf' = conf, DOMAIN s' = ServerFields,
           s.state \in ServerDone, s'.state \in ServerTickets,
           s'.tr = s.tr, s'.early_accepted = s.early_accepted, s'.peer_cert = s.peer_cert,
           s'.handshake_key = s.handshake_key, s'.application_key = s.application_key,
           s'.psk = s.psk, s'.share = s.share, s'.mode = s.mode, s'.selected = s.selected,
           s'.resumption = s.resumption,
           s'.tin = s.application_key, s'.tout = s.application_key,
           \/ s'.tickets = s.tickets
           \/ s'.tickets = Append(s.tickets, [secret |-> s.resumption,
                                              nonce |-> Len(s.tickets) + 1])
    PROVE  ServerSide' /\ ServerStays
<1>1. /\ s.state \in ServerSecond /\ s'.state \in ServerSecond /\ s'.state \in ServerDone
      /\ s'.state \notin ServerKeyed /\ s'.state # "SERVER_HELLO"
  BY DEF ServerSecond, ServerDone, ServerTickets, ServerKeyed
<1>2. KeysAreOfHello(s)'
  BY <1>1 DEF ServerSide, KeysAreOfHello
<1>3. ServerHasParameters'
  BY <1>1, ParametersStay DEF ServerSide
<1>4. ServerInFirstFlight'
  BY <1>1 DEF ServerInFirstFlight, ServerKeyed
<1>5. ServerIsSure'
  <2>1. s.mode = "ephemeral" =>
          /\ Satisfies(s.peer_cert, conf.s_authmode)
          /\ s.peer_cert = IF conf.s_authmode = "none" THEN "none" ELSE conf.c_cert
    BY <1>1 DEF ServerSide, ServerIsSure
  <2>2. s'.state \notin {"SERVER_CERTIFICATE", "CERTIFICATE_VERIFY", "SERVER_FINISHED",
                         "END_OF_EARLY_DATA", "CLIENT_CERTIFICATE"}
    BY DEF ServerTickets
  <2> QED
    BY <1>1, <2>1, <2>2 DEF ServerIsSure, Satisfies
<1>6. TicketsAreOf(s)'
  <2>1. TicketsAreOf(s)
    BY DEF ServerSide
  <2>2. CASE s'.tickets = s.tickets
    BY <2>1, <2>2 DEF TicketsAreOf, IsSeq
  <2> DEFINE x == [secret |-> s.resumption, nonce |-> Len(s.tickets) + 1]
  <2>3. CASE s'.tickets = Append(s.tickets, x)
    <3>1. x = [secret |-> s'.resumption, nonce |-> Len(s.tickets) + 1]
      OBVIOUS
    <3> HIDE DEF x
    <3>2. /\ IsSeq(s'.tickets) /\ Len(s.tickets) \in Nat
          /\ Len(s'.tickets) = Len(s.tickets) + 1
          /\ s'.tickets[Len(s.tickets) + 1] = x
          /\ \A i \in 1 .. Len(s.tickets) : s'.tickets[i] = s.tickets[i]
      BY <2>1, <2>3, AppendIs DEF TicketsAreOf
    <3>3. IsSeq(s.tickets)'
      BY <3>2 DEF IsSeq
    <3>4. ASSUME NEW k \in 1 .. Len(s'.tickets)
          PROVE  s'.tickets[k] = [secret |-> s'.resumption, nonce |-> k]
      <4>1. CASE k \in 1 .. Len(s.tickets)
        BY <2>1, <3>2, <4>1 DEF TicketsAreOf
      <4>2. CASE k = Len(s.tickets) + 1
        BY <3>1, <3>2, <4>2
      <4> QED
        BY <3>2, <4>1, <4>2
    <3> QED
      BY <3>3, <3>4 DEF TicketsAreOf
  <2> QED
    BY <2>2, <2>3
<1>7. IsSeq(s.tr)'
  BY DEF ServerSide, IsSeq
<1>8. ServerStays
  BY <1>1 DEF ServerStays
<1> QED
  BY <1>1, <1>2, <1>3, <1>4, <1>5, <1>6, <1>7, <1>8 DEF ServerSide

\* The server wraps its handshake up.
LEMMA ServerHandshakeWrapupStep ==
    ASSUME TlsInv, ServerHandshakeWrapup
    PROVE  TlsInv'
<1>1. /\ QueuesAreSeqs /\ ClientSide /\ ServerSide /\ DOMAIN s = ServerFields
      /\ RecordsAreRight /\ PeersAgree /\ QueueIsOrdered
      /\ s.state = "HANDSHAKE_WRAPUP"
  BY DEF TlsInv, Joint, ServerSide, ServerHandshakeWrapup, CanStep, Context
<1>2. UNCHANGED <<conf, c, out, net, failed>>
  BY DEF ServerHandshakeWrapup
<1>3. /\ DOMAIN s' = ServerFields /\ s'.tr = s.tr
      /\ s'.state \in {"NEW_SESSION_TICKET", "HANDSHAKE_OVER"}
      /\ s'.tin = s.application_key /\ s'.tout = s.application_key
      /\ s'.early_accepted = s.early_accepted /\ s'.peer_cert = s.peer_cert
      /\ s'.handshake_key = s.handshake_key /\ s'.application_key = s.application_key
      /\ s'.psk = s.psk /\ s'.share = s.share /\ s'.mode = s.mode /\ s'.selected = s.selected
      /\ s'.tickets = s.tickets /\ s'.resumption = s.resumption
  BY <1>1 DEF ServerHandshakeWrapup, ServerFields
<1>4. /\ s.state \in ServerDone /\ s.state \in ServerSecond /\ s.state \notin ServerTickets
      /\ s'.state \in ServerDone /\ s'.state \in ServerSecond /\ s'.state \in ServerTickets
  BY <1>1, <1>3 DEF ServerSecond, ServerDone, ServerTickets
<1>5. ServerSide' /\ ServerStays
  BY <1>1, <1>2, <1>3, <1>4, ServerDoneStep
<1>6. ToClient' = ToClient /\ ToServer' = ToServer /\ QueuesAreSeqs'
  <2>1. DOMAIN failed' = Endpoints
    BY <1>1, <1>2 DEF QueuesAreSeqs
  <2> QED
    BY <1>1, <1>2, <2>1, NothingMoves
<1>7. ClientStays
  BY <1>2 DEF ClientStays
<1>8. RecordsAreRight'
  BY <1>1, <1>2, <1>5, <1>6, <1>7, RecordsStayRight DEF ToClientMoves, ToServerMoves
<1>9. c.state \in ClientSecond /\ c.tickets = <<>> /\ s.tickets = <<>>
  BY <1>1, <1>4 DEF PeersAgree, ServerSide, ClientSecond
<1>10. PeersAgree'
  BY <1>1, <1>2, <1>3, <1>4 DEF PeersAgree
<1>11. QueueIsOrdered'
  <2>1. failed.client = "no" => ToClient = <<>>
    BY <1>1, <1>4, <1>9 DEF QueueIsOrdered, FlightIsOrdered
  <2>2. ASSUME failed'.client = "no" PROVE FlightIsOrdered' /\ TicketsAreOrdered'
    <3>1. ToClient' = <<>> /\ s'.tickets = <<>> /\ c'.tickets = <<>>
      BY <1>2, <1>3, <1>6, <1>9, <2>1, <2>2
    <3>2. Len(s'.tickets) = Len(c'.tickets) + Len(ToClient')
      BY <3>1
    <3>3. 1 .. Len(ToClient') = {}
      BY <3>1
    <3> QED
      BY <1>4, <3>2, <3>3 DEF FlightIsOrdered, TicketsAreOrdered
  <2> QED
    BY <2>2 DEF QueueIsOrdered
<1> QED
  BY <1>1, <1>2, <1>5, <1>6, <1>8, <1>10, <1>11, ClientSame DEF TlsInv, Joint

\* The server writes a ticket.
LEMMA WriteNewSessionTicketStep ==
    ASSUME TlsInv, WriteNewSessionTicket
    PROVE  TlsInv'
<1> DEFINE n == Len(s.tickets) + 1
           m == [t |-> "new_session_ticket", nonce |-> n]
           r == HandshakeRecord(s, m)
<1>1. /\ QueuesAreSeqs /\ ClientSide /\ ServerSide /\ DOMAIN s = ServerFields
      /\ RecordsAreRight /\ PeersAgree /\ QueueIsOrdered
      /\ s.state = "NEW_SESSION_TICKET" /\ out.server = <<>>
      /\ IsSeq(s.tickets)
  BY DEF TlsInv, Joint, ServerSide, WriteNewSessionTicket, CanStep, Context, TicketsAreOf
<1>2. /\ s.state \in ServerDone /\ s.state \in ServerSecond /\ s.state \in ServerTickets
  BY <1>1 DEF ServerSecond, ServerDone, ServerTickets
<1>3. s.tin = s.application_key /\ s.tout = s.application_key
  BY <1>1, <1>2 DEF ServerSide
<1>4. UNCHANGED <<conf, c, net, failed>>
  BY DEF WriteNewSessionTicket
<1>5. CASE s' = [s EXCEPT !.state = "HANDSHAKE_OVER"] /\ out' = out
  <2>1. /\ DOMAIN s' = ServerFields /\ s'.tr = s.tr
        /\ s'.state = "HANDSHAKE_OVER"
        /\ s'.tin = s.tin /\ s'.tout = s.tout
        /\ s'.early_accepted = s.early_accepted /\ s'.peer_cert = s.peer_cert
        /\ s'.handshake_key = s.handshake_key /\ s'.application_key = s.application_key
        /\ s'.psk = s.psk /\ s'.share = s.share /\ s'.mode = s.mode /\ s'.selected = s.selected
        /\ s'.tickets = s.tickets /\ s'.resumption = s.resumption
    BY <1>1, <1>5 DEF ServerFields
  <2>2. s'.state \in ServerTickets /\ s'.state \in ServerDone /\ s'.state \in ServerSecond
    BY <2>1 DEF ServerTickets, ServerDone, ServerSecond
  <2>3. ServerSide'
    BY <1>1, <1>2, <1>3, <1>4, <2>1, <2>2, ServerDoneStep
  <2>4. ServerKeeps
    BY <1>2, <2>1, <2>2 DEF ServerKeeps
  <2> QED
    BY <1>4, <1>5, <2>3, <2>4, ServerAlone
<1>6. CASE /\ Emit("server", r)
           /\ s' = [s EXCEPT !.tickets = Append(s.tickets, [secret |-> s.resumption,
                                                            nonce |-> n]),
                             !.count = IF s.resume THEN 0 ELSE s.count - 1,
                             !.state = "NEW_SESSION_TICKET_FLUSH"]
  <2>1. /\ DOMAIN s' = ServerFields /\ s'.tr = s.tr
        /\ s'.state = "NEW_SESSION_TICKET_FLUSH"
        /\ s'.tin = s.tin /\ s'.tout = s.tout
        /\ s'.early_accepted = s.early_accepted /\ s'.peer_cert = s.peer_cert
        /\ s'.handshake_key = s.handshake_key /\ s'.application_key = s.application_key
        /\ s'.psk = s.psk /\ s'.share = s.share /\ s'.mode = s.mode /\ s'.selected = s.selected
        /\ s'.tickets = Append(s.tickets, [secret |-> s.resumption, nonce |-> n])
        /\ s'.resumption = s.resumption
    BY <1>1, <1>6 DEF ServerFields
  <2>2. s'.state \in ServerTickets /\ s'.state \in ServerDone /\ s'.state \in ServerSecond
    BY <2>1 DEF ServerTickets, ServerDone, ServerSecond
  <2>3. ServerSide' /\ ServerStays
    BY <1>1, <1>2, <1>3, <1>4, <2>1, <2>2, ServerDoneStep
  <2>4. ToClient' = Append(ToClient, r) /\ ToServer' = ToServer /\ QueuesAreSeqs'
    <3>1. DOMAIN failed' = Endpoints
      BY <1>1, <1>4 DEF QueuesAreSeqs
    <3> HIDE DEF r
    <3> QED
      BY <1>1, <1>4, <1>6, <3>1, ServerEmits
  <2>5. PICK q : q = r
    OBVIOUS
  <2>6. q.type = "handshake" /\ q.msg = m /\ m.t = "new_session_ticket"
    BY <2>5 DEF HandshakeRecord
  <2>7. ServerRecordIsRight(q)'
    BY <2>6 DEF ServerRecordIsRight, Carries
  <2>8. ClientStays
    BY <1>4 DEF ClientStays
  <2> HIDE DEF r
  <2>9. RecordsAreRight'
    <3>1. ToClientMoves /\ ToServerMoves
      BY <2>4, <2>5, <2>7 DEF ToClientMoves, ToServerMoves
    <3> QED
      BY <1>1, <1>4, <2>3, <2>8, <3>1, RecordsStayRight
  <2>10. PeersAgree'
    BY <1>1, <1>2, <1>4, <2>1, <2>2 DEF PeersAgree
  <2>11. QueueIsOrdered'
    <3> SUFFICES ASSUME failed'.client = "no" PROVE FlightIsOrdered' /\ TicketsAreOrdered'
      BY DEF QueueIsOrdered
    <3>1. FlightIsOrdered'
      BY <2>2 DEF FlightIsOrdered
    <3>2. /\ Len(ToClient) \in Nat /\ Len(ToClient') = Len(ToClient) + 1
          /\ ToClient'[Len(ToClient) + 1] = q
          /\ \A i \in 1 .. Len(ToClient) : ToClient'[i] = ToClient[i]
      BY <1>1, <2>4, <2>5, QueuesAre, AppendIs
    <3>3. Len(s.tickets) \in Nat /\ Len(s'.tickets) = Len(s.tickets) + 1
      BY <1>1, <2>1, AppendIs
    <3>4. IsSeq(c.tickets) /\ Len(c.tickets) \in Nat
      <4>1. IsSeq(c.tickets)
        BY <1>1 DEF ClientSide, TicketsAreOf
      <4> QED
        BY <4>1, AppendIs
    <3>5. /\ Len(s.tickets) = Len(c.tickets) + Len(ToClient)
          /\ \A k \in 1 .. Len(ToClient) :
               /\ ToClient[k].type = "handshake"
               /\ ToClient[k].msg = [t |-> "new_session_ticket", nonce |-> Len(c.tickets) + k]
      BY <1>1, <1>2, <1>4 DEF QueueIsOrdered, TicketsAreOrdered
    <3> DEFINE a == Len(s.tickets)
               b == Len(c.tickets)
               l == Len(ToClient)
    <3>6. a \in Nat /\ b \in Nat /\ l \in Nat /\ a = b + l /\ Len(s'.tickets) = a + 1
          /\ Len(ToClient') = l + 1 /\ c'.tickets = c.tickets /\ Len(c'.tickets) = b /\ n = a + 1
      BY <1>4, <3>2, <3>3, <3>4, <3>5
    <3> HIDE DEF a, b, l, n
    <3>7. Len(s'.tickets) = Len(c'.tickets) + Len(ToClient') /\ n = b + (l + 1)
      BY <3>6
    <3>8. ASSUME NEW k \in 1 .. Len(ToClient')
          PROVE  /\ ToClient'[k].type = "handshake"
                 /\ ToClient'[k].msg = [t |-> "new_session_ticket", nonce |-> Len(c'.tickets) + k]
      <4>1. CASE k \in 1 .. Len(ToClient)
        BY <3>2, <3>5, <3>6, <4>1 DEF b
      <4>2. CASE k = l + 1
        BY <2>6, <3>2, <3>6, <3>7, <4>2 DEF l
      <4>3. k \in 1 .. l \/ k = l + 1
        BY <3>6
      <4> QED
        BY <4>1, <4>2, <4>3 DEF l
    <3>9. TicketsAreOrdered'
      BY <3>7, <3>8 DEF TicketsAreOrdered
    <3> QED
      BY <3>1, <3>9
  <2> QED
    BY <1>1, <1>4, <2>3, <2>4, <2>9, <2>10, <2>11, ClientSame DEF TlsInv, Joint
<1>7. \/ s' = [s EXCEPT !.state = "HANDSHAKE_OVER"] /\ out' = out
      \/ /\ Emit("server", r)
         /\ s' = [s EXCEPT !.tickets = Append(s.tickets, [secret |-> s.resumption,
                                                          nonce |-> n]),
                           !.count = IF s.resume THEN 0 ELSE s.count - 1,
                           !.state = "NEW_SESSION_TICKET_FLUSH"]
  BY <1>1 DEF WriteNewSessionTicket, ServerFields
<1> QED
  BY <1>5, <1>6, <1>7

\* The server flushes a ticket and goes on to the next.
LEMMA ServerNewSessionTicketFlushStep ==
    ASSUME TlsInv, ServerNewSessionTicketFlush
    PROVE  TlsInv'
<1>1. ServerSide /\ DOMAIN s = ServerFields /\ s.state = "NEW_SESSION_TICKET_FLUSH"
  BY DEF TlsInv, ServerSide, ServerNewSessionTicketFlush, CanStep, Context
<1>2. s.tin = s.application_key /\ s.tout = s.application_key
  BY <1>1 DEF ServerSide, ServerTickets
<1>3. UNCHANGED <<conf, c, out, net, failed>>
  BY DEF ServerNewSessionTicketFlush
<1>4. /\ DOMAIN s' = ServerFields /\ s'.tr = s.tr
      /\ s'.state \in {"NEW_SESSION_TICKET", "HANDSHAKE_OVER"}
      /\ s'.tin = s.tin /\ s'.tout = s.tout
      /\ s'.early_accepted = s.early_accepted /\ s'.peer_cert = s.peer_cert
      /\ s'.handshake_key = s.handshake_key /\ s'.application_key = s.application_key
      /\ s'.psk = s.psk /\ s'.share = s.share /\ s'.mode = s.mode /\ s'.selected = s.selected
      /\ s'.tickets = s.tickets /\ s'.resumption = s.resumption
  BY <1>1 DEF ServerNewSessionTicketFlush, ServerFields
<1>5. /\ s.state \in ServerDone /\ s.state \in ServerSecond /\ s.state \in ServerTickets
      /\ s'.state \in ServerDone /\ s'.state \in ServerSecond /\ s'.state \in ServerTickets
  BY <1>1, <1>4 DEF ServerSecond, ServerDone, ServerTickets
<1>6. ServerSide'
  BY <1>1, <1>2, <1>3, <1>4, <1>5, ServerDoneStep
<1>7. ServerKeeps
  BY <1>4, <1>5 DEF ServerKeeps
<1> QED
  BY <1>3, <1>6, <1>7, ServerAlone

-----------------------------------------------------------------------------
(* What both sides do.                                                     *)

\* Early data that is skipped or read is only counted.
LEMMA ServerCountsEarlyData ==
    ASSUME TlsInv, NEW len, s' = [s EXCEPT !.total = s.total + len], net.server # <<>>,
           Consume("server"), UNCHANGED <<conf, c, out, failed>>
    PROVE  TlsInv'
<1>1. ServerSide /\ DOMAIN s = ServerFields
  BY DEF TlsInv, ServerSide
<1>2. /\ DOMAIN s' = ServerFields /\ s'.tr = s.tr /\ s'.state = s.state
      /\ s'.tin = s.tin /\ s'.tout = s.tout
      /\ s'.early_accepted = s.early_accepted /\ s'.peer_cert = s.peer_cert
      /\ s'.handshake_key = s.handshake_key /\ s'.application_key = s.application_key
      /\ s'.certificate_request_sent = s.certificate_request_sent
      /\ s'.psk = s.psk /\ s'.share = s.share /\ s'.mode = s.mode /\ s'.selected = s.selected
      /\ s'.tickets = s.tickets /\ s'.resumption = s.resumption
  BY <1>1 DEF ServerFields
<1>3. ServerKeeps
  BY <1>2 DEF ServerKeeps
<1>4. ServerSide'
  <2>1. ServerHasParameters => ServerHasParameters'
    BY <1>2, ParametersStay
  <2>2. (ServerInFirstFlight /\ ServerIsSure)'
    BY <1>1, <1>2 DEF ServerSide, ServerInFirstFlight, ServerIsSure, Satisfies, SaysEarly, HelloLen
  <2>3. (KeysAreOfHello(s) => KeysAreOfHello(s)') /\ TicketsAreOf(s)' /\ IsSeq(s.tr)'
    BY <1>1, <1>2 DEF ServerSide, KeysAreOfHello, TicketsAreOf, IsSeq
  <2> QED
    BY <1>1, <1>2, <2>1, <2>2, <2>3 DEF ServerSide
<1> QED
  BY <1>3, <1>4, ServerTakes

\* A server that rejected early data skips a record of it.
LEMMA SkipEarlyDataStep ==
    ASSUME TlsInv, SkipEarlyData
    PROVE  TlsInv'
<1>1. net.server # <<>> /\ DOMAIN s = ServerFields
  BY DEF TlsInv, ServerSide, SkipEarlyData, Reading
<1>2. CASE Refuses("server", "early data limit")
  BY <1>1, <1>2, ServerRefuses
<1>3. CASE ~Refuses("server", "early data limit")
  <2>1. /\ s' = [s EXCEPT !.total = s.total + (1 + Overhead)]
        /\ Consume("server") /\ UNCHANGED <<conf, c, out, failed>>
    BY <1>1, <1>3 DEF SkipEarlyData, ServerFields
  <2> QED
    BY <1>1, <2>1, ServerCountsEarlyData
<1> QED
  BY <1>2, <1>3

\* A server that accepted early data reads some.
LEMMA ReadEarlyDataStep ==
    ASSUME TlsInv, ReadEarlyData
    PROVE  TlsInv'
<1>1. net.server # <<>> /\ DOMAIN s = ServerFields
  BY DEF TlsInv, ServerSide, ReadEarlyData, Reading
<1>2. CASE Refuses("server", "early data limit")
  BY <1>1, <1>2, ServerRefuses
<1>3. CASE ~Refuses("server", "early data limit")
  <2>1. /\ s' = [s EXCEPT !.total = s.total + 1]
        /\ Consume("server") /\ UNCHANGED <<conf, c, out, failed>>
    BY <1>1, <1>3 DEF ReadEarlyData, ServerFields
  <2> QED
    BY <1>1, <2>1, ServerCountsEarlyData
<1> QED
  BY <1>2, <1>3

\* A client that verified the server's Finished meets no ChangeCipherSpec.
LEMMA DropCcsStep ==
    ASSUME TlsInv, NEW e \in Endpoints, DropCcs(e)
    PROVE  TlsInv'
<1>1. /\ QueuesAreSeqs /\ ClientSide /\ ServerSide /\ RecordsAreRight /\ PeersAgree
      /\ QueueIsOrdered
  BY DEF TlsInv, Joint
<1>2. /\ net[e] # <<>> /\ failed[e] = "no" /\ Consume(e) /\ IsCcs(Head(net[e]))
      /\ UNCHANGED <<conf, c, s, out, failed>>
  BY DEF DropCcs, Reading
<1>3. Head(net[e]).type = "change_cipher_spec"
  BY <1>2 DEF IsCcs, OuterType
<1>4. ClientSide' /\ ClientKeeps /\ ServerSide' /\ ServerKeeps
  BY <1>1, <1>2, ClientSame, ServerSame
<1>5. CASE e = "client"
  <2>1. c.state \notin ClientSecond
    <3> SUFFICES ASSUME c.state \in ClientSecond PROVE FALSE
      OBVIOUS
    <3>1. /\ ToClient # <<>> /\ ToClient[1] = Head(net.client)
      BY <1>1, <1>2, <1>5, ClientConsumes
    <3>2. 1 \in 1 .. Len(ToClient)
      BY <1>1, <3>1, QueuesAre, TailIs
    <3>3. s.state \in ServerTickets
      BY <1>1, <1>2, <1>5, <3>1 DEF PeersAgree, QueueIsOrdered, FlightIsOrdered
    <3>4. ToClient[1].type = "handshake"
      BY <1>1, <1>2, <1>5, <3>2, <3>3 DEF QueueIsOrdered, TicketsAreOrdered
    <3> QED
      BY <1>3, <1>5, <3>1, <3>4
  <2>2. ~Carries(Head(net.client), "finished")
    BY <1>3, <1>5 DEF Carries
  <2> QED
    BY <1>2, <1>4, <1>5, <2>1, <2>2, ClientTakes
<1>6. CASE e = "server"
  BY <1>2, <1>4, <1>6, ServerTakes
<1> QED
  BY <1>5, <1>6 DEF Endpoints

\* The steps both endpoints have: beginning, dropping a ChangeCipherSpec,
\* refusing a record, finding the peer gone, and flushing.
LEMMA CommonSteps ==
    ASSUME TlsInv, NEW e \in Endpoints, CommonStep(e) \/ Flush(e)
    PROVE  TlsInv'
<1>1. CASE HelloRequest(e)
  BY <1>1, ClientHelloRequestStep, ServerHelloRequestStep DEF Endpoints
<1>2. CASE DropCcs(e)
  BY <1>2, DropCcsStep
<1>3. CASE RefuseRecord(e)
  <2>1. PICK why \in {"unexpected message", "bad mac"} : Refuses(e, why)
    BY <1>3 DEF RefuseRecord
  <2>2. net[e] # <<>>
    BY <1>3 DEF RefuseRecord, Reading
  <2> QED
    BY <2>1, <2>2, ClientRefuses, ServerRefuses DEF Endpoints
<1>4. CASE PeerIsGone(e)
  BY <1>4, GivesUpInPlace DEF PeerIsGone
<1>5. CASE Flush(e)
  <2>1. /\ QueuesAreSeqs /\ ClientSide /\ ServerSide
        /\ UNCHANGED <<conf, c, s, failed>>
    BY <1>5 DEF TlsInv, Flush
  <2>2. ToClient' = ToClient /\ ToServer' = ToServer /\ QueuesAreSeqs'
    BY <1>5, <2>1, FlushMovesNothing
  <2>3. ToClientKeeps /\ ToServerKeeps
    BY <2>2 DEF ToClientKeeps, ToServerKeeps
  <2>4. ClientSide' /\ ClientKeeps /\ ServerSide' /\ ServerKeeps
    BY <2>1, ClientSame, ServerSame
  <2> QED
    BY <2>1, <2>2, <2>3, <2>4, EndpointsStep
<1> QED
  BY <1>1, <1>2, <1>3, <1>4, <1>5 DEF CommonStep

-----------------------------------------------------------------------------
(* The invariant, and what follows from it.                                *)

\* Two endpoints that have not begun satisfy the invariant.
LEMMA InvariantInit ==
    ASSUME Init
    PROVE  TlsInv
<1>1. /\ DOMAIN out = Endpoints /\ DOMAIN net = Endpoints /\ DOMAIN failed = Endpoints
      /\ \A e \in Endpoints : net[e] = <<>> /\ out[e] = <<>>
  BY DEF Init
<1>2. QueuesAreSeqs
  BY <1>1, SingleIs DEF QueuesAreSeqs
<1>3. ToClient = <<>> /\ ToServer = <<>>
  BY <1>1, SingleIs, ConcatIs DEF ToClient, ToServer, Endpoints
<1>4. /\ DOMAIN c = ClientFields /\ c.state = "HELLO_REQUEST" /\ c.tr = <<>>
      /\ c.early = "IDLE" /\ c.tickets = <<>>
  BY DEF Init, ClientFields
<1>5. /\ DOMAIN s = ServerFields /\ s.state = "HELLO_REQUEST" /\ s.tr = <<>>
      /\ s.early_accepted = FALSE /\ s.tickets = <<>> /\ s.peer_cert = "none"
      /\ s.certificate_request_sent = FALSE
  BY DEF Init, ServerFields
<1>6. c.state \notin ClientKeyed \cup ClientSecond /\ c.state \notin ClientDone
  BY <1>4 DEF ClientKeyed, ClientSecond, ClientDone
<1>7. /\ s.state \notin ServerKeyed \cup ServerSecond /\ s.state \notin ServerDone
      /\ s.state \notin ServerTickets
  BY <1>5 DEF ServerKeyed, ServerSecond, ServerDone, ServerTickets
<1>8. IsSeq(c.tr) /\ IsSeq(s.tr) /\ TicketsAreOf(c) /\ TicketsAreOf(s)
  <2>1. IsSeq(<<>>)
    BY SingleIs
  <2>2. Len(<<>>) = 0 /\ 1 .. 0 = {}
    OBVIOUS
  <2> QED
    BY <1>4, <1>5, <2>1, <2>2 DEF TicketsAreOf
<1>9. ClientSide
  BY <1>4, <1>6, <1>8 DEF ClientSide, ClientInFirstFlight, ClientIsSure, ClientKeyed
<1>10. ServerSide
  BY <1>5, <1>7, <1>8 DEF ServerSide, ServerInFirstFlight, ServerIsSure, ServerKeyed
<1>11. RecordsAreRight
  BY <1>3 DEF RecordsAreRight
<1>12. PeersAgree /\ QueueIsOrdered
  BY <1>4, <1>6, <1>7 DEF PeersAgree, QueueIsOrdered, FlightIsOrdered, TicketsAreOrdered
<1> QED
  BY <1>2, <1>9, <1>10, <1>11, <1>12 DEF TlsInv, Joint

\* Every step of either endpoint keeps the invariant.
LEMMA InvariantNext ==
    ASSUME TlsInv, [Next]_vars
    PROVE  TlsInv'
<1>1. CASE ClientStep
  BY <1>1, WriteClientHelloStep, ClientEarlyCcsStep, ProcessHelloRetryRequestStep,
     ProcessServerHelloStep, ProcessEncryptedExtensionsStep, ProcessCertificateRequestStep,
     ProcessServerCertificateStep, ProcessServerCertificateVerifyStep, ProcessServerFinishedStep,
     WriteEndOfEarlyDataStep, ClientCcsAfterServerFinishedStep, WriteClientCertificateStep,
     WriteClientCertificateVerifyStep, WriteClientFinishedStep, ClientWrapupStep,
     ProcessNewSessionTicketStep
     DEF ClientStep
<1>2. CASE ServerStep
  BY <1>2, SkipEarlyDataStep, ProcessClientHelloStep, WriteHelloRetryRequestStep,
     ServerCcsAfterHelloRetryRequestStep, WriteServerHelloStep, ServerCcsAfterServerHelloStep,
     WriteEncryptedExtensionsStep, WriteCertificateRequestStep, WriteServerCertificateStep,
     WriteServerCertificateVerifyStep, WriteServerFinishedStep, ReadEarlyDataStep,
     ProcessEndOfEarlyDataStep, ProcessClientCertificateStep, ProcessClientCertificateVerifyStep,
     ProcessClientFinishedStep, ServerHandshakeWrapupStep, WriteNewSessionTicketStep,
     ServerNewSessionTicketFlushStep
     DEF ServerStep
<1>3. CASE \E e \in Endpoints : CommonStep(e) \/ Flush(e)
  BY <1>3, CommonSteps
<1>4. CASE \E taken \in BOOLEAN : WriteEarlyData(taken)
  BY <1>4, WriteEarlyDataStep
<1>5. CASE UNCHANGED vars
  <2>1. UNCHANGED <<conf, c, s, out, net, failed>> /\ ClientSide
    BY <1>5 DEF vars, TlsInv
  <2> QED
    BY <2>1, ClientSame, ClientAlone
<1> QED
  BY <1>1, <1>2, <1>3, <1>4, <1>5 DEF Next

\* The two sides of a handshake (ssl_tls13_client.c, ssl_tls13_server.c) stay
\* in step: what each knows of its transcript, its keys, the peer and the
\* tickets, and what the records on their way stand for.
THEOREM Invariant == Spec => []TlsInv
<1>1. Init => TlsInv
  BY InvariantInit
<1>2. TlsInv /\ [Next]_vars => TlsInv'
  BY InvariantNext
<1> QED
  BY <1>1, <1>2, PTL DEF Spec

\* The invariant implies Agreement.
LEMMA AgreementHolds ==
    ASSUME TlsInv
    PROVE  Agreement
<1>1. ClientSide /\ ServerSide /\ PeersAgree /\ QueueIsOrdered
  BY DEF TlsInv, Joint
<1>2. ASSUME Over("client")
      PROVE  /\ c.mode = s.mode
             /\ c.psk = s.psk /\ c.share = s.share
             /\ c.application_key = s.application_key
             /\ (c.early = "SERVER_FINISHED_RECEIVED") = s.early_accepted
  <2>1. c.state \in ClientSecond
    BY <1>2 DEF Over, Context, ClientSecond, ClientDone
  <2>2. /\ s.state \in ServerSecond /\ c.handshake_key = s.handshake_key
        /\ c.application_key = s.application_key
        /\ (c.early = "SERVER_FINISHED_RECEIVED") = s.early_accepted
    BY <1>1, <2>1 DEF PeersAgree
  <2>3. KeysAreOfHello(c) /\ KeysAreOfHello(s)
    BY <1>1, <2>1, <2>2 DEF ClientSide, ServerSide
  <2>4. c.psk = s.psk /\ c.share = s.share /\ c.handshake_key.tr = s.handshake_key.tr
    BY <2>2, <2>3 DEF KeysAreOfHello, Key
  <2>5. c.mode = s.mode
    BY <2>3, <2>4 DEF KeysAreOfHello
  <2> QED
    BY <2>2, <2>4, <2>5
<1>3. ASSUME Over("client"), Over("server")
      PROVE  /\ c.tr = s.tr /\ c.resumption = s.resumption
             /\ c.tin = s.tout /\ s.tin = c.tout
             /\ c.tickets = SubSeq(s.tickets, 1, Len(c.tickets))
  <2>1. /\ c.state = "HANDSHAKE_OVER" /\ s.state = "HANDSHAKE_OVER" /\ failed.client = "no"
    BY <1>3 DEF Over, Context
  <2>2. /\ c.state \in ClientDone /\ s.state \in ServerDone /\ s.state \in ServerTickets
    BY <2>1 DEF ClientDone, ServerDone, ServerTickets
  <2>3. c.tr = s.tr
    BY <1>1, <2>2 DEF PeersAgree
  <2>4. c.psk = s.psk /\ c.share = s.share /\ c.application_key = s.application_key
    BY <1>2, <1>3
  <2>5. c.resumption = s.resumption
    BY <1>1, <2>2, <2>3, <2>4 DEF ClientSide, ServerSide
  <2>6. c.tin = s.tout /\ s.tin = c.tout
    BY <1>1, <2>1, <2>2, <2>4 DEF ClientSide, ServerSide
  <2>7. TicketsAreOf(c) /\ TicketsAreOf(s)
    BY <1>1 DEF ClientSide, ServerSide
  <2>8. Len(s.tickets) = Len(c.tickets) + Len(ToClient)
    BY <1>1, <2>1, <2>2 DEF QueueIsOrdered, TicketsAreOrdered
  <2>9. Len(c.tickets) \in Nat /\ Len(s.tickets) \in Nat /\ Len(ToClient) \in Nat
    <3>1. IsSeq(ToClient)
      BY QueuesAre DEF TlsInv
    <3> QED
      BY <2>7, <3>1, AppendIs DEF TicketsAreOf
  <2>10. c.tickets = SubSeq(s.tickets, 1, Len(c.tickets))
    <3> DEFINE p == c.tickets
               q == s.tickets
               S == {p[i] : i \in 1 .. Len(p)} \cup {q[i] : i \in 1 .. Len(q)}
    <3>1. p \in Seq(S) /\ q \in Seq(S)
      <4> DEFINE P == {p[i] : i \in 1 .. Len(p)}
                 Q == {q[i] : i \in 1 .. Len(q)}
      <4>1. p \in Seq(P) /\ q \in Seq(Q) /\ P \subseteq S /\ Q \subseteq S
        BY <2>7 DEF TicketsAreOf, IsSeq
      <4> HIDE DEF P, Q, S
      <4> QED
        BY <4>1
    <3>2. Len(p) <= Len(q)
      BY <2>8, <2>9
    <3>3. \A i \in 1 .. Len(p) : p[i] = q[i]
      <4>1. ASSUME NEW i \in 1 .. Len(p) PROVE p[i] = q[i]
        <5>1. i \in 1 .. Len(q)
          BY <2>9, <3>2
        <5>2. p[i] = [secret |-> c.resumption, nonce |-> i]
          BY <2>7 DEF TicketsAreOf
        <5>3. q[i] = [secret |-> s.resumption, nonce |-> i]
          BY <2>7, <5>1 DEF TicketsAreOf
        <5> QED
          BY <2>5, <5>2, <5>3
      <4> QED
        BY <4>1
    <3> HIDE DEF p, q, S
    <3>4. /\ SubSeq(q, 1, Len(p)) \in Seq(S)
          /\ Len(SubSeq(q, 1, Len(p))) = Len(p)
          /\ \A i \in 1 .. Len(p) : SubSeq(q, 1, Len(p))[i] = q[i]
      BY <3>1, <3>2
    <3>5. p = SubSeq(q, 1, Len(p))
      BY <3>1, <3>3, <3>4
    <3> QED
      BY <3>5 DEF p, q
  <2> QED
    BY <2>3, <2>5, <2>6, <2>10
<1> QED
  BY <1>2, <1>3 DEF Agreement

\* When the client's handshake is over, both sides hold the same parameters
\* and application keys and agree on the early data; when the server's is over
\* too, on everything that was said and on the tickets
\* (mbedtls_ssl_tls13_handshake_wrapup(), the key schedule of
\* ssl_tls13_keys.c).
THEOREM EndpointsAgree == Spec => []Agreement
<1>1. TlsInv => Agreement
  BY AgreementHolds
<1> QED
  BY <1>1, Invariant, PTL

\* The invariant implies Authentication.
LEMMA AuthenticationHolds ==
    ASSUME TlsInv
    PROVE  Authentication
<1>1. ClientSide /\ ServerSide /\ PeersAgree
  BY DEF TlsInv, Joint
<1>2. ASSUME Over("client")
      PROVE  \/ c.mode \in PskModes /\ ServerKnows(c.psk)
             \/ /\ c.mode = "ephemeral"
                /\ c.peer_cert = conf.s_cert /\ Satisfies(c.peer_cert, conf.c_authmode)
  <2>1. c.state \in ClientSecond
    BY <1>2 DEF Over, Context, ClientSecond, ClientDone
  <2>2. s.state \in ServerSecond
    BY <1>1, <2>1 DEF PeersAgree
  <2>3. c.mode = s.mode /\ c.psk = s.psk
    BY <1>2, AgreementHolds DEF Agreement
  <2>4. ServerHasParameters
    BY <1>1, <2>2 DEF ServerSide
  <2>5. c.mode \notin PskModes =>
            c.peer_cert = conf.s_cert /\ Satisfies(c.peer_cert, conf.c_authmode)
    BY <1>1, <2>1 DEF ClientSide, ClientIsSure
  <2> QED
    BY <2>3, <2>4, <2>5 DEF ServerHasParameters
<1>3. ASSUME Over("server")
      PROVE  \/ s.mode \in PskModes /\ s.psk \in ToSet(ClientPsks)
             \/ /\ s.mode = "ephemeral"
                /\ Satisfies(s.peer_cert, conf.s_authmode)
                /\ s.peer_cert \in IF conf.s_authmode = "none" THEN {"none"} ELSE {conf.c_cert}
  <2>1. s.state \in ServerSecond /\ s.state \in ServerDone
    BY <1>3 DEF Over, Context, ServerSecond, ServerDone, ServerTickets
  <2>2. ServerHasParameters
    BY <1>1, <2>1 DEF ServerSide
  <2>3. s.mode = "ephemeral" =>
          /\ Satisfies(s.peer_cert, conf.s_authmode)
          /\ s.peer_cert = IF conf.s_authmode = "none" THEN "none" ELSE conf.c_cert
    BY <1>1, <2>1 DEF ServerSide, ServerIsSure
  <2> QED
    BY <2>2, <2>3 DEF ServerHasParameters
<1> QED
  BY <1>2, <1>3 DEF Authentication

\* An endpoint that insists on the peer's identity has it when its handshake
\* is over (ssl_tls13_validate_certificate(),
\* ssl_tls13_process_certificate_verify(),
\* ssl_tls13_offered_psks_check_identity_match()).
THEOREM PeersAreAuthentic == Spec => []Authentication
<1>1. TlsInv => Authentication
  BY AuthenticationHolds
<1> QED
  BY <1>1, Invariant, PTL

-----------------------------------------------------------------------------
(* Queues whose handshake records are the messages of a transcript.        *)

\* A message of the transcript; tickets are not.
IsHs(r) == r.type = "handshake" /\ r.msg.t # "new_session_ticket"

NoHs(q) == \A k \in 1 .. Len(q) : ~IsHs(q[k])

\* Record r stands for the message at place i of transcript t, and for what was
\* hashed before it.
Stands(r, t, i) ==
    /\ i \in 1 .. Len(t)
    /\ r.msg = t[i]
    /\ r.msg.t \in Bound => r.over = SubSeq(t, 1, i - 1)

\* The handshake records of q are, in order, the messages of t from place n on;
\* p counts them.
Stream(q, n, t) ==
    \E p \in [0 .. Len(q) -> Nat] :
        /\ p[0] = n
        /\ p[Len(q)] = IF n <= Len(t) THEN Len(t) ELSE n
        /\ \A j, k \in 0 .. Len(q) : j <= k => p[j] <= p[k]
        /\ \A k \in 1 .. Len(q) :
               IF IsHs(q[k]) THEN p[k] = p[k - 1] + 1 /\ Stands(q[k], t, p[k])
               ELSE p[k] = p[k - 1]

\* A transcript up to a place, and one message more.
LEMMA PrefixIs ==
    ASSUME NEW t, IsSeq(t), NEW i \in 0 .. Len(t)
    PROVE  /\ IsSeq(SubSeq(t, 1, i))
           /\ Len(SubSeq(t, 1, i)) = i
           /\ \A j \in 1 .. i : SubSeq(t, 1, i)[j] = t[j]
<1> DEFINE S == {t[j] : j \in 1 .. Len(t)}
<1>1. t \in Seq(S)
  BY DEF IsSeq
<1> HIDE DEF S
<1>2. /\ Len(t) \in Nat
      /\ SubSeq(t, 1, i) \in Seq(S) /\ Len(SubSeq(t, 1, i)) = i
      /\ \A j \in 1 .. i : SubSeq(t, 1, i)[j] = t[j]
  BY <1>1
<1> QED
  BY <1>2, SeqIsSeq

\* Sequences with the same elements are the same.
LEMMA SeqsAreEqual ==
    ASSUME NEW p, IsSeq(p), NEW q, IsSeq(q), Len(p) = Len(q),
           \A i \in 1 .. Len(p) : p[i] = q[i]
    PROVE  p = q
<1> DEFINE S == {p[i] : i \in 1 .. Len(p)} \cup {q[i] : i \in 1 .. Len(q)}
<1>1. p \in Seq(S) /\ q \in Seq(S)
  <2> DEFINE P == {p[i] : i \in 1 .. Len(p)}
             Q == {q[i] : i \in 1 .. Len(q)}
  <2>1. p \in Seq(P) /\ q \in Seq(Q) /\ P \subseteq S /\ Q \subseteq S
    BY DEF IsSeq
  <2> HIDE DEF P, Q, S
  <2> QED
    BY <2>1
<1> HIDE DEF S
<1> QED
  BY <1>1

\* The messages of a longer transcript up to a place are those of the shorter.
LEMMA SamePrefix ==
    ASSUME NEW t, IsSeq(t), NEW u, IsSeq(u), NEW i \in 0 .. Len(t), i <= Len(u),
           \A j \in 1 .. i : t[j] = u[j]
    PROVE  SubSeq(t, 1, i) = SubSeq(u, 1, i)
<1>1. Len(t) \in Nat /\ Len(u) \in Nat /\ i \in 0 .. Len(u)
  BY DEF IsSeq
<1>2. /\ IsSeq(SubSeq(t, 1, i)) /\ Len(SubSeq(t, 1, i)) = i
      /\ \A j \in 1 .. i : SubSeq(t, 1, i)[j] = t[j]
  BY PrefixIs
<1>3. /\ IsSeq(SubSeq(u, 1, i)) /\ Len(SubSeq(u, 1, i)) = i
      /\ \A j \in 1 .. i : SubSeq(u, 1, i)[j] = u[j]
  BY <1>1, PrefixIs
<1> QED
  BY <1>2, <1>3, SeqsAreEqual

\* A transcript is its own prefix.
LEMMA WholePrefix ==
    ASSUME NEW t, IsSeq(t)
    PROVE  SubSeq(t, 1, Len(t)) = t
<1>1. Len(t) \in Nat /\ Len(t) \in 0 .. Len(t)
  BY DEF IsSeq
<1>2. /\ IsSeq(SubSeq(t, 1, Len(t))) /\ Len(SubSeq(t, 1, Len(t))) = Len(t)
      /\ \A j \in 1 .. Len(t) : SubSeq(t, 1, Len(t))[j] = t[j]
  BY <1>1, PrefixIs
<1> QED
  BY <1>2, SeqsAreEqual

\* One message more leaves what was hashed before.
LEMMA PrefixStays ==
    ASSUME NEW t, IsSeq(t), NEW m, NEW i \in 0 .. Len(t)
    PROVE  SubSeq(Append(t, m), 1, i) = SubSeq(t, 1, i)
<1>1. /\ IsSeq(Append(t, m)) /\ Len(t) \in Nat /\ Len(Append(t, m)) = Len(t) + 1
      /\ \A j \in 1 .. Len(t) : Append(t, m)[j] = t[j]
  BY AppendIs
<1> QED
  BY <1>1, SamePrefix

\* What a record stands for stays when a message is added.
LEMMA StandsStays ==
    ASSUME NEW t, IsSeq(t), NEW m, NEW r, NEW i, Stands(r, t, i)
    PROVE  Stands(r, Append(t, m), i)
<1>1. /\ Len(t) \in Nat /\ Len(Append(t, m)) = Len(t) + 1
      /\ \A j \in 1 .. Len(t) : Append(t, m)[j] = t[j]
  BY AppendIs
<1>2. i \in 1 .. Len(t) /\ i - 1 \in 0 .. Len(t)
  BY <1>1 DEF Stands
<1>3. SubSeq(Append(t, m), 1, i - 1) = SubSeq(t, 1, i - 1)
  BY <1>2, PrefixStays
<1> QED
  BY <1>1, <1>2, <1>3 DEF Stands

\* A stream with nothing left to say has no message.
LEMMA StreamIdle ==
    ASSUME NEW q, IsSeq(q), NEW n \in Nat, NEW t, IsSeq(t), Stream(q, n, t), Len(t) <= n
    PROVE  NoHs(q)
<1>1. Len(q) \in Nat /\ Len(t) \in Nat
  BY DEF IsSeq
<1>2. PICK p \in [0 .. Len(q) -> Nat] :
         /\ p[0] = n /\ p[Len(q)] = IF n <= Len(t) THEN Len(t) ELSE n
         /\ \A j, k \in 0 .. Len(q) : j <= k => p[j] <= p[k]
         /\ \A k \in 1 .. Len(q) :
               IF IsHs(q[k]) THEN p[k] = p[k - 1] + 1 /\ Stands(q[k], t, p[k])
               ELSE p[k] = p[k - 1]
  BY DEF Stream
<1>3. p[Len(q)] = n
  BY <1>1, <1>2
<1>4. ASSUME NEW k \in 1 .. Len(q) PROVE ~IsHs(q[k])
  <2>1. /\ k \in 0 .. Len(q) /\ k - 1 \in 0 .. Len(q) /\ 0 \in 0 .. Len(q) /\ Len(q) \in 0 .. Len(q)
        /\ 0 <= k - 1 /\ k <= Len(q)
    BY <1>1
  <2>2. p[0] <= p[k - 1] /\ p[k] <= p[Len(q)] /\ p[k] \in Nat /\ p[k - 1] \in Nat
    BY <1>1, <1>2, <2>1
  <2> QED
    BY <1>2, <1>3, <2>2
<1> QED
  BY <1>4 DEF NoHs

\* A queue without messages is a stream with nothing left to say.
LEMMA IdleStream ==
    ASSUME NEW q, IsSeq(q), NEW n \in Nat, NEW t, IsSeq(t), NoHs(q), Len(t) <= n
    PROVE  Stream(q, n, t)
<1>1. Len(q) \in Nat /\ Len(t) \in Nat
  BY DEF IsSeq
<1> DEFINE p == [k \in 0 .. Len(q) |-> n]
<1>2. /\ p \in [0 .. Len(q) -> Nat] /\ p[0] = n /\ p[Len(q)] = n
      /\ \A k \in 0 .. Len(q) : p[k] = n
  BY <1>1
<1>3. \A k \in 1 .. Len(q) : p[k] = p[k - 1] /\ ~IsHs(q[k])
  BY <1>1, <1>2 DEF NoHs
<1>4. n = IF n <= Len(t) THEN Len(t) ELSE n
  BY <1>1
<1> HIDE DEF p
<1>5. \A j, k \in 0 .. Len(q) : j <= k => p[j] <= p[k]
  BY <1>2
<1>6. p[Len(q)] = IF n <= Len(t) THEN Len(t) ELSE n
  BY <1>2, <1>4
<1> QED
  BY <1>2, <1>3, <1>5, <1>6 DEF Stream

\* A message is hashed and written.
LEMMA StreamSays ==
    ASSUME NEW q, IsSeq(q), NEW n \in Nat, NEW t, IsSeq(t), Stream(q, n, t), n <= Len(t),
           NEW r, IsHs(r), r.msg.t \in Bound => r.over = t
    PROVE  Stream(Append(q, r), n, Append(t, r.msg))
<1> DEFINE u == Append(t, r.msg)
           w == Append(q, r)
<1>1. Len(q) \in Nat /\ Len(t) \in Nat
  BY DEF IsSeq
<1>2. PICK p \in [0 .. Len(q) -> Nat] :
         /\ p[0] = n /\ p[Len(q)] = IF n <= Len(t) THEN Len(t) ELSE n
         /\ \A j, k \in 0 .. Len(q) : j <= k => p[j] <= p[k]
         /\ \A k \in 1 .. Len(q) :
               IF IsHs(q[k]) THEN p[k] = p[k - 1] + 1 /\ Stands(q[k], t, p[k])
               ELSE p[k] = p[k - 1]
  BY DEF Stream
<1>3. /\ IsSeq(u) /\ Len(u) = Len(t) + 1 /\ u[Len(t) + 1] = r.msg
  BY AppendIs
<1>4. /\ IsSeq(w) /\ Len(w) = Len(q) + 1 /\ w[Len(q) + 1] = r
      /\ \A i \in 1 .. Len(q) : w[i] = q[i]
  BY AppendIs
<1>5. Stands(r, u, Len(t) + 1)
  <2>1. Len(t) \in 0 .. Len(t) /\ (Len(t) + 1) - 1 = Len(t)
    BY <1>1
  <2>2. SubSeq(u, 1, Len(t)) = t
    BY <2>1, PrefixStays, WholePrefix
  <2> QED
    BY <1>1, <1>3, <2>1, <2>2 DEF Stands
<1>6. \A k \in 1 .. Len(q) : Stands(q[k], t, p[k]) => Stands(q[k], u, p[k])
  BY StandsStays
<1> HIDE DEF u, w
<1> DEFINE o == [k \in 0 .. Len(w) |-> IF k = Len(w) THEN Len(t) + 1 ELSE p[k]]
<1>7. /\ o \in [0 .. Len(w) -> Nat] /\ o[Len(w)] = Len(t) + 1
      /\ \A k \in 0 .. Len(q) : o[k] = p[k] /\ p[k] \in Nat
  BY <1>1, <1>2, <1>4
<1> HIDE DEF o
<1>8. /\ 0 \in 0 .. Len(q) /\ Len(q) \in 0 .. Len(q) /\ p[Len(q)] = Len(t)
      /\ \A k \in 0 .. Len(w) : k \in 0 .. Len(q) \/ k = Len(w)
      /\ \A k \in 1 .. Len(w) : k \in 1 .. Len(q) \/ k = Len(q) + 1
      /\ \A k \in 1 .. Len(q) : k \in 0 .. Len(q) /\ k - 1 \in 0 .. Len(q)
  BY <1>1, <1>2, <1>4
<1>9. \A j, k \in 0 .. Len(w) : j <= k => o[j] <= o[k]
  <2> SUFFICES ASSUME NEW j \in 0 .. Len(w), NEW k \in 0 .. Len(w), j <= k
               PROVE  o[j] <= o[k]
    OBVIOUS
  <2>1. CASE k \in 0 .. Len(q)
    <3>1. j \in 0 .. Len(q)
      BY <1>1, <1>4, <2>1
    <3> QED
      BY <1>2, <1>7, <2>1, <3>1
  <2>2. CASE k = Len(w) /\ j \in 0 .. Len(q)
    <3>1. p[j] <= p[Len(q)]
      BY <1>1, <1>2, <1>8, <2>2
    <3> QED
      BY <1>1, <1>7, <1>8, <2>2, <3>1
  <2>3. CASE k = Len(w) /\ j = Len(w)
    BY <1>1, <1>7, <2>3
  <2> QED
    BY <1>8, <2>1, <2>2, <2>3
<1>10. \A k \in 1 .. Len(w) :
          IF IsHs(w[k]) THEN o[k] = o[k - 1] + 1 /\ Stands(w[k], u, o[k]) ELSE o[k] = o[k - 1]
  <2> SUFFICES ASSUME NEW k \in 1 .. Len(w)
               PROVE  IF IsHs(w[k]) THEN o[k] = o[k - 1] + 1 /\ Stands(w[k], u, o[k])
                      ELSE o[k] = o[k - 1]
    OBVIOUS
  <2>1. CASE k \in 1 .. Len(q)
    <3>1. w[k] = q[k] /\ o[k] = p[k] /\ o[k - 1] = p[k - 1]
      BY <1>4, <1>7, <1>8, <2>1
    <3> QED
      BY <1>2, <1>6, <2>1, <3>1
  <2>2. CASE k = Len(q) + 1
    <3>1. w[k] = r /\ o[k] = Len(t) + 1 /\ o[k - 1] = Len(t)
      BY <1>1, <1>4, <1>7, <1>8, <2>2
    <3> QED
      BY <1>5, <3>1
  <2> QED
    BY <1>8, <2>1, <2>2
<1>11. o[0] = n /\ o[Len(w)] = IF n <= Len(u) THEN Len(u) ELSE n
  BY <1>1, <1>2, <1>3, <1>7, <1>8
<1>12. Stream(w, n, u)
  BY <1>7, <1>9, <1>10, <1>11 DEF Stream
<1> QED
  BY <1>12 DEF u, w

\* A record that is no message is written.
LEMMA StreamPads ==
    ASSUME NEW q, IsSeq(q), NEW n \in Nat, NEW t, IsSeq(t), Stream(q, n, t), NEW r, ~IsHs(r)
    PROVE  Stream(Append(q, r), n, t)
<1> DEFINE w == Append(q, r)
           e == IF n <= Len(t) THEN Len(t) ELSE n
<1>1. Len(q) \in Nat /\ Len(t) \in Nat /\ e \in Nat
  BY DEF IsSeq
<1>2. PICK p \in [0 .. Len(q) -> Nat] :
         /\ p[0] = n /\ p[Len(q)] = e
         /\ \A j, k \in 0 .. Len(q) : j <= k => p[j] <= p[k]
         /\ \A k \in 1 .. Len(q) :
               IF IsHs(q[k]) THEN p[k] = p[k - 1] + 1 /\ Stands(q[k], t, p[k])
               ELSE p[k] = p[k - 1]
  BY DEF Stream
<1>4. /\ IsSeq(w) /\ Len(w) = Len(q) + 1 /\ w[Len(q) + 1] = r
      /\ \A i \in 1 .. Len(q) : w[i] = q[i]
  BY AppendIs
<1> HIDE DEF w, e
<1> DEFINE o == [k \in 0 .. Len(w) |-> IF k = Len(w) THEN e ELSE p[k]]
<1>7. /\ o \in [0 .. Len(w) -> Nat] /\ o[Len(w)] = e
      /\ \A k \in 0 .. Len(q) : o[k] = p[k] /\ p[k] \in Nat
  BY <1>1, <1>2, <1>4, SMTT(30)
<1> HIDE DEF o
<1>8. /\ 0 \in 0 .. Len(q) /\ Len(q) \in 0 .. Len(q)
      /\ \A k \in 0 .. Len(w) : k \in 0 .. Len(q) \/ k = Len(w)
      /\ \A k \in 1 .. Len(w) : k \in 1 .. Len(q) \/ k = Len(q) + 1
      /\ \A k \in 1 .. Len(q) : k \in 0 .. Len(q) /\ k - 1 \in 0 .. Len(q)
  BY <1>1, <1>2, <1>4
<1>9. \A j, k \in 0 .. Len(w) : j <= k => o[j] <= o[k]
  <2> SUFFICES ASSUME NEW j \in 0 .. Len(w), NEW k \in 0 .. Len(w), j <= k
               PROVE  o[j] <= o[k]
    OBVIOUS
  <2>1. CASE k \in 0 .. Len(q)
    <3>1. j \in 0 .. Len(q)
      BY <1>1, <1>4, <2>1
    <3> QED
      BY <1>2, <1>7, <2>1, <3>1
  <2>2. CASE k = Len(w) /\ j \in 0 .. Len(q)
    <3>1. p[j] <= p[Len(q)]
      BY <1>1, <1>2, <1>8, <2>2
    <3> QED
      BY <1>1, <1>2, <1>7, <1>8, <2>2, <3>1
  <2>3. CASE k = Len(w) /\ j = Len(w)
    BY <1>1, <1>7, <2>3
  <2> QED
    BY <1>8, <2>1, <2>2, <2>3
<1>10. \A k \in 1 .. Len(w) :
          IF IsHs(w[k]) THEN o[k] = o[k - 1] + 1 /\ Stands(w[k], t, o[k]) ELSE o[k] = o[k - 1]
  <2> SUFFICES ASSUME NEW k \in 1 .. Len(w)
               PROVE  IF IsHs(w[k]) THEN o[k] = o[k - 1] + 1 /\ Stands(w[k], t, o[k])
                      ELSE o[k] = o[k - 1]
    OBVIOUS
  <2>1. CASE k \in 1 .. Len(q)
    <3>1. w[k] = q[k] /\ o[k] = p[k] /\ o[k - 1] = p[k - 1]
      BY <1>4, <1>7, <1>8, <2>1
    <3> QED
      BY <1>2, <2>1, <3>1
  <2>2. CASE k = Len(q) + 1
    <3>1. w[k] = r /\ o[k] = e /\ o[k - 1] = e
      BY <1>1, <1>2, <1>4, <1>7, <1>8, <2>2
    <3> QED
      BY <3>1
  <2> QED
    BY <1>8, <2>1, <2>2
<1>11. o[0] = n /\ o[Len(w)] = e
  BY <1>1, <1>2, <1>7, <1>8
<1>12. Stream(w, n, t)
  BY <1>7, <1>9, <1>10, <1>11 DEF Stream, e
<1> QED
  BY <1>12 DEF w

\* The first record of a stream is read: it is the next message, or none.
LEMMA StreamIsRead ==
    ASSUME NEW q, IsSeq(q), q # <<>>, NEW n \in Nat, NEW t, IsSeq(t), Stream(q, n, t)
    PROVE  /\ IsHs(q[1]) => Stands(q[1], t, n + 1) /\ Stream(Tail(q), n + 1, t)
           /\ ~IsHs(q[1]) => Stream(Tail(q), n, t)
<1> DEFINE w == Tail(q)
           e == IF n <= Len(t) THEN Len(t) ELSE n
<1>1. Len(q) \in Nat \ {0} /\ Len(t) \in Nat /\ e \in Nat
  BY TailIs DEF IsSeq
<1>2. PICK p \in [0 .. Len(q) -> Nat] :
         /\ p[0] = n /\ p[Len(q)] = e
         /\ \A j, k \in 0 .. Len(q) : j <= k => p[j] <= p[k]
         /\ \A k \in 1 .. Len(q) :
               IF IsHs(q[k]) THEN p[k] = p[k - 1] + 1 /\ Stands(q[k], t, p[k])
               ELSE p[k] = p[k - 1]
  BY DEF Stream
<1>3. Len(w) = Len(q) - 1 /\ \A i \in 1 .. Len(w) : w[i] = q[i + 1]
  BY TailIs
<1>4. 1 \in 1 .. Len(q) /\ 1 - 1 = 0
  BY <1>1
<1>5. /\ IsHs(q[1]) => p[1] = n + 1 /\ Stands(q[1], t, n + 1)
      /\ ~IsHs(q[1]) => p[1] = n
  BY <1>2, <1>4
<1> HIDE DEF w, e
<1> DEFINE o == [k \in 0 .. Len(w) |-> p[k + 1]]
<1>6. /\ o \in [0 .. Len(w) -> Nat] /\ o[Len(w)] = e /\ o[0] = p[1]
      /\ \A k \in 0 .. Len(w) : o[k] = p[k + 1] /\ k + 1 \in 0 .. Len(q)
      /\ \A k \in 1 .. Len(w) : k + 1 \in 1 .. Len(q) /\ k - 1 \in 0 .. Len(w) /\ k \in 0 .. Len(w)
                                /\ (k + 1) - 1 = (k - 1) + 1
  BY <1>1, <1>2, <1>3
<1> HIDE DEF o
<1>7. \A j, k \in 0 .. Len(w) : j <= k => o[j] <= o[k]
  <2> SUFFICES ASSUME NEW j \in 0 .. Len(w), NEW k \in 0 .. Len(w), j <= k
               PROVE  o[j] <= o[k]
    OBVIOUS
  <2>1. j + 1 <= k + 1
    BY <1>1, <1>3
  <2> QED
    BY <1>2, <1>6, <2>1
<1>8. \A k \in 1 .. Len(w) :
          IF IsHs(w[k]) THEN o[k] = o[k - 1] + 1 /\ Stands(w[k], t, o[k]) ELSE o[k] = o[k - 1]
  <2> SUFFICES ASSUME NEW k \in 1 .. Len(w)
               PROVE  IF IsHs(w[k]) THEN o[k] = o[k - 1] + 1 /\ Stands(w[k], t, o[k])
                      ELSE o[k] = o[k - 1]
    OBVIOUS
  <2>1. w[k] = q[k + 1] /\ o[k] = p[k + 1] /\ o[k - 1] = p[(k + 1) - 1]
    BY <1>3, <1>6
  <2> QED
    BY <1>2, <1>6, <2>1
<1>9. CASE IsHs(q[1])
  <2>1. n + 1 <= Len(t) /\ e = Len(t)
    BY <1>1, <1>5, <1>9 DEF Stands, e
  <2>2. o[0] = n + 1 /\ o[Len(w)] = IF n + 1 <= Len(t) THEN Len(t) ELSE n + 1
    BY <1>5, <1>6, <1>9, <2>1
  <2>3. Stream(w, n + 1, t)
    BY <1>6, <1>7, <1>8, <2>2 DEF Stream
  <2> QED
    BY <1>5, <1>9, <2>3 DEF w
<1>10. CASE ~IsHs(q[1])
  <2>1. o[0] = n
    BY <1>5, <1>6, <1>10
  <2>2. Stream(w, n, t)
    BY <1>6, <1>7, <1>8, <2>1 DEF Stream, e
  <2> QED
    BY <1>10, <2>2 DEF w
<1> QED
  BY <1>9, <1>10

-----------------------------------------------------------------------------
(* The PSKs that are offered and selected, and the ends of a queue.        *)

\* The offered PSKs are a sequence of at most two, the ticket first.
LEMMA ClientPsksAreSeq ==
    /\ Len(ClientPsks) \in Nat /\ DOMAIN ClientPsks = 1 .. Len(ClientPsks)
<1> DEFINE S == {"ticket", "external"}
           first == IF conf.ticket # "none" /\ TicketModes # {} THEN <<"ticket">> ELSE <<>>
           second == IF conf.c_psk THEN <<"external">> ELSE <<>>
<1>1. ClientPsks = (IF conf.c_modes \cap PskModes = {} THEN <<>> ELSE first \o second)
  BY DEF ClientPsks
<1>2. <<"ticket">> \in Seq(S) /\ <<"external">> \in Seq(S) /\ <<>> \in Seq(S)
  OBVIOUS
<1>3. first \in Seq(S) /\ second \in Seq(S)
  BY <1>2
<1> HIDE DEF S, first, second
<1>4. first \o second \in Seq(S)
  BY <1>3
<1>5. ClientPsks \in Seq(S)
  BY <1>1, <1>2, <1>4
<1> QED
  BY <1>5

\* A client that offers early data offers the ticket first.
LEMMA TicketComesFirst ==
    ASSUME OffersEarlyData
    PROVE  ClientPsks[1] = "ticket" /\ 1 \in DOMAIN ClientPsks
<1> DEFINE second == IF conf.c_psk THEN <<"external">> ELSE <<>>
<1>1. TicketModes # {} /\ conf.ticket # "none" /\ conf.c_modes \cap PskModes # {}
  BY DEF OffersEarlyData, TicketModes
<1>2. ClientPsks = <<"ticket">> \o second
  BY <1>1 DEF ClientPsks
<1>3. IsSeq(second) /\ IsSeq(<<"ticket">>)
  BY SingleIs
<1> HIDE DEF second
<1>4. /\ <<"ticket">> # <<>> /\ Head(<<"ticket">>) = "ticket"
      /\ IsSeq(ClientPsks) /\ ClientPsks # <<>> /\ Head(ClientPsks) = "ticket"
  BY <1>2, <1>3, ConcatIs
<1>5. ClientPsks[1] = "ticket" /\ Len(ClientPsks) \in Nat \ {0}
  BY <1>4, TailIs
<1> QED
  BY <1>5, ClientPsksAreSeq

\* A PSK that is selected comes first among those that fit.
LEMMA SelectedPskFits ==
    ASSUME NEW m, m.psks = ClientPsks, SelectedPsk(m) # 0
    PROVE  /\ SelectedPsk(m) \in DOMAIN ClientPsks
           /\ ServerKnows(ClientPsks[SelectedPsk(m)])
           /\ PskModeFor(ClientPsks[SelectedPsk(m)], m) # "none"
<1> DEFINE fits == {i \in DOMAIN m.psks : /\ ServerKnows(m.psks[i])
                                          /\ PskModeFor(m.psks[i], m) # "none"}
           least == CHOOSE i \in fits : \A j \in fits : i <= j
<1>1. fits # {} /\ SelectedPsk(m) = least
  BY DEF SelectedPsk
<1>2. DOMAIN m.psks \subseteq {1, 2}
  BY ClientPsksAre
<1>3. fits \subseteq {1, 2} /\ fits \subseteq DOMAIN m.psks
  BY <1>2
<1>4. \A i \in fits : ServerKnows(m.psks[i]) /\ PskModeFor(m.psks[i], m) # "none"
  OBVIOUS
<1> HIDE DEF fits
<1>5. \E i \in fits : \A j \in fits : i <= j
  <2>1. CASE 1 \in fits
    <3>1. \A j \in fits : 1 <= j
      BY <1>3
    <3> QED
      BY <2>1, <3>1
  <2>2. CASE 1 \notin fits
    <3>1. fits = {2}
      BY <1>1, <1>3, <2>2
    <3>2. \A j \in fits : 2 <= j
      BY <3>1
    <3> QED
      BY <3>1, <3>2
  <2> QED
    BY <2>1, <2>2
<1>6. least \in fits
  BY <1>5
<1> HIDE DEF least
<1> QED
  BY <1>1, <1>3, <1>4, <1>6

\* If no PSK is selected, none fits.
LEMMA NoPskFits ==
    ASSUME NEW m, SelectedPsk(m) = 0, m.psks = ClientPsks
    PROVE  \A i \in DOMAIN ClientPsks :
               ServerKnows(ClientPsks[i]) => PskModeFor(ClientPsks[i], m) = "none"
<1> DEFINE fits == {i \in DOMAIN m.psks : /\ ServerKnows(m.psks[i])
                                          /\ PskModeFor(m.psks[i], m) # "none"}
           least == CHOOSE i \in fits : \A j \in fits : i <= j
<1>1. SelectedPsk(m) = IF fits = {} THEN 0 ELSE least
  BY DEF SelectedPsk
<1>2. fits \subseteq {1, 2}
  BY ClientPsksAre
<1> HIDE DEF fits
<1>3. fits # {} => \E i \in fits : \A j \in fits : i <= j
  <2>1. CASE 1 \in fits
    <3>1. \A j \in fits : 1 <= j
      BY <1>2
    <3> QED
      BY <2>1, <3>1
  <2>2. CASE 1 \notin fits /\ fits # {}
    <3>1. fits = {2}
      BY <1>2, <2>2
    <3>2. \A j \in fits : 2 <= j
      BY <3>1
    <3> QED
      BY <3>1, <3>2
  <2> QED
    BY <2>1, <2>2
<1>4. fits # {} => least \in fits
  BY <1>3
<1> HIDE DEF least
<1>5. fits = {}
  BY <1>1, <1>2, <1>4
<1> QED
  BY <1>5 DEF fits

\* Where the records of a queue were that lost its first record, or gained one.
LEMMA LosesFirst ==
    ASSUME NEW q, IsSeq(q), q # <<>>, NEW k \in 1 .. Len(Tail(q))
    PROVE  k + 1 \in 1 .. Len(q) /\ Tail(q)[k] = q[k + 1] /\ k \in Nat \ {0}
BY TailIs

\* The elements of a queue with one more record.
LEMMA GainsLast ==
    ASSUME NEW q, IsSeq(q), NEW r, NEW k \in 1 .. Len(Append(q, r))
    PROVE  /\ \/ k \in 1 .. Len(q) /\ Append(q, r)[k] = q[k]
              \/ k = Len(q) + 1 /\ Append(q, r)[k] = r
           /\ k \in Nat \ {0} /\ Len(q) \in Nat
BY AppendIs

-----------------------------------------------------------------------------
(* Early data: the items on their way follow those that were read.         *)

IsItem(r) == r.type = "application_data"

\* Item a was written before item b, or was written again as b.
NotAfter(a, b) == a < b \/ (a = b /\ a \in app.retried)

Written(a) == a \in 1 .. app.next - 1 \cup app.retried

WasRead(a) == \E i \in 1 .. Len(app.received) : app.received[i] = a
IsOnItsWay(a) == \E k \in 1 .. Len(ToServer) : IsItem(ToServer[k]) /\ ToServer[k].item = a

NoItemFrom(n) == \A k \in n .. Len(ToServer) : ~IsItem(ToServer[k])

ItemsAreNumbers ==
    /\ DOMAIN app = {"next", "retried", "received"}
    /\ app.next \in Nat \ {0}
    /\ app.retried \subseteq 1 .. app.next
    /\ IsSeq(app.received)

ItemsAreWritten ==
    /\ \A i \in 1 .. Len(app.received) : Written(app.received[i])
    /\ \A k \in 1 .. Len(ToServer) : IsItem(ToServer[k]) => Written(ToServer[k].item)

ItemsAreOrdered ==
    /\ \A i, j \in 1 .. Len(app.received) : i < j => NotAfter(app.received[i], app.received[j])
    /\ \A i \in 1 .. Len(app.received), k \in 1 .. Len(ToServer) :
           IsItem(ToServer[k]) => NotAfter(app.received[i], ToServer[k].item)
    /\ \A j, k \in 1 .. Len(ToServer) :
           j < k /\ IsItem(ToServer[j]) /\ IsItem(ToServer[k]) =>
               NotAfter(ToServer[j].item, ToServer[k].item)

ServerBegins == {"HELLO_REQUEST", "CLIENT_HELLO", "HELLO_RETRY_REQUEST",
                 "SERVER_CCS_AFTER_HELLO_RETRY_REQUEST"}

\* Early data is accepted with the first ClientHello and the ticket; then
\* nothing is skipped and there are no certificates.
AcceptanceIsRight ==
    /\ s.state \in ServerBegins \cup {"SERVER_HELLO"} \cup ServerKeyed \cup ServerSecond
    /\ s.state \in ServerBegins => ~s.early_accepted
    /\ s.state = "SERVER_CCS_AFTER_HELLO_RETRY_REQUEST" => s.hrr
    /\ s.state \in {"HELLO_REQUEST", "CLIENT_HELLO"} /\ ~s.hrr =>
           ~s.resume /\ s.discard = "NO_DISCARD"
    /\ s.state = "END_OF_EARLY_DATA" => s.early_accepted
    /\ s.early_accepted =>
           /\ s.mode \in PskModes
           /\ s.discard = "NO_DISCARD"
           /\ s.state \notin {"CERTIFICATE_REQUEST", "SERVER_CERTIFICATE", "CERTIFICATE_VERIFY"}

\* The client ends early data once, after the server's Finished.
ClientEnds ==
    c.state = "END_OF_EARLY_DATA" => c.early = "SERVER_FINISHED_RECEIVED"

EndIsLast ==
    \A k \in 1 .. Len(ToServer) : Carries(ToServer[k], "end_of_early_data") =>
        /\ c.early = "SERVER_FINISHED_RECEIVED"
        /\ NoItemFrom(k)

\* The server has passed the end of the early data it accepted.
PastEarlyData == s.early_accepted /\ s.state \in ServerSecond \ {"END_OF_EARLY_DATA"}

NothingSkipped ==
    s.early_accepted \/ (s.state \in {"HELLO_REQUEST", "CLIENT_HELLO"} /\ ~s.hrr)

ItemsAreKept ==
    failed.server = "no" /\ NothingSkipped =>
        \A a \in 1 .. app.next - 1 : WasRead(a) \/ IsOnItsWay(a)

AcceptedIsRead ==
    PastEarlyData =>
        /\ c.early = "SERVER_FINISHED_RECEIVED"
        /\ NoItemFrom(1)
        /\ \A a \in 1 .. app.next - 1 : WasRead(a)

NothingIsRead == ~s.early_accepted => app.received = <<>>

EarlyInv ==
    /\ ItemsAreNumbers
    /\ ItemsAreWritten
    /\ ItemsAreOrdered
    /\ AcceptanceIsRight
    /\ ClientEnds
    /\ EndIsLast
    /\ ItemsAreKept
    /\ AcceptedIsRead
    /\ NothingIsRead

\* What the invariant says of early data implies EarlyDataExact.
LEMMA EarlyDataExactHolds ==
    ASSUME EarlyInv
    PROVE  EarlyDataExact
<1> DEFINE got == app.received
<1>1. IsSeq(got) /\ DOMAIN got = 1 .. Len(got)
  <2>1. IsSeq(got)
    BY DEF EarlyInv, ItemsAreNumbers
  <2> HIDE DEF got
  <2> QED
    BY <2>1 DEF IsSeq
<1>2. \A a : a \in ToSet(got) <=> WasRead(a)
  BY <1>1 DEF ToSet, WasRead
<1>3. \A i, j \in DOMAIN got : i < j =>
          got[i] < got[j] \/ (got[i] = got[j] /\ got[i] \in app.retried)
  BY <1>1 DEF EarlyInv, ItemsAreOrdered, NotAfter
<1>4. ToSet(got) \subseteq 1 .. app.next - 1 \cup app.retried
  BY <1>2 DEF EarlyInv, ItemsAreWritten, Written, WasRead
<1>5. ~s.early_accepted => got = <<>>
  BY DEF EarlyInv, NothingIsRead
<1>6. ASSUME s.early_accepted,
             s.state \notin {"SERVER_HELLO", "ENCRYPTED_EXTENSIONS", "SERVER_CCS_AFTER_SERVER_HELLO",
                             "SERVER_FINISHED", "END_OF_EARLY_DATA"}
      PROVE  1 .. app.next - 1 \subseteq ToSet(got)
  <2>1. PastEarlyData
    BY <1>6 DEF EarlyInv, AcceptanceIsRight, PastEarlyData, ServerKeyed
  <2> QED
    BY <1>2, <2>1 DEF EarlyInv, AcceptedIsRead
<1> QED
  BY <1>3, <1>4, <1>5, <1>6 DEF EarlyDataExact

-----------------------------------------------------------------------------
(* The steps that neither write nor read early data.                       *)

\* Every item on its way was on its way before, d places further back.
ItemsComeFrom(d) ==
    \A k \in 1 .. Len(ToServer') : IsItem(ToServer'[k]) =>
        k + d \in 1 .. Len(ToServer) /\ ToServer'[k] = ToServer[k + d]

\* What a record at the end, or the loss of the first, does to the items.
LEMMA ItemsMove ==
    ASSUME IsSeq(ToServer),
           \/ ToServer' = ToServer
           \/ \E r : ToServer' = Append(ToServer, r) /\ ~IsItem(r)
           \/ ToServer # <<>> /\ ToServer' = Tail(ToServer)
    PROVE  \E d \in {0, 1} : ItemsComeFrom(d)
<1>1. CASE ToServer' = ToServer
  <2>1. Len(ToServer) \in Nat
    BY DEF IsSeq
  <2> QED
    BY <1>1, <2>1 DEF ItemsComeFrom
<1>2. ASSUME NEW r, ToServer' = Append(ToServer, r), ~IsItem(r)
      PROVE  ItemsComeFrom(0)
  <2>1. /\ Len(ToServer) \in Nat /\ Len(ToServer') = Len(ToServer) + 1
        /\ ToServer'[Len(ToServer) + 1] = r
        /\ \A i \in 1 .. Len(ToServer) : ToServer'[i] = ToServer[i]
    BY <1>2, AppendIs
  <2> QED
    BY <1>2, <2>1 DEF ItemsComeFrom
<1>3. CASE ToServer # <<>> /\ ToServer' = Tail(ToServer)
  <2>1. /\ Len(ToServer) \in Nat \ {0} /\ Len(ToServer') = Len(ToServer) - 1
        /\ \A i \in 1 .. Len(ToServer) - 1 : ToServer'[i] = ToServer[i + 1]
    BY <1>3, TailIs
  <2>2. ItemsComeFrom(1)
    BY <2>1 DEF ItemsComeFrom
  <2> QED
    BY <2>2
<1> QED
  BY <1>1, <1>2, <1>3

\* The order of the items stays if the application writes and reads nothing.
LEMMA OrderStays ==
    ASSUME ItemsAreNumbers, ItemsAreWritten, ItemsAreOrdered, app' = app,
           NEW d \in {0, 1}, ItemsComeFrom(d)
    PROVE  ItemsAreNumbers' /\ ItemsAreWritten' /\ ItemsAreOrdered'
<1>1. ItemsAreNumbers'
  BY DEF ItemsAreNumbers, IsSeq
<1>2. ItemsAreWritten'
  BY DEF ItemsAreWritten, Written, ItemsComeFrom
<1>3. ASSUME NEW j \in 1 .. Len(ToServer'), NEW k \in 1 .. Len(ToServer'), j < k,
             IsItem(ToServer'[j]), IsItem(ToServer'[k])
      PROVE  NotAfter(ToServer'[j].item, ToServer'[k].item)
  <2>1. /\ j + d \in 1 .. Len(ToServer) /\ ToServer'[j] = ToServer[j + d]
        /\ k + d \in 1 .. Len(ToServer) /\ ToServer'[k] = ToServer[k + d]
        /\ j + d < k + d
    BY <1>3 DEF ItemsComeFrom
  <2> QED
    BY <1>3, <2>1 DEF ItemsAreOrdered
<1>4. ASSUME NEW i \in 1 .. Len(app.received), NEW k \in 1 .. Len(ToServer'), IsItem(ToServer'[k])
      PROVE  NotAfter(app.received[i], ToServer'[k].item)
  <2>1. k + d \in 1 .. Len(ToServer) /\ ToServer'[k] = ToServer[k + d]
    BY <1>4 DEF ItemsComeFrom
  <2> QED
    BY <1>4, <2>1 DEF ItemsAreOrdered
<1>5. ItemsAreOrdered'
  BY <1>3, <1>4 DEF ItemsAreOrdered, NotAfter
<1> QED
  BY <1>1, <1>2, <1>5

\* Items on their way stay there unless the first record is one and is taken.
LEMMA ItemsStayOnTheirWay ==
    ASSUME IsSeq(ToServer),
           \/ ToServer' = ToServer
           \/ \E r : ToServer' = Append(ToServer, r)
           \/ ToServer # <<>> /\ ToServer' = Tail(ToServer) /\ ~IsItem(ToServer[1]),
           NEW a, IsOnItsWay(a)
    PROVE  IsOnItsWay(a)'
<1>1. PICK k \in 1 .. Len(ToServer) : IsItem(ToServer[k]) /\ ToServer[k].item = a
  BY DEF IsOnItsWay
<1>2. CASE ToServer' = ToServer
  BY <1>1, <1>2 DEF IsOnItsWay
<1>3. ASSUME NEW r, ToServer' = Append(ToServer, r)
      PROVE  IsOnItsWay(a)'
  <2>1. k \in 1 .. Len(ToServer') /\ ToServer'[k] = ToServer[k]
    BY <1>3, AppendIs
  <2> QED
    BY <1>1, <2>1 DEF IsOnItsWay
<1>4. CASE ToServer # <<>> /\ ToServer' = Tail(ToServer) /\ ~IsItem(ToServer[1])
  <2>1. k # 1
    BY <1>1, <1>4
  <2>2. k - 1 \in 1 .. Len(ToServer') /\ ToServer'[k - 1] = ToServer[k]
    <3>1. /\ Len(ToServer) \in Nat \ {0} /\ Len(ToServer') = Len(ToServer) - 1
          /\ \A i \in 1 .. Len(ToServer) - 1 : ToServer'[i] = ToServer[i + 1]
      BY <1>4, TailIs
    <3>2. k - 1 \in 1 .. Len(ToServer) - 1 /\ (k - 1) + 1 = k
      BY <2>1, <3>1
    <3> QED
      BY <3>1, <3>2
  <2> QED
    BY <1>1, <2>2 DEF IsOnItsWay
<1> QED
  BY <1>2, <1>3, <1>4

\* The records from the n-th on stay other records.
LEMMA NoItemsStay ==
    ASSUME IsSeq(ToServer), NEW n \in Nat, NoItemFrom(n), NEW d \in {0, 1}, ItemsComeFrom(d),
           NEW m \in Nat \ {0}, m + d >= n
    PROVE  NoItemFrom(m)'
<1> SUFFICES ASSUME NEW k \in m .. Len(ToServer'), IsItem(ToServer'[k])
             PROVE  FALSE
  BY DEF NoItemFrom, IsItem
<1> QED
  BY DEF NoItemFrom, ItemsComeFrom

\* The end of early data stays the end.
LEMMA EndStaysLast ==
    ASSUME IsSeq(ToServer), EndIsLast,
           c.early = "SERVER_FINISHED_RECEIVED" => c'.early = "SERVER_FINISHED_RECEIVED",
           \/ ToServer' = ToServer
           \/ \E r : /\ ToServer' = Append(ToServer, r)
                     /\ ~IsItem(r)
                     /\ Carries(r, "end_of_early_data") => c'.early = "SERVER_FINISHED_RECEIVED"
           \/ ToServer # <<>> /\ ToServer' = Tail(ToServer)
    PROVE  EndIsLast'
<1> SUFFICES ASSUME NEW k \in 1 .. Len(ToServer'), Carries(ToServer'[k], "end_of_early_data")
             PROVE  c'.early = "SERVER_FINISHED_RECEIVED" /\ NoItemFrom(k)'
  BY DEF EndIsLast, Carries
<1>1. CASE ToServer' = ToServer
  BY <1>1 DEF EndIsLast, NoItemFrom
<1>2. ASSUME NEW r, ToServer' = Append(ToServer, r), ~IsItem(r),
             Carries(r, "end_of_early_data") => c'.early = "SERVER_FINISHED_RECEIVED"
      PROVE  c'.early = "SERVER_FINISHED_RECEIVED" /\ NoItemFrom(k)'
  <2>1. /\ Len(ToServer) \in Nat /\ Len(ToServer') = Len(ToServer) + 1
        /\ ToServer'[Len(ToServer) + 1] = r
        /\ \A i \in 1 .. Len(ToServer) : ToServer'[i] = ToServer[i]
    BY <1>2, AppendIs
  <2>2. CASE k = Len(ToServer) + 1
    BY <1>2, <2>1, <2>2 DEF NoItemFrom
  <2>3. CASE k \in 1 .. Len(ToServer)
    <3>1. c.early = "SERVER_FINISHED_RECEIVED" /\ NoItemFrom(k)
      BY <2>1, <2>3 DEF EndIsLast
    <3> QED
      BY <1>2, <2>1, <3>1 DEF NoItemFrom
  <2> QED
    BY <2>1, <2>2, <2>3
<1>3. CASE ToServer # <<>> /\ ToServer' = Tail(ToServer)
  <2>1. /\ Len(ToServer) \in Nat \ {0} /\ Len(ToServer') = Len(ToServer) - 1
        /\ \A i \in 1 .. Len(ToServer) - 1 : ToServer'[i] = ToServer[i + 1]
    BY <1>3, TailIs
  <2>2. k + 1 \in 1 .. Len(ToServer) /\ ToServer'[k] = ToServer[k + 1]
    BY <2>1
  <2>3. c.early = "SERVER_FINISHED_RECEIVED" /\ NoItemFrom(k + 1)
    BY <2>2 DEF EndIsLast
  <2> QED
    BY <2>1, <2>3, SMTT(30) DEF NoItemFrom
<1> QED
  BY <1>1, <1>2, <1>3

\* What a step keeps of the acceptance of early data.
ServerGoesOn ==
    /\ AcceptanceIsRight'
    /\ s.early_accepted => s'.early_accepted
    /\ NothingSkipped' => NothingSkipped
    /\ \/ PastEarlyData' => PastEarlyData
       \/ AcceptedIsRead'

ClientGoesOn ==
    /\ ClientEnds'
    /\ c.early = "SERVER_FINISHED_RECEIVED" => c'.early = "SERVER_FINISHED_RECEIVED"

\* The frame of the steps that neither write nor read an item.
LEMMA EarlyFrame ==
    ASSUME EarlyInv, QueuesAreSeqs, app' = app, ServerGoesOn, ClientGoesOn,
           failed'.server = "no" => failed.server = "no",
           \/ ToServer' = ToServer
           \/ \E r : /\ ToServer' = Append(ToServer, r)
                     /\ ~IsItem(r)
                     /\ Carries(r, "end_of_early_data") => c'.early = "SERVER_FINISHED_RECEIVED"
           \/ /\ ToServer # <<>> /\ ToServer' = Tail(ToServer)
              /\ ~IsItem(ToServer[1]) \/ failed'.server # "no" \/ ~NothingSkipped'
    PROVE  EarlyInv'
<1>1. IsSeq(ToServer)
  BY QueuesAre
<1>2. PICK d \in {0, 1} : ItemsComeFrom(d)
  BY <1>1, ItemsMove
<1>3. ItemsAreNumbers' /\ ItemsAreWritten' /\ ItemsAreOrdered'
  BY <1>2, OrderStays DEF EarlyInv
<1>4. EndIsLast'
  BY <1>1, EndStaysLast DEF EarlyInv, ClientGoesOn
<1>5. \A a : WasRead(a) => WasRead(a)'
  BY DEF WasRead
<1>6. ItemsAreKept'
  <2> SUFFICES ASSUME failed'.server = "no", NothingSkipped', NEW a \in 1 .. app.next - 1
               PROVE  (WasRead(a) \/ IsOnItsWay(a))'
    BY DEF ItemsAreKept
  <2>1. WasRead(a) \/ IsOnItsWay(a)
    BY DEF EarlyInv, ItemsAreKept, ServerGoesOn
  <2>2. IsOnItsWay(a) => IsOnItsWay(a)'
    BY <1>1, ItemsStayOnTheirWay
  <2> QED
    BY <1>5, <2>1, <2>2
<1>7. AcceptedIsRead'
  <2>1. CASE PastEarlyData' /\ PastEarlyData
    <3>1. /\ c.early = "SERVER_FINISHED_RECEIVED" /\ NoItemFrom(1)
          /\ \A a \in 1 .. app.next - 1 : WasRead(a)
      BY <2>1 DEF EarlyInv, AcceptedIsRead
    <3>2. NoItemFrom(1)'
      BY <1>1, <1>2, <3>1, NoItemsStay
    <3>3. \A a \in 1 .. app.next - 1 : WasRead(a)'
      BY <1>5, <3>1
    <3> QED
      BY <3>1, <3>2, <3>3 DEF AcceptedIsRead, ClientGoesOn
  <2>2. CASE ~PastEarlyData'
    BY <2>2 DEF AcceptedIsRead
  <2> QED
    BY <2>1, <2>2 DEF ServerGoesOn
<1>8. NothingIsRead'
  BY DEF EarlyInv, NothingIsRead, ServerGoesOn
<1> QED
  BY <1>3, <1>4, <1>6, <1>7, <1>8 DEF EarlyInv, ServerGoesOn, ClientGoesOn

\* A server that is left alone keeps its part.
LEMMA ServerIdle ==
    ASSUME EarlyInv, s' = s
    PROVE  ServerGoesOn
BY DEF EarlyInv, ServerGoesOn, AcceptanceIsRight, NothingSkipped, PastEarlyData

\* A client that is left alone keeps its part.
LEMMA ClientIdle ==
    ASSUME EarlyInv, c' = c
    PROVE  ClientGoesOn
BY DEF EarlyInv, ClientGoesOn, ClientEnds

\* An endpoint that refuses a record, or gives up, reads nothing.
LEMMA EarlyRefuses ==
    ASSUME TlsInv, EarlyInv, NEW e \in Endpoints, net[e] # <<>>, NEW why, why # "no",
           Refuses(e, why)
    PROVE  EarlyInv'
<1>1. /\ QueuesAreSeqs /\ Consume(e) /\ UNCHANGED <<conf, c, s, out, app>>
      /\ failed' = [failed EXCEPT ![e] = why]
  BY DEF TlsInv, Refuses, GivesUp
<1>2. ServerGoesOn /\ ClientGoesOn
  BY <1>1, ServerIdle, ClientIdle
<1>3. CASE e = "client"
  <2>1. ToServer' = ToServer /\ failed'.server = failed.server
    BY <1>1, <1>3, ClientConsumes DEF QueuesAreSeqs, Endpoints
  <2> QED
    BY <1>1, <1>2, <2>1, EarlyFrame
<1>4. CASE e = "server"
  <2>1. /\ ToServer # <<>> /\ ToServer' = Tail(ToServer) /\ failed'.server # "no"
    BY <1>1, <1>4, ServerConsumes DEF QueuesAreSeqs, Endpoints
  <2> QED
    BY <1>1, <1>2, <2>1, EarlyFrame
<1> QED
  BY <1>3, <1>4 DEF Endpoints

-----------------------------------------------------------------------------
(* The operations of the client.                                           *)

\* What a client writes that is no early data goes behind the items; the end
\* of early data comes after the server's Finished.
LEMMA ClientStream ==
    ASSUME TlsInv, EarlyInv, ClientStep
    PROVE  \/ ToServer' = ToServer
           \/ \E r : /\ ToServer' = Append(ToServer, r)
                     /\ ~IsItem(r)
                     /\ Carries(r, "end_of_early_data") => c.early = "SERVER_FINISHED_RECEIVED"
<1>1. QueuesAreSeqs /\ DOMAIN failed = Endpoints
  BY DEF TlsInv, QueuesAreSeqs
<1>2. ASSUME net' = net, out' = out
      PROVE  ToServer' = ToServer
  BY <1>1, <1>2, NothingMoves
<1>3. ASSUME net.client # <<>>, Consume("client"), out' = out
      PROVE  ToServer' = ToServer
  BY <1>1, <1>3, ClientConsumes
<1>4. ASSUME NEW ep, NEW m, NEW next, ClientWrites(ep, m, next), out.client = <<>>,
             m.t = "end_of_early_data" => c.early = "SERVER_FINISHED_RECEIVED"
      PROVE  \E r : /\ ToServer' = Append(ToServer, r)
                    /\ ~IsItem(r)
                    /\ Carries(r, "end_of_early_data") => c.early = "SERVER_FINISHED_RECEIVED"
  <2> DEFINE r == HandshakeRecord(ep, m)
  <2>1. Emit("client", r) /\ net' = net
    BY <1>4 DEF ClientWrites
  <2>2. ~IsItem(r) /\ (Carries(r, "end_of_early_data") => m.t = "end_of_early_data")
    BY DEF HandshakeRecord, IsItem, Carries
  <2> HIDE DEF r
  <2>3. ToServer' = Append(ToServer, r)
    BY <1>1, <1>4, <2>1, ClientEmits
  <2> QED
    BY <1>4, <2>2, <2>3
<1>5. ASSUME NEW next, WriteCcs("client", next), out.client = <<>>
      PROVE  \/ ToServer' = ToServer
             \/ \E r : /\ ToServer' = Append(ToServer, r)
                       /\ ~IsItem(r) /\ ~Carries(r, "end_of_early_data")
  <2> DEFINE r == CcsRecord(c)
  <2>1. (out' = out \/ Emit("client", r)) /\ net' = net
    BY <1>5 DEF WriteCcs, Context
  <2>2. ~IsItem(r) /\ ~Carries(r, "end_of_early_data")
    BY DEF CcsRecord, IsItem, Carries
  <2> HIDE DEF r
  <2> QED
    BY <1>1, <1>2, <1>5, <2>1, <2>2, ClientEmits
<1>6. CASE \/ ProcessHelloRetryRequest \/ ProcessServerHello \/ ProcessEncryptedExtensions
           \/ ProcessServerCertificate \/ ProcessServerCertificateVerify \/ ProcessServerFinished
           \/ ProcessNewSessionTicket
  <2>1. net.client # <<>> /\ Consume("client") /\ out' = out
    BY <1>6 DEF ProcessHelloRetryRequest, ProcessServerHello, ProcessEncryptedExtensions,
       ProcessServerCertificate, ProcessServerCertificateVerify, ProcessServerFinished,
       ProcessNewSessionTicket, Receives, Reading, ClientReads, Refuses, GivesUp
  <2> QED
    BY <1>3, <2>1
<1>7. CASE ProcessCertificateRequest
  <2>1. net.client # <<>> /\ out' = out /\ (Consume("client") \/ net' = net)
    BY <1>7 DEF ProcessCertificateRequest, Receives, Reading, ClientReads
  <2> QED
    BY <1>2, <1>3, <2>1
<1>8. CASE ClientFlushBuffers \/ ClientHandshakeWrapup
  BY <1>2, <1>8 DEF ClientFlushBuffers, ClientHandshakeWrapup
<1>9. CASE \/ ClientCcsAfterClientHello \/ ClientCcsBefore2ndClientHello
           \/ ClientCcsAfterServerFinished
  BY <1>5, <1>9 DEF ClientCcsAfterClientHello, ClientCcsBefore2ndClientHello,
                    ClientCcsAfterServerFinished, CanStep
<1>10. CASE WriteClientHello
  <2>1. ClientHelloMessage.t = "client_hello" /\ out.client = <<>>
    BY <1>10 DEF ClientHelloMessage, WriteClientHello, CanStep
  <2>2. \E next : ClientWrites(c, ClientHelloMessage, next)
    BY <1>10 DEF WriteClientHello
  <2> QED
    BY <1>4, <2>1, <2>2
<1>11. CASE WriteEndOfEarlyData
  BY <1>4, <1>11 DEF WriteEndOfEarlyData, CanStep, Context, EarlyInv, ClientEnds
<1>12. CASE WriteClientCertificate
  <2>1. out.client = <<>>
    BY <1>12 DEF WriteClientCertificate, CanStep
  <2>2. \/ \E ep, next : ClientWrites(ep, [t |-> "certificate", cert |-> conf.c_cert], next)
        \/ net' = net /\ out' = out
    BY <1>12 DEF WriteClientCertificate
  <2> QED
    BY <1>2, <1>4, <2>1, <2>2
<1>13. CASE WriteClientCertificateVerify
  BY <1>4, <1>13 DEF WriteClientCertificateVerify, CanStep
<1>14. CASE WriteClientFinished
  BY <1>4, <1>14 DEF WriteClientFinished, CanStep
<1> QED
  BY <1>6, <1>7, <1>8, <1>9, <1>10, <1>11, <1>12, <1>13, <1>14 DEF ClientStep

\* The client does not go back on the end of early data.
LEMMA ClientEarlyState ==
    ASSUME TlsInv, EarlyInv, ClientStep
    PROVE  ClientGoesOn /\ s' = s /\ app' = app /\ failed'.server = failed.server
<1>1. /\ DOMAIN c = ClientFields /\ DOMAIN failed = Endpoints
      /\ c.early = "SERVER_FINISHED_RECEIVED" => c.state \in ClientSecond
      /\ c.state = "END_OF_EARLY_DATA" => c.early = "SERVER_FINISHED_RECEIVED"
  BY DEF TlsInv, QueuesAreSeqs, ClientSide, ClientInFirstFlight, EarlyInv, ClientEnds
<1>2. ASSUME NEW why, Refuses("client", why)
      PROVE  ClientGoesOn /\ s' = s /\ app' = app /\ failed'.server = failed.server
  BY <1>1, <1>2 DEF Refuses, GivesUp, ClientGoesOn, ClientEnds, Endpoints
<1>3. CASE \/ WriteClientHello \/ ClientCcsAfterClientHello \/ ClientCcsBefore2ndClientHello
  <2>1. /\ c.state \notin ClientSecond
        /\ s' = s /\ app' = app /\ failed' = failed
        /\ c'.state \in {"CLIENT_CCS_AFTER_CLIENT_HELLO", "SERVER_HELLO", "CLIENT_HELLO"}
    BY <1>1, <1>3, ZenonT(40) DEF WriteClientHello, ClientCcsAfterClientHello, ClientCcsBefore2ndClientHello,
       ClientWrites, WriteCcs, CanStep, Context, ClientSecond, ClientDone, ClientFields
  <2> QED
    BY <1>1, <2>1 DEF ClientGoesOn, ClientEnds
<1>4. CASE ProcessHelloRetryRequest
  <2>1. CASE Refuses("client", "retry")
    BY <1>2, <2>1
  <2>2. CASE ~Refuses("client", "retry")
    <3>1. /\ c.state \notin ClientSecond
          /\ s' = s /\ app' = app /\ failed' = failed
          /\ c'.state \in {"CLIENT_CCS_BEFORE_2ND_CLIENT_HELLO", "CLIENT_HELLO"}
      BY <1>1, <1>4, <2>2 DEF ProcessHelloRetryRequest, ClientReads, ClientSecond, ClientDone,
         ClientFields
    <3> QED
      BY <1>1, <3>1 DEF ClientGoesOn, ClientEnds
  <2> QED
    BY <2>1, <2>2
<1>5. CASE ProcessServerHello
  <2>1. CASE Refuses("client", "server hello")
    BY <1>2, <2>1
  <2>2. CASE ~Refuses("client", "server hello")
    <3>1. /\ c.state \notin ClientSecond
          /\ s' = s /\ app' = app /\ failed' = failed /\ c'.state = "ENCRYPTED_EXTENSIONS"
      BY <1>1, <1>5, <2>2 DEF ProcessServerHello, ClientReads, ClientSecond, ClientDone,
         ClientFields
    <3> QED
      BY <1>1, <3>1 DEF ClientGoesOn, ClientEnds
  <2> QED
    BY <2>1, <2>2
<1>6. CASE ProcessEncryptedExtensions
  <2>1. CASE Refuses("client", "early data")
    BY <1>2, <2>1
  <2>2. CASE ~Refuses("client", "early data")
    <3>1. c.state = "ENCRYPTED_EXTENSIONS"
      <4>1. c.state \in DOMAIN ClientWaits /\ "encrypted_extensions" \in ClientWaits[c.state]
        BY <1>6, ClientReceives DEF ProcessEncryptedExtensions
      <4> QED
        BY <4>1 DEF ClientWaits
    <3>2. /\ c.state \notin ClientSecond
          /\ s' = s /\ app' = app /\ failed' = failed
          /\ c'.state \in {"SERVER_FINISHED", "CERTIFICATE_REQUEST"}
      BY <1>1, <1>6, <2>2, <3>1 DEF ProcessEncryptedExtensions, ClientReads, ClientSecond,
         ClientDone, ClientFields
    <3> QED
      BY <1>1, <3>2 DEF ClientGoesOn, ClientEnds
  <2> QED
    BY <2>1, <2>2
<1>7. CASE ProcessCertificateRequest
  <2>1. /\ c.state \notin ClientSecond
        /\ s' = s /\ app' = app /\ failed' = failed /\ c'.state = "SERVER_CERTIFICATE"
    BY <1>1, <1>7 DEF ProcessCertificateRequest, ClientReads, ClientSecond, ClientDone,
       ClientFields
  <2> QED
    BY <1>1, <2>1 DEF ClientGoesOn, ClientEnds
<1>8. CASE ProcessServerCertificate
  <2>1. CASE Refuses("client", "peer certificate")
    BY <1>2, <2>1
  <2>2. CASE ~Refuses("client", "peer certificate")
    <3>1. /\ c.state \notin ClientSecond
          /\ s' = s /\ app' = app /\ failed' = failed /\ c'.state = "CERTIFICATE_VERIFY"
      BY <1>1, <1>8, <2>2 DEF ProcessServerCertificate, ClientReads, ClientSecond, ClientDone,
         ClientFields
    <3> QED
      BY <1>1, <3>1 DEF ClientGoesOn, ClientEnds
  <2> QED
    BY <2>1, <2>2
<1>9. CASE ProcessServerCertificateVerify
  <2>1. CASE Refuses("client", "signature")
    BY <1>2, <2>1
  <2>2. CASE ~Refuses("client", "signature")
    <3>1. c.state = "CERTIFICATE_VERIFY"
      <4>1. c.state \in DOMAIN ClientWaits /\ "certificate_verify" \in ClientWaits[c.state]
        BY <1>9, ClientReceives DEF ProcessServerCertificateVerify
      <4> QED
        BY <4>1 DEF ClientWaits
    <3>2. /\ c.state \notin ClientSecond
          /\ s' = s /\ app' = app /\ failed' = failed /\ c'.state = "SERVER_FINISHED"
      BY <1>1, <1>9, <2>2, <3>1 DEF ProcessServerCertificateVerify, ClientReads, ClientSecond,
         ClientDone, ClientFields
    <3> QED
      BY <1>1, <3>2 DEF ClientGoesOn, ClientEnds
  <2> QED
    BY <2>1, <2>2
<1>10. CASE ProcessServerFinished
  <2>1. CASE Refuses("client", "finished")
    BY <1>2, <2>1
  <2>2. CASE ~Refuses("client", "finished")
    <3>1. c.state = "SERVER_FINISHED"
      <4>1. c.state \in DOMAIN ClientWaits /\ "finished" \in ClientWaits[c.state]
        BY <1>10, ClientReceives DEF ProcessServerFinished
      <4> QED
        BY <4>1 DEF ClientWaits
    <3>2. /\ c.state \notin ClientSecond
          /\ s' = s /\ app' = app /\ failed' = failed
          /\ c'.state = "END_OF_EARLY_DATA" => c'.early = "SERVER_FINISHED_RECEIVED"
      BY <1>1, <1>10, <2>2, <3>1 DEF ProcessServerFinished, ClientReads, ClientSecond,
         ClientDone, ClientFields
    <3> QED
      BY <1>1, <3>2 DEF ClientGoesOn, ClientEnds
  <2> QED
    BY <2>1, <2>2
<1>11. CASE \/ WriteEndOfEarlyData \/ ClientCcsAfterServerFinished \/ WriteClientCertificate
            \/ WriteClientCertificateVerify \/ WriteClientFinished \/ ClientFlushBuffers
            \/ ClientHandshakeWrapup \/ ProcessNewSessionTicket
  <2> DEFINE Goal == /\ c'.early = c.early
                     /\ c'.state # "END_OF_EARLY_DATA" \/ c'.state = c.state
                     /\ s' = s /\ app' = app /\ failed' = failed
  <2> SUFFICES Goal
    BY <1>1 DEF ClientGoesOn, ClientEnds
  <2>1. CASE \/ ClientCcsAfterServerFinished \/ ClientFlushBuffers \/ ClientHandshakeWrapup
    BY <1>1, <2>1 DEF ClientCcsAfterServerFinished, ClientFlushBuffers, ClientHandshakeWrapup,
       WriteCcs, ClientFields
  <2>2. CASE WriteEndOfEarlyData \/ WriteClientCertificateVerify \/ WriteClientFinished
    BY <1>1, <2>2 DEF WriteEndOfEarlyData, WriteClientCertificateVerify, WriteClientFinished,
       ClientWrites, ClientFields
  <2>3. CASE WriteClientCertificate
    <3> DEFINE st == IF c.client_auth /\ conf.c_cert # "none"
                     THEN "CLIENT_CERTIFICATE_VERIFY" ELSE "CLIENT_FINISHED"
               next == [c EXCEPT !.tout = c.handshake_key, !.state = st]
    <3>1. /\ s' = s /\ app' = app /\ failed' = failed
          /\ c' = next \/ \E tr : c' = [next EXCEPT !.tr = tr]
      BY <1>1, <2>3 DEF WriteClientCertificate, ClientWrites, ClientFields
    <3>2. st # "END_OF_EARLY_DATA"
      OBVIOUS
    <3> HIDE DEF st
    <3>3. next.early = c.early /\ next.state = st /\ DOMAIN next = ClientFields
      BY <1>1 DEF ClientFields
    <3> HIDE DEF next
    <3>4. c'.early = c.early /\ c'.state = st
      BY <3>1, <3>3 DEF ClientFields
    <3> QED
      BY <3>1, <3>2, <3>4
  <2>4. CASE ProcessNewSessionTicket
    BY <1>1, <2>4 DEF ProcessNewSessionTicket, ClientReads, ClientFields
  <2> QED
    BY <1>11, <2>1, <2>2, <2>3, <2>4
<1> QED
  BY <1>3, <1>4, <1>5, <1>6, <1>7, <1>8, <1>9, <1>10, <1>11 DEF ClientStep

\* No step of the client's handshake disturbs early data.
LEMMA ClientStepKeepsEarly ==
    ASSUME TlsInv, EarlyInv, ClientStep
    PROVE  EarlyInv'
<1>1. ClientGoesOn /\ s' = s /\ app' = app /\ failed'.server = failed.server
  BY ClientEarlyState
<1>2. ServerGoesOn
  BY <1>1, ServerIdle
<1>3. QueuesAreSeqs
  BY DEF TlsInv
<1> QED
  BY <1>1, <1>2, <1>3, ClientStream, EarlyFrame DEF ClientGoesOn

-----------------------------------------------------------------------------
(* The operations of the server.                                           *)

ServerCertificates == {"CERTIFICATE_REQUEST", "SERVER_CERTIFICATE", "CERTIFICATE_VERIFY"}

\* After the ClientHello whether early data is accepted stays as it is.
LEMMA AcceptanceStays ==
    ASSUME EarlyInv,
           s'.early_accepted = s.early_accepted, s'.mode = s.mode,
           s'.discard = s.discard \/ s'.discard = "NO_DISCARD",
           s'.state \notin ServerBegins,
           s'.state \in {"SERVER_HELLO"} \cup ServerKeyed \cup ServerSecond,
           s'.state = "END_OF_EARLY_DATA" => s.early_accepted,
           s.early_accepted => s'.state \notin ServerCertificates,
           s.early_accepted /\ s'.state \in ServerSecond \ {"END_OF_EARLY_DATA"} =>
               s.state \in ServerSecond \ {"END_OF_EARLY_DATA"}
    PROVE  ServerGoesOn
BY DEF EarlyInv, ServerGoesOn, AcceptanceIsRight, NothingSkipped, PastEarlyData, ServerBegins,
       ServerCertificates

\* The server decides on early data when it reads the first ClientHello.
LEMMA ProcessClientHelloDecides ==
    ASSUME TlsInv, EarlyInv, ProcessClientHello
    PROVE  \/ \E why : why # "no" /\ Refuses("server", why)
           \/ ServerGoesOn /\ UNCHANGED <<c, app, failed>>
<1> DEFINE m == Message("server")
           psk == SelectedPsk(m)
           mode == SelectedMode(m)
           name == IF psk = 0 THEN "zero" ELSE m.psks[psk]
           tr == Append(s.tr, m)
           resume == s.resume \/ (mode \in PskModes /\ name = "ticket")
           accepted == AcceptsEarlyData(m, resume)
           why == IF s.hrr /\ m.early THEN "early data"
                  ELSE IF mode = "none" THEN "key exchange" ELSE "binder"
<1>1. DOMAIN s = ServerFields /\ AcceptanceIsRight
  BY DEF TlsInv, ServerSide, EarlyInv
<1>2. s.state = "CLIENT_HELLO"
  <2>1. /\ s.state \in DOMAIN ServerWaits /\ "client_hello" \in ServerWaits[s.state]
    BY ServerReceives DEF ProcessClientHello
  <2> QED
    BY <2>1 DEF ServerWaits
<1>3. \/ Refuses("server", "early data") \/ Refuses("server", "binder")
      \/ Refuses("server", "key exchange")
      \/ /\ ~(s.hrr /\ m.early)
         /\ UNCHANGED <<c, app, failed>>
         /\ s' = [s EXCEPT
                    !.mode = mode, !.selected = psk, !.tr = tr, !.resume = resume,
                    !.psk = IF mode \in PskModes THEN name ELSE "zero",
                    !.share = IF mode = "psk" THEN "none" ELSE m.share,
                    !.groups = m.groups, !.psk_modes = m.psk_modes,
                    !.limit = IF name = "ticket" THEN MaxEarly ELSE s.limit,
                    !.early_accepted = IF m.early THEN accepted ELSE s.early_accepted,
                    !.early_key = IF accepted
                                  THEN Key("early", "ticket", "none", tr) ELSE s.early_key,
                    !.discard = DiscardAfter(m, accepted),
                    !.state = IF RetryRequired(m) THEN "HELLO_RETRY_REQUEST"
                              ELSE "SERVER_HELLO"]
  BY <1>1 DEF ProcessClientHello, ServerReads, ServerFields
<1>4. /\ accepted => m.early /\ ~RetryRequired(m) /\ resume
      /\ ~m.early \/ accepted => DiscardAfter(m, accepted) = "NO_DISCARD"
      /\ s.resume = FALSE => (resume => mode \in PskModes)
  BY DEF AcceptsEarlyData, DiscardAfter
<1> HIDE DEF m, psk, mode, name, tr, resume, accepted
<1>5. CASE /\ ~(s.hrr /\ m.early)
           /\ UNCHANGED <<c, app, failed>>
           /\ s' = [s EXCEPT
                    !.mode = mode, !.selected = psk, !.tr = tr, !.resume = resume,
                    !.psk = IF mode \in PskModes THEN name ELSE "zero",
                    !.share = IF mode = "psk" THEN "none" ELSE m.share,
                    !.groups = m.groups, !.psk_modes = m.psk_modes,
                    !.limit = IF name = "ticket" THEN MaxEarly ELSE s.limit,
                    !.early_accepted = IF m.early THEN accepted ELSE s.early_accepted,
                    !.early_key = IF accepted
                                  THEN Key("early", "ticket", "none", tr) ELSE s.early_key,
                    !.discard = DiscardAfter(m, accepted),
                    !.state = IF RetryRequired(m) THEN "HELLO_RETRY_REQUEST"
                              ELSE "SERVER_HELLO"]
  <2>1. /\ s'.mode = mode /\ s'.discard = DiscardAfter(m, accepted)
        /\ s'.early_accepted = (IF m.early THEN accepted ELSE s.early_accepted)
        /\ s'.state = (IF RetryRequired(m) THEN "HELLO_RETRY_REQUEST" ELSE "SERVER_HELLO")
    BY <1>1, <1>5 DEF ServerFields
  <2>2. /\ ~s.early_accepted
        /\ ~s.hrr => ~s.resume
        /\ s'.early_accepted => m.early /\ accepted
    BY <1>1, <1>2, <2>1 DEF AcceptanceIsRight, ServerBegins
  <2>3. s'.early_accepted =>
          /\ ~s.hrr /\ s'.state = "SERVER_HELLO"
          /\ mode \in PskModes /\ s'.discard = "NO_DISCARD"
    BY <1>4, <1>5, <2>1, <2>2
  <2>4. AcceptanceIsRight'
    BY <2>1, <2>2, <2>3 DEF AcceptanceIsRight, ServerBegins
  <2>5. /\ NothingSkipped' => NothingSkipped
        /\ ~PastEarlyData'
    BY <1>2, <2>1, <2>3 DEF NothingSkipped, PastEarlyData, ServerSecond, ServerDone, ServerTickets
  <2> QED
    BY <1>5, <2>2, <2>4, <2>5 DEF ServerGoesOn
<1> QED
  BY <1>3, <1>5

\* The operations of the server up to the ServerHello.
LEMMA ServerBeginsEarly ==
    ASSUME TlsInv, EarlyInv,
           \/ WriteHelloRetryRequest \/ ServerCcsAfterHelloRetryRequest \/ WriteServerHello
    PROVE  ServerGoesOn
<1>1. DOMAIN s = ServerFields /\ AcceptanceIsRight
  BY DEF TlsInv, ServerSide, EarlyInv
<1>2. CASE WriteHelloRetryRequest
  <2>1. s.state = "HELLO_RETRY_REQUEST"
    BY <1>2 DEF WriteHelloRetryRequest, CanStep, Context
  <2>2. CASE s' = s
    BY <2>2, ServerIdle
  <2>3. CASE s' # s
    <3>1. /\ s'.hrr = TRUE /\ s'.early_accepted = s.early_accepted
          /\ s'.state \in {"SERVER_CCS_AFTER_HELLO_RETRY_REQUEST", "CLIENT_HELLO"}
      BY <1>1, <1>2, <2>3, ZenonT(40) DEF WriteHelloRetryRequest, ServerWrites, GivesUp, ServerFields
    <3> QED
      BY <1>1, <2>1, <3>1 DEF ServerGoesOn, AcceptanceIsRight, NothingSkipped, PastEarlyData,
         ServerBegins, ServerSecond, ServerDone, ServerTickets
  <2> QED
    BY <2>2, <2>3
<1>3. CASE ServerCcsAfterHelloRetryRequest
  <2>1. /\ s.state = "SERVER_CCS_AFTER_HELLO_RETRY_REQUEST" /\ s'.state = "CLIENT_HELLO"
        /\ s'.hrr = s.hrr /\ s'.early_accepted = s.early_accepted
    BY <1>1, <1>3, ZenonT(40) DEF ServerCcsAfterHelloRetryRequest, WriteCcs, CanStep, Context, ServerFields
  <2> QED
    BY <1>1, <2>1 DEF ServerGoesOn, AcceptanceIsRight, NothingSkipped, PastEarlyData,
       ServerBegins, ServerSecond, ServerDone, ServerTickets
<1>4. CASE WriteServerHello
  <2>1. /\ s.state = "SERVER_HELLO"
        /\ s'.state \in {"SERVER_CCS_AFTER_SERVER_HELLO", "ENCRYPTED_EXTENSIONS"}
        /\ s'.early_accepted = s.early_accepted /\ s'.mode = s.mode /\ s'.discard = s.discard
    BY <1>1, <1>4 DEF WriteServerHello, ServerWrites, CanStep, Context, ServerFields
  <2> QED
    BY <2>1, AcceptanceStays DEF ServerBegins, ServerKeyed, ServerSecond, ServerDone,
       ServerTickets, ServerCertificates
<1> QED
  BY <1>2, <1>3, <1>4

\* The rest of the server's first flight.
LEMMA ServerFlightEarly ==
    ASSUME TlsInv, EarlyInv,
           \/ ServerCcsAfterServerHello \/ WriteEncryptedExtensions \/ WriteCertificateRequest
           \/ WriteServerCertificate \/ WriteServerCertificateVerify \/ WriteServerFinished
    PROVE  ServerGoesOn
<1>1. DOMAIN s = ServerFields /\ AcceptanceIsRight
  BY DEF TlsInv, ServerSide, EarlyInv
<1> DEFINE Kept == s'.early_accepted = s.early_accepted /\ s'.mode = s.mode
                   /\ s'.discard = s.discard
<1>2. CASE ServerCcsAfterServerHello
  <2>1. s.state = "SERVER_CCS_AFTER_SERVER_HELLO" /\ s'.state = "ENCRYPTED_EXTENSIONS" /\ Kept
    BY <1>1, <1>2 DEF ServerCcsAfterServerHello, WriteCcs, CanStep, Context, ServerFields
  <2> QED
    BY <2>1, AcceptanceStays DEF ServerBegins, ServerKeyed, ServerSecond, ServerDone,
       ServerTickets, ServerCertificates
<1>3. CASE WriteEncryptedExtensions
  <2>1. /\ s.state = "ENCRYPTED_EXTENSIONS" /\ Kept
        /\ s'.state \in {"SERVER_FINISHED", "CERTIFICATE_REQUEST"}
        /\ s.mode \in PskModes => s'.state = "SERVER_FINISHED"
    BY <1>1, <1>3 DEF WriteEncryptedExtensions, ServerWrites, CanStep, Context, ServerFields
  <2>2. s.early_accepted => s'.state = "SERVER_FINISHED"
    BY <1>1, <2>1 DEF AcceptanceIsRight
  <2> QED
    BY <2>1, <2>2, AcceptanceStays DEF ServerBegins, ServerKeyed, ServerSecond, ServerDone,
       ServerTickets, ServerCertificates
<1>4. CASE WriteCertificateRequest
  <2>1. s.state = "CERTIFICATE_REQUEST" /\ s'.state = "SERVER_CERTIFICATE" /\ Kept
    BY <1>1, <1>4, ZenonT(40) DEF WriteCertificateRequest, ServerWrites, CanStep, Context, ServerFields
  <2>2. ~s.early_accepted
    BY <1>1, <2>1 DEF AcceptanceIsRight
  <2> QED
    BY <2>1, <2>2, AcceptanceStays DEF ServerBegins, ServerKeyed, ServerSecond, ServerDone,
       ServerTickets, ServerCertificates
<1>5. CASE WriteServerCertificate
  <2>1. CASE s' = s
    BY <2>1, ServerIdle
  <2>2. CASE s' # s
    <3>1. s.state = "SERVER_CERTIFICATE" /\ s'.state = "CERTIFICATE_VERIFY" /\ Kept
      BY <1>1, <1>5, <2>2 DEF WriteServerCertificate, ServerWrites, GivesUp, CanStep, Context,
         ServerFields
    <3>2. ~s.early_accepted
      BY <1>1, <3>1 DEF AcceptanceIsRight
    <3> QED
      BY <3>1, <3>2, AcceptanceStays DEF ServerBegins, ServerKeyed, ServerSecond, ServerDone,
         ServerTickets, ServerCertificates
  <2> QED
    BY <2>1, <2>2
<1>6. CASE WriteServerCertificateVerify
  <2>1. s.state = "CERTIFICATE_VERIFY" /\ s'.state = "SERVER_FINISHED" /\ Kept
    BY <1>1, <1>6 DEF WriteServerCertificateVerify, ServerWrites, CanStep, Context, ServerFields
  <2> QED
    BY <2>1, AcceptanceStays DEF ServerBegins, ServerKeyed, ServerSecond, ServerDone,
       ServerTickets, ServerCertificates
<1>7. CASE WriteServerFinished
  <2>1. /\ s.state = "SERVER_FINISHED" /\ Kept
        /\ s'.state \in {"END_OF_EARLY_DATA", "CLIENT_CERTIFICATE", "CLIENT_FINISHED"}
        /\ s'.state = "END_OF_EARLY_DATA" <=> s.early_accepted
    BY <1>1, <1>7 DEF WriteServerFinished, ServerWrites, SecondFlight, CanStep, Context,
       ServerFields
  <2> QED
    BY <2>1, AcceptanceStays DEF ServerBegins, ServerKeyed, ServerSecond, ServerDone,
       ServerTickets, ServerCertificates
<1> QED
  BY <1>2, <1>3, <1>4, <1>5, <1>6, <1>7

\* The second flight of the client, and the tickets.
LEMMA ServerEndsEarly ==
    ASSUME TlsInv, EarlyInv,
           \/ ServerHandshakeWrapup \/ WriteNewSessionTicket \/ ServerNewSessionTicketFlush
           \/ ProcessClientCertificate \/ ProcessClientCertificateVerify \/ ProcessClientFinished
    PROVE  ServerGoesOn
<1>1. DOMAIN s = ServerFields /\ AcceptanceIsRight
  BY DEF TlsInv, ServerSide, EarlyInv
<1> DEFINE Kept == /\ s'.early_accepted = s.early_accepted /\ s'.mode = s.mode
                   /\ s'.discard = s.discard \/ s'.discard = "NO_DISCARD"
           Second == ServerSecond \ {"END_OF_EARLY_DATA"}
<1>2. CASE s' = s
  BY <1>2, ServerIdle
<1>3. ASSUME Kept, s.state \in Second, s'.state \in Second
      PROVE  ServerGoesOn
  BY <1>3, AcceptanceStays DEF ServerBegins, ServerKeyed, ServerSecond, ServerDone,
     ServerTickets, ServerCertificates
<1>4. CASE ServerHandshakeWrapup
  <2>1. Kept /\ s.state \in Second /\ s'.state \in Second
    BY <1>1, <1>4 DEF ServerHandshakeWrapup, CanStep, Context, ServerFields, ServerSecond,
       ServerDone, ServerTickets
  <2> QED
    BY <1>3, <2>1
<1>5. CASE WriteNewSessionTicket
  <2>1. Kept /\ s.state \in Second /\ s'.state \in Second
    BY <1>1, <1>5, ZenonT(40) DEF WriteNewSessionTicket, CanStep, Context, ServerFields, ServerSecond,
       ServerDone, ServerTickets
  <2> QED
    BY <1>3, <2>1
<1>6. CASE ServerNewSessionTicketFlush
  <2>1. Kept /\ s.state \in Second /\ s'.state \in Second
    BY <1>1, <1>6 DEF ServerNewSessionTicketFlush, CanStep, Context, ServerFields, ServerSecond,
       ServerDone, ServerTickets
  <2> QED
    BY <1>3, <2>1
<1>7. CASE ProcessClientCertificate /\ s' # s
  <2>1. /\ s.state \in DOMAIN ServerWaits /\ "certificate" \in ServerWaits[s.state]
    BY <1>7, ServerReceives DEF ProcessClientCertificate
  <2>2. s.state \in Second
    BY <2>1 DEF ServerWaits, ServerSecond
  <2>3. Kept /\ s'.state \in Second
    BY <1>1, <1>7, ZenonT(40) DEF ProcessClientCertificate, ServerReads, Refuses, GivesUp, ServerFields,
       ServerSecond
  <2> QED
    BY <1>3, <2>2, <2>3
<1>8. CASE ProcessClientCertificateVerify /\ s' # s
  <2>1. /\ s.state \in DOMAIN ServerWaits /\ "certificate_verify" \in ServerWaits[s.state]
    BY <1>8, ServerReceives DEF ProcessClientCertificateVerify
  <2>2. s.state \in Second
    BY <2>1 DEF ServerWaits, ServerSecond
  <2>3. Kept /\ s'.state \in Second
    BY <1>1, <1>8, ZenonT(40) DEF ProcessClientCertificateVerify, ServerReads, Refuses, GivesUp, ServerFields,
       ServerSecond
  <2> QED
    BY <1>3, <2>2, <2>3
<1>9. CASE ProcessClientFinished /\ s' # s
  <2>1. /\ s.state \in DOMAIN ServerWaits /\ "finished" \in ServerWaits[s.state]
    BY <1>9, ServerReceives DEF ProcessClientFinished
  <2>2. s.state \in Second
    BY <2>1 DEF ServerWaits, ServerSecond
  <2>3. Kept /\ s'.state \in Second
    BY <1>1, <1>9, ZenonT(40) DEF ProcessClientFinished, ServerReads, Refuses, GivesUp, ServerFields,
       ServerSecond, ServerDone
  <2> QED
    BY <1>3, <2>2, <2>3
<1> QED
  BY <1>2, <1>4, <1>5, <1>6, <1>7, <1>8, <1>9

\* Where the end of early data is, everything before it was read.
LEMMA ProcessEndOfEarlyDataEnds ==
    ASSUME TlsInv, EarlyInv, ProcessEndOfEarlyData
    PROVE  ServerGoesOn
<1>1. /\ DOMAIN s = ServerFields /\ AcceptanceIsRight /\ QueuesAreSeqs
      /\ net.server # <<>> /\ failed.server = "no" /\ ToServer # <<>>
      /\ Carries(ToServer[1], "end_of_early_data")
  BY ServerReceives DEF TlsInv, ServerSide, EarlyInv, ProcessEndOfEarlyData
<1>2. s.state = "END_OF_EARLY_DATA"
  <2>1. /\ s.state \in DOMAIN ServerWaits /\ "end_of_early_data" \in ServerWaits[s.state]
    BY ServerReceives DEF ProcessEndOfEarlyData
  <2> QED
    BY <2>1 DEF ServerWaits
<1>3. s.early_accepted
  BY <1>1, <1>2 DEF AcceptanceIsRight
<1>4. /\ Consume("server") /\ UNCHANGED <<c, app, out>>
      /\ s'.early_accepted = s.early_accepted /\ s'.mode = s.mode /\ s'.discard = s.discard
      /\ s'.state \in {"CLIENT_CERTIFICATE", "CLIENT_FINISHED"}
  BY <1>1 DEF ProcessEndOfEarlyData, ServerReads, SecondFlight, ServerFields
<1>5. IsSeq(ToServer) /\ Len(ToServer) \in Nat \ {0} /\ ToServer' = Tail(ToServer)
  BY <1>1, <1>4, QueuesAre, ServerConsumes, TailIs
<1>6. c.early = "SERVER_FINISHED_RECEIVED" /\ NoItemFrom(1)
  BY <1>1, <1>5 DEF EarlyInv, EndIsLast
<1>7. \A a \in 1 .. app.next - 1 : WasRead(a)
  <2>1. NothingSkipped
    BY <1>3 DEF NothingSkipped
  <2> QED
    BY <1>1, <1>6, <2>1 DEF EarlyInv, ItemsAreKept, IsOnItsWay, NoItemFrom
<1>8. NoItemFrom(1)'
  <2>1. PICK d \in {0, 1} : ItemsComeFrom(d)
    BY <1>1, <1>5, ItemsMove
  <2> QED
    BY <1>5, <1>6, <2>1, NoItemsStay
<1>9. AcceptedIsRead'
  BY <1>4, <1>6, <1>7, <1>8 DEF AcceptedIsRead, WasRead
<1>10. AcceptanceIsRight'
  BY <1>1, <1>2, <1>4 DEF AcceptanceIsRight, ServerBegins, ServerSecond
<1> QED
  BY <1>3, <1>4, <1>9, <1>10 DEF ServerGoesOn, NothingSkipped

\* Except for early data the server takes no item, and it writes none.
LEMMA ServerStream ==
    ASSUME TlsInv, ServerStep, ~SkipEarlyData, ~ReadEarlyData
    PROVE  /\ c' = c /\ app' = app
           /\ failed'.server = "no" => failed.server = "no"
           /\ \/ ToServer' = ToServer
              \/ ToServer # <<>> /\ ToServer' = Tail(ToServer) /\ ~IsItem(ToServer[1])
<1>1. QueuesAreSeqs /\ DOMAIN failed = Endpoints
  BY DEF TlsInv, QueuesAreSeqs
<1>2. ASSUME net' = net, out.server = <<>>, out' = out \/ \E r : Emit("server", r)
      PROVE  ToServer' = ToServer
  BY <1>1, <1>2, NothingMoves, ServerEmits
<1>3. ASSUME NEW t, Receives("server", t), Consume("server"), out' = out
      PROVE  ToServer # <<>> /\ ToServer' = Tail(ToServer) /\ ~IsItem(ToServer[1])
  <2>1. net.server # <<>> /\ Carries(ToServer[1], t)
    BY <1>3, ServerReceives
  <2> QED
    BY <1>1, <1>3, <2>1, ServerConsumes DEF Carries, IsItem
<1>4. CASE \/ ProcessClientHello \/ ProcessEndOfEarlyData \/ ProcessClientCertificate
           \/ ProcessClientCertificateVerify \/ ProcessClientFinished
  <2>1. /\ c' = c /\ app' = app /\ Consume("server") /\ out' = out /\ failed.server = "no"
        /\ \E t : Receives("server", t)
    BY <1>4 DEF ProcessClientHello, ProcessEndOfEarlyData, ProcessClientCertificate,
       ProcessClientCertificateVerify, ProcessClientFinished, ServerReads, Refuses, GivesUp,
       Receives, Reading
  <2> QED
    BY <1>3, <2>1
<1>5. CASE \/ ServerCcsAfterHelloRetryRequest \/ ServerCcsAfterServerHello
  <2>1. /\ c' = c /\ app' = app /\ failed' = failed /\ net' = net /\ out.server = <<>>
        /\ out' = out \/ \E r : Emit("server", r)
    BY <1>5 DEF ServerCcsAfterHelloRetryRequest, ServerCcsAfterServerHello, WriteCcs, CanStep
  <2> QED
    BY <1>2, <2>1
<1>6. CASE \/ WriteHelloRetryRequest \/ WriteServerHello \/ WriteEncryptedExtensions
           \/ WriteCertificateRequest \/ WriteServerCertificate \/ WriteServerCertificateVerify
           \/ WriteServerFinished
  <2>1. /\ c' = c /\ app' = app /\ net' = net /\ out.server = <<>> /\ failed.server = "no"
        /\ out' = out \/ \E r : Emit("server", r)
    BY <1>6 DEF WriteHelloRetryRequest, WriteServerHello, WriteEncryptedExtensions,
       WriteCertificateRequest, WriteServerCertificate, WriteServerCertificateVerify,
       WriteServerFinished, ServerWrites, GivesUp, CanStep
  <2> QED
    BY <1>2, <2>1
<1>7. CASE ServerHandshakeWrapup \/ WriteNewSessionTicket \/ ServerNewSessionTicketFlush
  <2>1. /\ c' = c /\ app' = app /\ net' = net /\ out.server = <<>> /\ failed' = failed
        /\ out' = out \/ \E r : Emit("server", r)
    BY <1>7 DEF ServerHandshakeWrapup, WriteNewSessionTicket, ServerNewSessionTicketFlush, CanStep
  <2> QED
    BY <1>2, <2>1
<1> QED
  BY <1>4, <1>5, <1>6, <1>7 DEF ServerStep

\* The server discards early data only when it rejected it.
LEMMA SkipEarlyDataKeepsEarly ==
    ASSUME TlsInv, EarlyInv, SkipEarlyData
    PROVE  EarlyInv'
<1>1. /\ DOMAIN s = ServerFields /\ QueuesAreSeqs /\ net.server # <<>>
      /\ IsSkipped("server", Head(net.server))
  BY DEF TlsInv, ServerSide, SkipEarlyData, Reading
<1>2. CASE Refuses("server", "early data limit")
  BY <1>1, <1>2, EarlyRefuses DEF Endpoints
<1>3. CASE ~Refuses("server", "early data limit")
  <2>1. /\ s' = [s EXCEPT !.total = s.total + (1 + Overhead)]
        /\ Consume("server") /\ UNCHANGED <<conf, c, out, app, failed>>
    BY <1>1, <1>3 DEF SkipEarlyData, ServerFields
  <2>2. /\ s'.state = s.state /\ s'.hrr = s.hrr /\ s'.resume = s.resume /\ s'.mode = s.mode
        /\ s'.discard = s.discard /\ s'.early_accepted = s.early_accepted
    BY <1>1, <2>1 DEF ServerFields
  <2>3. ~NothingSkipped'
    <3>1. s.discard # "NO_DISCARD"
      BY <1>1 DEF IsSkipped
    <3> QED
      BY <2>2, <3>1 DEF EarlyInv, AcceptanceIsRight, NothingSkipped
  <2>4. ServerGoesOn
    BY <2>2 DEF EarlyInv, ServerGoesOn, AcceptanceIsRight, NothingSkipped, PastEarlyData
  <2>5. ClientGoesOn
    BY <2>1, ClientIdle
  <2>6. ToServer # <<>> /\ ToServer' = Tail(ToServer)
    BY <1>1, <2>1, ServerConsumes
  <2> QED
    BY <1>1, <2>1, <2>3, <2>4, <2>5, <2>6, EarlyFrame
<1> QED
  BY <1>2, <1>3

\* What the application reads is the first item on its way.
LEMMA ReadEarlyDataKeepsEarly ==
    ASSUME TlsInv, EarlyInv, ReadEarlyData
    PROVE  EarlyInv'
<1> DEFINE got == app.received
           new == Head(net.server).item
<1>1. /\ DOMAIN s = ServerFields /\ QueuesAreSeqs /\ net.server # <<>>
      /\ IsItem(Head(net.server)) /\ s.state = "END_OF_EARLY_DATA"
  BY DEF TlsInv, ServerSide, ReadEarlyData, Reading, IsEarlyData, IsItem
<1>2. CASE Refuses("server", "early data limit")
  BY <1>1, <1>2, EarlyRefuses DEF Endpoints
<1>3. CASE ~Refuses("server", "early data limit")
  <2>1. /\ s' = [s EXCEPT !.total = s.total + 1]
        /\ Consume("server") /\ UNCHANGED <<conf, c, out, failed>>
        /\ app' = [app EXCEPT !.received = Append(got, new)]
    BY <1>1, <1>3 DEF ReadEarlyData, ServerFields, EarlyInv, ItemsAreNumbers
  <2>2. /\ s'.state = s.state /\ s'.hrr = s.hrr /\ s'.resume = s.resume /\ s'.mode = s.mode
        /\ s'.discard = s.discard /\ s'.early_accepted = s.early_accepted
    BY <1>1, <2>1 DEF ServerFields
  <2>3. /\ DOMAIN app' = {"next", "retried", "received"} /\ app'.next = app.next
        /\ app'.retried = app.retried /\ app'.received = Append(got, new)
    BY <2>1 DEF EarlyInv, ItemsAreNumbers
  <2>4. /\ ToServer # <<>> /\ ToServer' = Tail(ToServer) /\ IsItem(ToServer[1])
        /\ ToServer[1].item = new /\ IsSeq(ToServer)
    BY <1>1, <2>1, QueuesAre, ServerConsumes
  <2>5. /\ Len(ToServer) \in Nat \ {0} /\ Len(ToServer') = Len(ToServer) - 1
        /\ \A i \in 1 .. Len(ToServer) - 1 : ToServer'[i] = ToServer[i + 1]
    BY <2>4, TailIs
  <2> HIDE DEF new
  <2>6. /\ IsSeq(app'.received) /\ Len(got) \in Nat /\ Len(app'.received) = Len(got) + 1
        /\ app'.received[Len(got) + 1] = new
        /\ \A i \in 1 .. Len(got) : app'.received[i] = got[i]
    <3>1. IsSeq(got)
      BY DEF EarlyInv, ItemsAreNumbers
    <3> HIDE DEF got
    <3> QED
      BY <2>3, <3>1, AppendIs
  <2>7. ItemsAreNumbers'
    BY <2>3, <2>6 DEF EarlyInv, ItemsAreNumbers
  <2>8. ItemsAreWritten'
    <3>1. Written(new) /\ \A i \in 1 .. Len(got) : Written(got[i])
      BY <2>4, <2>5 DEF EarlyInv, ItemsAreWritten
    <3>2. \A i \in 1 .. Len(app'.received) : Written(app'.received[i])
      BY <2>6, <3>1
    <3>3. \A k \in 1 .. Len(ToServer') : IsItem(ToServer'[k]) => Written(ToServer'[k].item)
      BY <2>5 DEF EarlyInv, ItemsAreWritten
    <3> QED
      BY <2>3, <3>2, <3>3 DEF ItemsAreWritten, Written
  <2>9. ItemsAreOrdered'
    <3> USE DEF EarlyInv, ItemsAreOrdered
    <3>1. \A i \in 1 .. Len(got) : NotAfter(got[i], new)
      BY <2>4, <2>5
    <3>2. \A k \in 1 .. Len(ToServer') : IsItem(ToServer'[k]) =>
              /\ NotAfter(new, ToServer'[k].item)
              /\ \A i \in 1 .. Len(got) : NotAfter(got[i], ToServer'[k].item)
      BY <2>4, <2>5
    <3>3. ASSUME NEW i \in 1 .. Len(app'.received), NEW j \in 1 .. Len(app'.received), i < j
          PROVE  NotAfter(app'.received[i], app'.received[j])
      <4>1. i \in 1 .. Len(got) /\ app'.received[i] = got[i]
        BY <2>6, <3>3
      <4>2. CASE j = Len(got) + 1
        <5>1. NotAfter(got[i], new)
          BY <3>1, <4>1
        <5> QED
          BY <2>6, <4>1, <4>2, <5>1
      <4>3. CASE j # Len(got) + 1
        <5>1. j \in 1 .. Len(got) /\ app'.received[j] = got[j]
          BY <2>6, <4>3
        <5>2. NotAfter(got[i], got[j])
          BY <3>3, <4>1, <5>1
        <5> QED
          BY <4>1, <5>1, <5>2
      <4> QED
        BY <4>2, <4>3
    <3>4. \A i \in 1 .. Len(app'.received), k \in 1 .. Len(ToServer') :
              IsItem(ToServer'[k]) => NotAfter(app'.received[i], ToServer'[k].item)
      BY <2>6, <3>2
    <3>5. \A j, k \in 1 .. Len(ToServer') :
              j < k /\ IsItem(ToServer'[j]) /\ IsItem(ToServer'[k]) =>
                  NotAfter(ToServer'[j].item, ToServer'[k].item)
      BY <2>5, SMTT(30)
    <3> QED
      BY <2>3, <3>3, <3>4, <3>5 DEF NotAfter
  <2>10. AcceptanceIsRight' /\ ClientEnds' /\ NothingIsRead'
    BY <1>1, <2>1, <2>2 DEF EarlyInv, AcceptanceIsRight, ClientEnds, NothingIsRead
  <2>11. EndIsLast'
    BY <2>1, <2>4, EndStaysLast DEF EarlyInv
  <2>12. ItemsAreKept'
    <3> SUFFICES ASSUME failed'.server = "no", NothingSkipped', NEW a \in 1 .. app.next - 1
                 PROVE  (WasRead(a) \/ IsOnItsWay(a))'
      BY <2>3 DEF ItemsAreKept
    <3>1. WasRead(a) \/ IsOnItsWay(a)
      BY <2>1, <2>2 DEF EarlyInv, ItemsAreKept, NothingSkipped
    <3>2. CASE WasRead(a)
      <4>1. PICK i \in 1 .. Len(got) : got[i] = a
        BY <3>2 DEF WasRead
      <4>2. i \in 1 .. Len(app'.received) /\ app'.received[i] = a
        BY <2>6, <4>1
      <4> QED
        BY <4>2 DEF WasRead
    <3>3. CASE IsOnItsWay(a) /\ a = new
      <4>1. Len(got) + 1 \in 1 .. Len(app'.received)
        BY <2>6
      <4> QED
        BY <2>6, <3>3, <4>1 DEF WasRead
    <3>4. CASE IsOnItsWay(a) /\ a # new
      <4>1. PICK k \in 1 .. Len(ToServer) : IsItem(ToServer[k]) /\ ToServer[k].item = a
        BY <3>4 DEF IsOnItsWay
      <4>2. k # 1
        BY <2>4, <3>4, <4>1
      <4>3. k - 1 \in 1 .. Len(ToServer') /\ ToServer'[k - 1] = ToServer[(k - 1) + 1]
        BY <2>5, <4>1, <4>2
      <4> QED
        BY <4>1, <4>3 DEF IsOnItsWay
    <3> QED
      BY <3>1, <3>2, <3>3, <3>4
  <2>13. AcceptedIsRead'
    BY <1>1, <2>2 DEF AcceptedIsRead, PastEarlyData
  <2> QED
    BY <2>7, <2>8, <2>9, <2>10, <2>11, <2>12, <2>13 DEF EarlyInv
<1> QED
  BY <1>2, <1>3

\* No step of the server disturbs early data.
LEMMA ServerStepKeepsEarly ==
    ASSUME TlsInv, EarlyInv, ServerStep
    PROVE  EarlyInv'
<1>1. CASE SkipEarlyData
  BY <1>1, SkipEarlyDataKeepsEarly
<1>2. CASE ReadEarlyData
  BY <1>2, ReadEarlyDataKeepsEarly
<1>3. CASE ~SkipEarlyData /\ ~ReadEarlyData
  <2>1. CASE \E why : why # "no" /\ Refuses("server", why) /\ ProcessClientHello
    <3>1. net.server # <<>>
      BY <2>1 DEF ProcessClientHello, Receives, Reading
    <3> QED
      BY <2>1, <3>1, EarlyRefuses DEF Endpoints
  <2>2. CASE ServerGoesOn
    <3>1. /\ c' = c /\ app' = app /\ QueuesAreSeqs
          /\ failed'.server = "no" => failed.server = "no"
          /\ \/ ToServer' = ToServer
             \/ ToServer # <<>> /\ ToServer' = Tail(ToServer) /\ ~IsItem(ToServer[1])
      BY <1>3, ServerStream DEF TlsInv
    <3>2. ClientGoesOn
      BY <3>1, ClientIdle
    <3> QED
      BY <2>2, <3>1, <3>2, EarlyFrame
  <2> QED
    BY <1>3, <2>1, <2>2, ProcessClientHelloDecides, ServerBeginsEarly, ServerFlightEarly,
       ServerEndsEarly, ProcessEndOfEarlyDataEnds DEF ServerStep
<1> QED
  BY <1>1, <1>2, <1>3

-----------------------------------------------------------------------------
(* Writing early data, and the steps of both sides.                        *)

\* An item is written behind all others, before the end of early data.
LEMMA WriteEarlyDataKeepsEarly ==
    ASSUME TlsInv, EarlyInv, NEW taken \in BOOLEAN, WriteEarlyData(taken)
    PROVE  EarlyInv'
<1> DEFINE r == DataRecord(c, app.next)
<1>1. /\ QueuesAreSeqs /\ DOMAIN c = ClientFields
      /\ c.early # "SERVER_FINISHED_RECEIVED" /\ s' = s /\ failed' = failed
  BY DEF TlsInv, ClientSide, WriteEarlyData
<1>2. c'.state = c.state /\ c'.early = c.early
  BY <1>1 DEF WriteEarlyData, ClientFields
<1>3. /\ DOMAIN app' = {"next", "retried", "received"} /\ app'.received = app.received
      /\ IF taken THEN app'.next = app.next + 1 /\ app'.retried = app.retried
         ELSE app'.next = app.next /\ app'.retried = app.retried \cup {app.next}
  BY DEF WriteEarlyData, EarlyInv, ItemsAreNumbers
<1>4. app.next \in Nat \ {0} /\ app.retried \subseteq 1 .. app.next /\ IsSeq(app.received)
  BY DEF EarlyInv, ItemsAreNumbers
<1>5. IsItem(r) /\ r.item = app.next /\ ~Carries(r, "end_of_early_data")
  BY DEF DataRecord, IsItem, Carries
<1>6. ToServer' = Append(ToServer, r)
  BY <1>1, EarlyDataGoesOut
<1> HIDE DEF r
<1>7. /\ Len(ToServer) \in Nat /\ Len(ToServer') = Len(ToServer) + 1
      /\ ToServer'[Len(ToServer) + 1] = r
      /\ \A i \in 1 .. Len(ToServer) : ToServer'[i] = ToServer[i]
  BY <1>1, <1>6, QueuesAre, AppendIs
<1>8. ItemsAreNumbers'
  BY <1>3, <1>4 DEF ItemsAreNumbers
<1>9. PICK n : n = app.next
  OBVIOUS
<1>10. /\ n \in 1 .. app'.next - 1 \cup app'.retried
       /\ \A a : Written(a) =>
              /\ a \in 1 .. app'.next - 1 \cup app'.retried
              /\ a < n \/ (a = n /\ a \in app'.retried)
       /\ \A a, b : NotAfter(a, b) => a < b \/ (a = b /\ a \in app'.retried)
  BY <1>3, <1>4, <1>9 DEF Written, NotAfter
<1>11. ItemsAreWritten' /\ ItemsAreOrdered'
  <2> USE DEF EarlyInv, ItemsAreOrdered, ItemsAreWritten
  <2>1. /\ \A k \in 1 .. Len(ToServer') :
               \/ k \in 1 .. Len(ToServer) /\ ToServer'[k] = ToServer[k]
               \/ k = Len(ToServer) + 1 /\ ToServer'[k].item = n
        /\ \A k \in 1 .. Len(ToServer') : k \in Nat
    BY <1>5, <1>7, <1>9
  <2>2. /\ \A i \in 1 .. Len(app.received) : Written(app.received[i])
        /\ \A k \in 1 .. Len(ToServer) : IsItem(ToServer[k]) => Written(ToServer[k].item)
    OBVIOUS
  <2>3. \A k \in 1 .. Len(ToServer') : IsItem(ToServer'[k]) =>
            ToServer'[k].item \in 1 .. app'.next - 1 \cup app'.retried
    BY <1>10, <2>1, <2>2
  <2>4. \A i \in 1 .. Len(app.received) :
            app.received[i] \in 1 .. app'.next - 1 \cup app'.retried
    BY <1>10, <2>2
  <2>5. \A i, j \in 1 .. Len(app.received) : i < j =>
            \/ app.received[i] < app.received[j]
            \/ app.received[i] = app.received[j] /\ app.received[i] \in app'.retried
    BY <1>10
  <2>6. ASSUME NEW i \in 1 .. Len(app.received), NEW k \in 1 .. Len(ToServer'),
               IsItem(ToServer'[k])
        PROVE  \/ app.received[i] < ToServer'[k].item
               \/ app.received[i] = ToServer'[k].item /\ app.received[i] \in app'.retried
    <3>1. CASE k \in 1 .. Len(ToServer) /\ ToServer'[k] = ToServer[k]
      <4>1. NotAfter(app.received[i], ToServer[k].item)
        BY <2>6, <3>1
      <4> QED
        BY <1>10, <3>1, <4>1
    <3>2. CASE ToServer'[k].item = n
      BY <1>10, <2>2, <3>2
    <3> QED
      BY <2>1, <3>1, <3>2
  <2>7. ASSUME NEW j \in 1 .. Len(ToServer'), NEW k \in 1 .. Len(ToServer'),
               j < k, IsItem(ToServer'[j]), IsItem(ToServer'[k])
        PROVE  \/ ToServer'[j].item < ToServer'[k].item
               \/ ToServer'[j].item = ToServer'[k].item /\ ToServer'[j].item \in app'.retried
    <3>1. j \in 1 .. Len(ToServer) /\ ToServer'[j] = ToServer[j]
      BY <1>7, <2>7
    <3>2. CASE k \in 1 .. Len(ToServer) /\ ToServer'[k] = ToServer[k]
      <4>1. NotAfter(ToServer[j].item, ToServer[k].item)
        BY <2>7, <3>1, <3>2
      <4> QED
        BY <1>10, <3>1, <3>2, <4>1
    <3>3. CASE ToServer'[k].item = n
      <4>1. Written(ToServer[j].item)
        BY <2>2, <2>7, <3>1
      <4> QED
        BY <1>10, <3>1, <3>3, <4>1
    <3> QED
      BY <2>1, <3>2, <3>3
  <2>8. ItemsAreWritten'
    BY <1>3, <2>3, <2>4 DEF Written
  <2>9. ItemsAreOrdered'
    BY <1>3, <2>5, <2>6, <2>7 DEF NotAfter
  <2> QED
    BY <2>8, <2>9
<1>12. AcceptanceIsRight' /\ ClientEnds' /\ NothingIsRead'
  BY <1>1, <1>2, <1>3 DEF EarlyInv, AcceptanceIsRight, ClientEnds, NothingIsRead
<1>13. EndIsLast'
  <2>1. \A k \in 1 .. Len(ToServer) : ~Carries(ToServer[k], "end_of_early_data")
    BY <1>1 DEF EarlyInv, EndIsLast
  <2>2. \A k \in 1 .. Len(ToServer') : ~Carries(ToServer'[k], "end_of_early_data")
    BY <1>5, <1>7, <2>1
  <2> QED
    BY <2>2 DEF EndIsLast, Carries
<1>14. ItemsAreKept'
  <2> SUFFICES ASSUME failed.server = "no", NothingSkipped, NEW a \in 1 .. app'.next - 1
               PROVE  (WasRead(a) \/ IsOnItsWay(a))'
    BY <1>1 DEF ItemsAreKept, NothingSkipped
  <2>1. CASE a = app.next
    BY <1>5, <1>7, <2>1 DEF IsOnItsWay
  <2>2. CASE a # app.next
    <3>1. a \in 1 .. app.next - 1
      BY <1>3, <1>4, <2>2
    <3>2. WasRead(a) \/ IsOnItsWay(a)
      BY <3>1 DEF EarlyInv, ItemsAreKept
    <3>3. WasRead(a) => WasRead(a)'
      BY <1>3 DEF WasRead
    <3>4. IsOnItsWay(a) => IsOnItsWay(a)'
      BY <1>1, <1>6, QueuesAre, ItemsStayOnTheirWay
    <3> QED
      BY <3>2, <3>3, <3>4
  <2> QED
    BY <2>1, <2>2
<1>15. AcceptedIsRead'
  BY <1>1 DEF EarlyInv, AcceptedIsRead, PastEarlyData
<1> QED
  BY <1>8, <1>11, <1>12, <1>13, <1>14, <1>15 DEF EarlyInv

\* Neither do the steps both endpoints have.
LEMMA CommonStepsKeepEarly ==
    ASSUME TlsInv, EarlyInv, NEW e \in Endpoints, CommonStep(e) \/ Flush(e)
    PROVE  EarlyInv'
<1>1. QueuesAreSeqs /\ DOMAIN failed = Endpoints /\ DOMAIN c = ClientFields /\ DOMAIN s = ServerFields
  BY DEF TlsInv, QueuesAreSeqs, ClientSide, ServerSide
<1>2. CASE HelloRequest(e)
  <2>1. UNCHANGED <<out, net, app, failed>> /\ ToServer' = ToServer
    BY <1>1, <1>2, NothingMoves DEF HelloRequest
  <2>2. ClientGoesOn
    <3>1. c'.early = c.early /\ (c' = c \/ c'.state = "CLIENT_HELLO")
      BY <1>1, <1>2 DEF HelloRequest, ClientFields, Endpoints
    <3> QED
      BY <3>1 DEF EarlyInv, ClientGoesOn, ClientEnds
  <2>3. ServerGoesOn
    <3>1. CASE s' = s
      BY <3>1, ServerIdle
    <3>2. CASE s' # s
      <4>1. /\ s.state = "HELLO_REQUEST" /\ s'.state = "CLIENT_HELLO" /\ s'.hrr = s.hrr
            /\ s'.resume = s.resume /\ s'.discard = s.discard
            /\ s'.early_accepted = s.early_accepted
        BY <1>1, <1>2, <3>2 DEF HelloRequest, CanStep, Context, ServerFields, Endpoints
      <4> QED
        BY <4>1 DEF EarlyInv, ServerGoesOn, AcceptanceIsRight, NothingSkipped, PastEarlyData,
           ServerBegins, ServerSecond, ServerDone, ServerTickets
    <3> QED
      BY <3>1, <3>2
  <2> QED
    BY <1>1, <2>1, <2>2, <2>3, EarlyFrame
<1>3. CASE DropCcs(e)
  <2>1. /\ UNCHANGED <<c, s, out, app, failed>> /\ Consume(e) /\ net[e] # <<>>
        /\ Head(net[e]).type = "change_cipher_spec"
    BY <1>3 DEF DropCcs, Reading, IsCcs, OuterType
  <2>2. \/ ToServer' = ToServer
        \/ ToServer # <<>> /\ ToServer' = Tail(ToServer) /\ ~IsItem(ToServer[1])
    BY <1>1, <2>1, ClientConsumes, ServerConsumes DEF Endpoints, IsItem
  <2> QED
    BY <1>1, <2>1, <2>2, ClientIdle, ServerIdle, EarlyFrame
<1>4. CASE RefuseRecord(e)
  <2>1. PICK why \in {"unexpected message", "bad mac"} : Refuses(e, why)
    BY <1>4 DEF RefuseRecord
  <2>2. net[e] # <<>>
    BY <1>4 DEF RefuseRecord, Reading
  <2> QED
    BY <2>1, <2>2, EarlyRefuses
<1>5. CASE PeerIsGone(e)
  <2>1. /\ UNCHANGED <<c, s, out, app, net>>
        /\ failed'.server = "no" => failed.server = "no"
    BY <1>1, <1>5 DEF PeerIsGone, GivesUp, Endpoints
  <2> QED
    BY <1>1, <2>1, NothingMoves, ClientIdle, ServerIdle, EarlyFrame
<1>6. CASE Flush(e)
  <2>1. UNCHANGED <<c, s, app, failed>> /\ ToServer' = ToServer
    BY <1>1, <1>6, FlushMovesNothing DEF Flush
  <2> QED
    BY <1>1, <2>1, ClientIdle, ServerIdle, EarlyFrame
<1> QED
  BY <1>2, <1>3, <1>4, <1>5, <1>6 DEF CommonStep

\* Nothing is written or read at first.
LEMMA EarlyInit ==
    ASSUME Init
    PROVE  EarlyInv
<1>1. /\ app = [next |-> 1, retried |-> {}, received |-> <<>>]
      /\ s.state = "HELLO_REQUEST" /\ ~s.early_accepted /\ ~s.hrr /\ ~s.resume
      /\ s.discard = "NO_DISCARD" /\ c.state = "HELLO_REQUEST"
      /\ net.server = <<>> /\ out.client = <<>>
  BY DEF Init, Endpoints
<1>2. ToServer = <<>> /\ IsSeq(<<>>)
  BY <1>1, SingleIs, ConcatIs DEF ToServer
<1>3. ItemsAreNumbers
  BY <1>1, <1>2 DEF ItemsAreNumbers
<1>4. ItemsAreWritten /\ ItemsAreOrdered /\ EndIsLast
  BY <1>1, <1>2 DEF ItemsAreWritten, ItemsAreOrdered, EndIsLast
<1>5. AcceptanceIsRight /\ ClientEnds /\ NothingIsRead
  BY <1>1 DEF AcceptanceIsRight, ClientEnds, NothingIsRead, ServerBegins
<1>6. ItemsAreKept /\ AcceptedIsRead
  BY <1>1 DEF ItemsAreKept, AcceptedIsRead, PastEarlyData
<1> QED
  BY <1>3, <1>4, <1>5, <1>6 DEF EarlyInv

\* Every step keeps what is known of early data.
LEMMA EarlyNext ==
    ASSUME TlsInv, EarlyInv, [Next]_vars
    PROVE  EarlyInv'
<1>1. CASE ClientStep
  BY <1>1, ClientStepKeepsEarly
<1>2. CASE ServerStep
  BY <1>2, ServerStepKeepsEarly
<1>3. CASE \E e \in Endpoints : CommonStep(e) \/ Flush(e)
  BY <1>3, CommonStepsKeepEarly
<1>4. CASE \E taken \in BOOLEAN : WriteEarlyData(taken)
  BY <1>4, WriteEarlyDataKeepsEarly
<1>5. CASE UNCHANGED vars
  <2>1. UNCHANGED <<c, s, out, net, app, failed>> /\ QueuesAreSeqs
    BY <1>5 DEF vars, TlsInv
  <2> QED
    BY <2>1, NothingMoves, ClientIdle, ServerIdle, EarlyFrame
<1> QED
  BY <1>1, <1>2, <1>3, <1>4, <1>5 DEF Next

\* The early data on its way is what the client wrote and the server will read:
\* EarlyInv holds of every run.
THEOREM EarlyInvariant == Spec => []EarlyInv
<1>1. Init => EarlyInv
  BY EarlyInit
<1>2. TlsInv /\ EarlyInv /\ [Next]_vars => EarlyInv'
  BY EarlyNext
<1> QED
  BY <1>1, <1>2, Invariant, PTL DEF Spec

\* The early data the server's application reads (mbedtls_ssl_read_early_data())
\* is what the client's wrote (mbedtls_ssl_write_early_data()), in order and
\* complete if it was accepted, and nothing if it was not.
THEOREM EarlyDataIsExact == Spec => []EarlyDataExact
<1>1. EarlyInv => EarlyDataExact
  BY EarlyDataExactHolds
<1> QED
  BY <1>1, EarlyInvariant, PTL

-----------------------------------------------------------------------------
(* What the server counts of the early data.                               *)

\* The items of q have numbers, in order, above n and up to m.
Numbers(q, n, m, num) ==
    /\ \A k \in 1 .. Len(q) : IsItem(q[k]) => n < num[k] /\ num[k] <= m
    /\ \A j, k \in 1 .. Len(q) : j < k /\ IsItem(q[j]) /\ IsItem(q[k]) => num[j] < num[k]

Numbered(q, n, m) == n <= m /\ \E num \in [1 .. Len(q) -> Nat] : Numbers(q, n, m, num)

\* The server's count is the cost of n items, and those on their way come after
\* them.
ItemsAreCounted ==
    \E n \in Nat : s.total = n * EarlyDataCost /\ Numbered(ToServer, n, EarlyDataSent)

\* The number of the items sent is a natural number; so are cost and limit.
LEMMA AmountsAre ==
    ASSUME ItemsAreNumbers
    PROVE  /\ IsFiniteSet(app.retried) /\ EarlyDataSent \in Nat
           /\ EarlyDataCost \in Nat \ {0} /\ EarlyDataLimit \in Nat
<1>1. app.next \in Nat \ {0} /\ app.retried \subseteq 1 .. app.next
  BY DEF ItemsAreNumbers
<1>2. IsFiniteSet(1 .. app.next)
  BY <1>1, FS_Interval
<1>3. IsFiniteSet(app.retried)
  BY <1>1, <1>2, FS_Subset
<1>4. Cardinality(app.retried) \in Nat
  BY <1>3, FS_CardinalityType
<1> QED
  BY <1>1, <1>3, <1>4, BoundsAreNatural DEF EarlyDataSent, EarlyDataCost, EarlyDataLimit

\* More items cost no less.
LEMMA CostGrows ==
    ASSUME NEW i \in Nat, NEW j \in Nat, i <= j, NEW cost \in Nat
    PROVE  i * cost <= j * cost
<1>1. PICK d \in Nat : j = i + d
  BY SMT
<1>2. j * cost = i * cost + d * cost
  BY <1>1
<1>3. i * cost \in Nat /\ d * cost \in Nat
  OBVIOUS
<1> QED
  BY <1>2, <1>3

\* Numbers are still right if fewer were counted.
LEMMA NumbersStay ==
    ASSUME NEW q, NEW n \in Nat, NEW m \in Nat, Numbered(q, n, m), NEW i \in Nat, i <= n
    PROVE  Numbered(q, i, m)
<1>1. PICK num \in [1 .. Len(q) -> Nat] : Numbers(q, n, m, num)
  BY DEF Numbered
<1>2. Numbers(q, i, m, num)
  BY <1>1 DEF Numbers
<1> QED
  BY <1>2 DEF Numbered

\* A record that is no item needs no number; an item gets the next one.
LEMMA NumbersGrow ==
    ASSUME NEW q, IsSeq(q), NEW n \in Nat, NEW m \in Nat, Numbered(q, n, m), NEW r
    PROVE  /\ ~IsItem(r) => Numbered(Append(q, r), n, m)
           /\ Numbered(Append(q, r), n, m + 1)
<1>1. PICK num \in [1 .. Len(q) -> Nat] : Numbers(q, n, m, num)
  BY DEF Numbered
<1> DEFINE w == Append(q, r)
           new == [k \in 1 .. Len(w) |-> IF k = Len(w) THEN m + 1 ELSE num[k]]
<1>2. /\ Len(q) \in Nat /\ Len(w) = Len(q) + 1 /\ w[Len(q) + 1] = r
      /\ \A k \in 1 .. Len(q) : w[k] = q[k]
  BY AppendIs DEF IsSeq
<1> HIDE DEF w
<1>3. /\ new \in [1 .. Len(w) -> Nat] /\ new[Len(w)] = m + 1
      /\ \A k \in 1 .. Len(q) : new[k] = num[k] /\ new[k] \in Nat
  BY <1>2
<1> HIDE DEF new
<1>4. \A k \in 1 .. Len(w) : k \in 1 .. Len(q) \/ (k = Len(w) /\ w[k] = r)
  BY <1>2
<1>5. \A k \in 1 .. Len(q) : IsItem(w[k]) => n < new[k] /\ new[k] <= m
  BY <1>1, <1>2, <1>3 DEF Numbers
<1>6. \A j, k \in 1 .. Len(q) : j < k /\ IsItem(w[j]) /\ IsItem(w[k]) => new[j] < new[k]
  BY <1>1, <1>2, <1>3 DEF Numbers
<1>7. n <= m
  BY DEF Numbered
<1>8. Numbers(w, n, m + 1, new)
  <2>1. \A k \in 1 .. Len(w) : IsItem(w[k]) => n < new[k] /\ new[k] <= m + 1
    <3> SUFFICES ASSUME NEW k \in 1 .. Len(w), IsItem(w[k])
                 PROVE  n < new[k] /\ new[k] <= m + 1
      OBVIOUS
    <3>1. CASE k \in 1 .. Len(q)
      <4>1. new[k] \in Nat /\ n < new[k] /\ new[k] <= m
        BY <1>3, <1>5, <3>1
      <4> QED
        BY <4>1
    <3>2. CASE k = Len(w)
      BY <1>3, <1>7, <3>2
    <3> QED
      BY <1>4, <3>1, <3>2
  <2>2. ASSUME NEW j \in 1 .. Len(w), NEW k \in 1 .. Len(w), j < k, IsItem(w[j]), IsItem(w[k])
        PROVE  new[j] < new[k]
    <3>1. j \in 1 .. Len(q)
      BY <1>2, <2>2
    <3>2. CASE k \in 1 .. Len(q)
      BY <1>6, <2>2, <3>1, <3>2
    <3>3. CASE k = Len(w)
      BY <1>3, <1>5, <2>2, <3>1, <3>3
    <3> QED
      BY <1>4, <3>2, <3>3
  <2> QED
    BY <2>1, <2>2 DEF Numbers
<1>9. ~IsItem(r) => Numbers(w, n, m, new)
  <2> SUFFICES ASSUME ~IsItem(r) PROVE Numbers(w, n, m, new)
    OBVIOUS
  <2>1. \A k \in 1 .. Len(w) : IsItem(w[k]) => k \in 1 .. Len(q)
    BY <1>4
  <2> QED
    BY <1>5, <1>6, <2>1 DEF Numbers
<1> QED
  BY <1>3, <1>7, <1>8, <1>9 DEF Numbered, w

\* The first record is taken; if it is an item it may be counted.
LEMMA NumbersShrink ==
    ASSUME NEW q, IsSeq(q), q # <<>>, NEW n \in Nat, NEW m \in Nat, Numbered(q, n, m)
    PROVE  /\ Numbered(Tail(q), n, m)
           /\ IsItem(q[1]) => n + 1 <= m /\ Numbered(Tail(q), n + 1, m)
<1>1. PICK num \in [1 .. Len(q) -> Nat] : Numbers(q, n, m, num)
  BY DEF Numbered
<1> DEFINE w == Tail(q)
           new == [k \in 1 .. Len(w) |-> num[k + 1]]
<1>2. /\ Len(q) \in Nat \ {0} /\ Len(w) = Len(q) - 1
      /\ \A k \in 1 .. Len(q) - 1 : w[k] = q[k + 1]
  BY TailIs
<1> HIDE DEF w
<1>3. /\ new \in [1 .. Len(w) -> Nat]
      /\ \A k \in 1 .. Len(w) : k + 1 \in 1 .. Len(q) /\ new[k] = num[k + 1] /\ w[k] = q[k + 1]
  BY <1>2
<1> HIDE DEF new
<1>4. \A j, k \in 1 .. Len(w) : j < k /\ IsItem(w[j]) /\ IsItem(w[k]) => new[j] < new[k]
  <2> SUFFICES ASSUME NEW j \in 1 .. Len(w), NEW k \in 1 .. Len(w), j < k,
                      IsItem(w[j]), IsItem(w[k])
               PROVE  new[j] < new[k]
    OBVIOUS
  <2>1. j + 1 \in 1 .. Len(q) /\ k + 1 \in 1 .. Len(q) /\ j + 1 < k + 1
    BY <1>3
  <2>2. num[j + 1] < num[k + 1]
    BY <1>1, <1>3, <2>1 DEF Numbers
  <2> QED
    BY <1>3, <2>2
<1>5. Numbers(w, n, m, new)
  BY <1>1, <1>3, <1>4 DEF Numbers
<1>6. ASSUME IsItem(q[1])
      PROVE  n + 1 <= m /\ Numbers(w, n + 1, m, new)
  <2>1. num[1] \in Nat /\ n < num[1] /\ num[1] <= m
    BY <1>1, <1>2, <1>6 DEF Numbers
  <2>2. ASSUME NEW k \in 1 .. Len(w), IsItem(w[k])
        PROVE  n + 1 < new[k] /\ new[k] <= m
    <3>1. /\ 1 \in 1 .. Len(q) /\ k + 1 \in 1 .. Len(q) /\ 1 < k + 1
          /\ IsItem(q[k + 1]) /\ new[k] = num[k + 1]
      BY <1>2, <1>3, <2>2
    <3>2. num[k + 1] \in Nat /\ num[1] < num[k + 1] /\ num[k + 1] <= m
      BY <1>1, <1>6, <3>1 DEF Numbers
    <3> QED
      BY <2>1, <3>1, <3>2
  <2> QED
    BY <1>4, <2>1, <2>2 DEF Numbers
<1> QED
  BY <1>3, <1>5, <1>6 DEF Numbered, w

\* The count is right as long as the server takes what it does not count, and
\* the client sends nothing it does not number.
LEMMA CountStays ==
    ASSUME QueuesAreSeqs, ItemsAreNumbers, ItemsAreCounted, app' = app, s'.total = s.total,
           (s'.early_accepted <=> s.early_accepted) \/ s.total = 0,
           \/ ToServer' = ToServer
           \/ \E r : ToServer' = Append(ToServer, r) /\ ~IsItem(r)
           \/ ToServer # <<>> /\ ToServer' = Tail(ToServer)
    PROVE  ItemsAreCounted'
<1>1. PICK n \in Nat : s.total = n * EarlyDataCost /\ Numbered(ToServer, n, EarlyDataSent)
  BY DEF ItemsAreCounted
<1>2. IsSeq(ToServer) /\ EarlyDataSent \in Nat /\ EarlyDataSent' = EarlyDataSent
  BY QueuesAre, AmountsAre DEF EarlyDataSent
<1>3. Numbered(ToServer', n, EarlyDataSent)
  BY <1>1, <1>2, NumbersGrow, NumbersShrink
<1>4. CASE s'.early_accepted <=> s.early_accepted
  <2>1. EarlyDataCost' = EarlyDataCost
    BY <1>4 DEF EarlyDataCost
  <2> QED
    BY <1>1, <1>2, <1>3, <2>1 DEF ItemsAreCounted
<1>5. CASE s.total = 0
  <2>1. EarlyDataCost' \in Nat
    BY BoundsAreNatural DEF EarlyDataCost
  <2>2. s'.total = 0 * EarlyDataCost'
    <3>1. \A x \in Nat : 0 * x = 0
      OBVIOUS
    <3>2. 0 * EarlyDataCost' = 0
      BY <2>1, <3>1, Zenon
    <3> QED
      BY <1>5, <3>2
  <2>3. Numbered(ToServer', 0, EarlyDataSent')
    BY <1>2, <1>3, NumbersStay
  <2> QED
    BY <2>2, <2>3 DEF ItemsAreCounted
<1> QED
  BY <1>4, <1>5

\* The server counts an item at its cost.
LEMMA CountGrows ==
    ASSUME QueuesAreSeqs, ItemsAreNumbers, ItemsAreCounted,
           EarlyDataSent' = EarlyDataSent,
           s'.total = s.total + EarlyDataCost, s'.early_accepted <=> s.early_accepted,
           ToServer # <<>>, IsItem(ToServer[1]), ToServer' = Tail(ToServer)
    PROVE  ItemsAreCounted'
<1>1. PICK n \in Nat : s.total = n * EarlyDataCost /\ Numbered(ToServer, n, EarlyDataSent)
  BY DEF ItemsAreCounted
<1>2. IsSeq(ToServer) /\ EarlyDataSent \in Nat /\ EarlyDataCost \in Nat
  BY QueuesAre, AmountsAre
<1>3. EarlyDataCost' = EarlyDataCost
  BY DEF EarlyDataCost
<1>4. Numbered(ToServer', n + 1, EarlyDataSent')
  BY <1>1, <1>2, NumbersShrink
<1>5. s'.total = (n + 1) * EarlyDataCost'
  BY <1>1, <1>2, <1>3
<1> QED
  BY <1>4, <1>5 DEF ItemsAreCounted

\* What the client writes as early data has the next number.
LEMMA CountOfWritten ==
    ASSUME TlsInv, ItemsAreNumbers, ItemsAreCounted, NEW taken \in BOOLEAN, WriteEarlyData(taken)
    PROVE  /\ ItemsAreCounted'
           /\ EarlyDataSent' = EarlyDataSent + 1 /\ EarlyDataCost' = EarlyDataCost
<1>1. PICK n \in Nat : s.total = n * EarlyDataCost /\ Numbered(ToServer, n, EarlyDataSent)
  BY DEF ItemsAreCounted
<1>2. /\ IsSeq(ToServer) /\ EarlyDataSent \in Nat /\ IsFiniteSet(app.retried)
      /\ app.next \in Nat \ {0} /\ DOMAIN app = {"next", "retried", "received"}
  BY QueuesAre, AmountsAre DEF TlsInv, ItemsAreNumbers
<1>3. s' = s /\ \E r : ToServer' = Append(ToServer, r)
  BY EarlyDataGoesOut DEF WriteEarlyData, TlsInv
<1>4. EarlyDataSent' = EarlyDataSent + 1
  <2>1. CASE taken
    <3>1. app'.next = app.next + 1 /\ app'.retried = app.retried
      BY <1>2, <2>1 DEF WriteEarlyData
    <3>2. Cardinality(app.retried) \in Nat
      BY <1>2, FS_CardinalityType
    <3> QED
      BY <1>2, <3>1, <3>2 DEF EarlyDataSent
  <2>2. CASE ~taken
    <3>1. /\ app'.next = app.next /\ app'.retried = app.retried \cup {app.next}
          /\ app.next \notin app.retried
      BY <1>2, <2>2 DEF WriteEarlyData
    <3>2. Cardinality(app.retried \cup {app.next}) = Cardinality(app.retried) + 1
      BY <1>2, <3>1, FS_AddElement
    <3>3. Cardinality(app.retried) \in Nat
      BY <1>2, FS_CardinalityType
    <3> QED
      BY <1>2, <3>1, <3>2, <3>3 DEF EarlyDataSent
  <2> QED
    BY <2>1, <2>2
<1>5. EarlyDataCost' = EarlyDataCost
  BY <1>3 DEF EarlyDataCost
<1>6. Numbered(ToServer', n, EarlyDataSent')
  BY <1>1, <1>2, <1>3, <1>4, NumbersGrow
<1>7. ItemsAreCounted'
  BY <1>1, <1>3, <1>5, <1>6 DEF ItemsAreCounted
<1> QED
  BY <1>4, <1>5, <1>7

\* An item that does not fit shows that more was sent than the limit allows.
LEMMA LimitIsPassed ==
    ASSUME QueuesAreSeqs, ItemsAreNumbers, ItemsAreCounted, ToServer # <<>>, IsItem(ToServer[1]),
           ~FitsEarlyLimit(EarlyDataCost), 1 \in SharedPsks => s.limit = MaxEarly
    PROVE  EarlyDataSent * EarlyDataCost > EarlyDataLimit
<1>1. PICK n \in Nat : s.total = n * EarlyDataCost /\ Numbered(ToServer, n, EarlyDataSent)
  BY DEF ItemsAreCounted
<1>2. /\ IsSeq(ToServer) /\ EarlyDataSent \in Nat
      /\ EarlyDataCost \in Nat \ {0} /\ EarlyDataLimit \in Nat
  BY QueuesAre, AmountsAre
<1>3. n + 1 <= EarlyDataSent
  BY <1>1, <1>2, NumbersShrink
<1>4. /\ (n + 1) * EarlyDataCost <= EarlyDataSent * EarlyDataCost
      /\ 1 * EarlyDataCost <= EarlyDataSent * EarlyDataCost
  BY <1>1, <1>2, <1>3, CostGrows
<1>5. EarlyDataSent * EarlyDataCost \in Nat /\ n * EarlyDataCost \in Nat
  BY <1>1, <1>2
<1>6. (n + 1) * EarlyDataCost = n * EarlyDataCost + EarlyDataCost
  BY <1>1, <1>2
<1>7. CASE 1 \in SharedPsks
  <2>1. EarlyDataLimit = MaxEarly /\ s.limit = MaxEarly /\ MaxEarly \in Nat
    BY <1>7, BoundsAreNatural DEF EarlyDataLimit
  <2>2. s.total \in Nat /\ ~(EarlyDataCost <= MaxEarly - s.total)
    BY <1>1, <1>5, <2>1 DEF FitsEarlyLimit
  <2>3. s.total + EarlyDataCost > MaxEarly
    BY <1>2, <2>1, <2>2
  <2> QED
    BY <1>1, <1>2, <1>4, <1>5, <1>6, <2>1, <2>3
<1>8. CASE 1 \notin SharedPsks
  <2>1. EarlyDataLimit = 0
    BY <1>8 DEF EarlyDataLimit
  <2> QED
    BY <1>2, <1>4, <1>5, <2>1
<1> QED
  BY <1>7, <1>8

\* A server that rejected early data under a ticket it can use has its limit.
LimitIsSet == s.discard # "NO_DISCARD" /\ 1 \in SharedPsks => s.limit = MaxEarly

OverLimit == failed.server = "early data limit"

LimitIsReached == OverLimit => EarlyDataSent * EarlyDataCost > EarlyDataLimit

\* Neither cost nor limit changes after the decision.
LEMMA LimitStays ==
    ASSUME conf' = conf, app'.next = app.next, app'.retried = app.retried,
           s'.early_accepted = s.early_accepted, s'.limit = s.limit,
           s'.discard \in {s.discard, "NO_DISCARD"}
    PROVE  /\ LimitIsSet => LimitIsSet'
           /\ EarlyDataSent' = EarlyDataSent /\ EarlyDataCost' = EarlyDataCost
           /\ EarlyDataLimit' = EarlyDataLimit
<1>1. SharedPsks' = SharedPsks
  BY DEF SharedPsks, ServerKnows, ClientPsks, TicketModes
<1> QED
  BY <1>1 DEF LimitIsSet, EarlyDataSent, EarlyDataCost, EarlyDataLimit

\* A step that counts no item and does not decide on early data keeps the count
\* and the limit.
LEMMA LimitFrame ==
    ASSUME QueuesAreSeqs, ItemsAreNumbers, ItemsAreCounted, LimitIsSet, LimitIsReached,
           conf' = conf, app' = app, s'.total = s.total, s'.early_accepted = s.early_accepted,
           s'.limit = s.limit, s'.discard \in {s.discard, "NO_DISCARD"},
           \/ ToServer' = ToServer
           \/ \E r : ToServer' = Append(ToServer, r) /\ ~IsItem(r)
           \/ ToServer # <<>> /\ ToServer' = Tail(ToServer)
    PROVE  /\ ItemsAreCounted' /\ LimitIsSet'
           /\ (OverLimit' => OverLimit) => LimitIsReached'
<1>1. ItemsAreCounted'
  BY CountStays
<1> QED
  BY <1>1, LimitStays DEF LimitIsReached

=============================================================================
