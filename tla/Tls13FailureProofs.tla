------------------------- MODULE Tls13FailureProofs -------------------------
(***************************************************************************)
(* OnlyExpectedFailures of Tls13Handshake for every set of configurations  *)
(* and limit of early data.                                                *)
(*                                                                         *)
(* The argument, FlowInv: the handshake records on their way to an         *)
(* endpoint are, in order, the messages of its peer's transcript that it   *)
(* has not hashed yet, each with the hash it was made from; the message at *)
(* each place of a transcript is the one the two configurations call for   *)
(* there; and every record is under the key the reader will hold when it   *)
(* comes to it.  So an endpoint that reads finds what it waits for, and    *)
(* only the contents can be refused: a key exchange the two do not share,  *)
(* or a certificate the reader does not accept.                            *)
(*                                                                         *)
(* LimitInv adds the account of rejected early data: what the server has   *)
(* counted is the cost of the items it took from the queue, and the items  *)
(* still in the queue come after them.  So the count that passes the limit *)
(* is at most the cost of all that was written.                            *)
(***************************************************************************)
EXTENDS Tls13HandshakeProofs, WellFoundedInduction, TLAPS

-----------------------------------------------------------------------------
(* What is on its way is what the reader waits for.                        *)

\* What the client hashed, in the form the server has it: the server replaces
\* the first ClientHello by its hash before the client does.
HashedAlone == s.hrr /\ ~c.hrr
Heard == IF HashedAlone THEN TranscriptForHrr(c.tr) ELSE c.tr

Streams ==
    /\ failed.client = "no" => Stream(ToClient, Len(Heard), s.tr)
    /\ failed.server = "no" => Stream(ToServer, Len(s.tr), Heard)

\* The transcripts agree as far as both go.
TranscriptsAgree ==
    \A i \in 1 .. Len(Heard) : i <= Len(s.tr) => Heard[i] = s.tr[i]

ClientBegins == {"HELLO_REQUEST", "CLIENT_HELLO", "CLIENT_CCS_AFTER_CLIENT_HELLO",
                 "CLIENT_CCS_BEFORE_2ND_CLIENT_HELLO", "SERVER_HELLO"}

ValuesAreKnown ==
    /\ conf \in Configs
    /\ c.state \in ClientBegins \cup ClientKeyed \cup ClientSecond
    /\ c.hrr \in BOOLEAN /\ s.hrr \in BOOLEAN
    /\ c.client_auth \in BOOLEAN /\ s.certificate_request_sent \in BOOLEAN

\* The places in the transcript of the ClientHello that is answered, of the
\* server's Finished and of the message before the client's.
HelloPlace == IF s.hrr THEN 3 ELSE 1
Asked == IF s.certificate_request_sent THEN 1 ELSE 0
FlightEnd == IF s.mode \in PskModes THEN HelloPlace + 3 ELSE HelloPlace + 5 + Asked
CertificateEnd ==
    FlightEnd + (IF s.early_accepted THEN 1 ELSE 0)
              + (IF ~s.certificate_request_sent THEN 0 ELSE IF conf.c_cert = "none" THEN 1 ELSE 2)

\* How much each endpoint has hashed in each state.
ServerPlace ==
    LET n == Len(s.tr)
        h == HelloPlace
    IN  /\ s.state \in {"HELLO_REQUEST", "CLIENT_HELLO", "SERVER_CCS_AFTER_HELLO_RETRY_REQUEST"} =>
               n = h - 1
        /\ s.state \in {"HELLO_RETRY_REQUEST", "SERVER_HELLO"} => n = h
        /\ s.state \in {"SERVER_CCS_AFTER_SERVER_HELLO", "ENCRYPTED_EXTENSIONS"} => n = h + 1
        /\ s.state = "CERTIFICATE_REQUEST" => n = h + 2
        /\ s.state = "SERVER_CERTIFICATE" => n = h + 2 + Asked
        /\ s.state = "CERTIFICATE_VERIFY" => n = h + 3 + Asked
        /\ s.state \in {"CERTIFICATE_REQUEST", "SERVER_CERTIFICATE", "CERTIFICATE_VERIFY"} =>
               s.mode \notin PskModes
        /\ s.state = "SERVER_FINISHED" => n = FlightEnd - 1
        /\ s.state \in {"END_OF_EARLY_DATA", "CLIENT_CERTIFICATE"} => n = FlightEnd
        /\ s.state = "CLIENT_CERTIFICATE_VERIFY" => n = FlightEnd + 1 /\ conf.c_cert # "none"
        /\ s.state = "CLIENT_FINISHED" => n = CertificateEnd
        /\ s.state \in ServerDone => n = CertificateEnd + 1
        /\ s.state \in {"CLIENT_CERTIFICATE", "CLIENT_CERTIFICATE_VERIFY"} =>
               s.certificate_request_sent
        /\ s.state = "HELLO_RETRY_REQUEST" => ~s.hrr
        /\ s.mode \in PskModes => ~s.certificate_request_sent

ClientPlace ==
    LET n == Len(c.tr)
        h == HelloPlace
    IN  /\ c.state = "HELLO_REQUEST" => n = 0 /\ ~c.hrr
        /\ c.state = "CLIENT_HELLO" => n = IF c.hrr THEN 2 ELSE 0
        /\ c.state = "CLIENT_CCS_AFTER_CLIENT_HELLO" => n = 1 /\ ~c.hrr
        /\ c.state = "CLIENT_CCS_BEFORE_2ND_CLIENT_HELLO" => n = 2 /\ c.hrr
        /\ c.state = "SERVER_HELLO" => n = IF c.hrr THEN 3 ELSE 1
        /\ c.state = "ENCRYPTED_EXTENSIONS" => n = h + 1
        /\ c.state = "CERTIFICATE_REQUEST" => n = h + 2
        /\ c.state = "SERVER_CERTIFICATE" => n = h + 2 + Asked
        /\ c.state = "CERTIFICATE_VERIFY" => n = h + 3 + Asked
        /\ c.state \in {"CERTIFICATE_REQUEST", "SERVER_CERTIFICATE", "CERTIFICATE_VERIFY"} =>
               s.mode \notin PskModes
        /\ c.state = "SERVER_FINISHED" => n = FlightEnd - 1
        /\ c.state \in {"END_OF_EARLY_DATA", "CLIENT_CCS_AFTER_SERVER_FINISHED"} => n = FlightEnd
        /\ c.state = "CLIENT_CERTIFICATE" =>
               n = FlightEnd + (IF s.early_accepted THEN 1 ELSE 0)
        /\ c.state = "CLIENT_CERTIFICATE_VERIFY" => n = FlightEnd + 1 /\ conf.c_cert # "none"
        /\ c.state = "CLIENT_FINISHED" => n = CertificateEnd
        /\ c.state \in ClientDone => n = CertificateEnd + 1
        /\ c.state = "END_OF_EARLY_DATA" => s.early_accepted
        /\ c.state = "CLIENT_CCS_AFTER_SERVER_FINISHED" => ~s.early_accepted
        /\ c.state = "CLIENT_CERTIFICATE_VERIFY" => s.certificate_request_sent
        /\ IF c.state \in {"SERVER_CERTIFICATE", "CERTIFICATE_VERIFY", "SERVER_FINISHED"}
                              \cup ClientSecond
           THEN c.client_auth <=> s.certificate_request_sent
           ELSE ~c.client_auth
        /\ c.hrr => s.hrr
        /\ c.state \in ClientKeyed \cup ClientSecond => ~HashedAlone

ClientListens == {"CLIENT_CCS_AFTER_CLIENT_HELLO", "SERVER_HELLO"} \cup ClientKeyed
ServerListens == {"HELLO_REQUEST", "CLIENT_HELLO", "SERVER_CCS_AFTER_HELLO_RETRY_REQUEST",
                  "END_OF_EARLY_DATA", "CLIENT_CERTIFICATE", "CLIENT_CERTIFICATE_VERIFY",
                  "CLIENT_FINISHED"}

\* Whoever has hashed less is about to read.
Turns ==
    /\ Len(Heard) < Len(s.tr) => c.state \in ClientListens
    /\ Len(s.tr) < Len(Heard) => s.state \in ServerListens
    /\ c.state \in ClientKeyed => s.state \in ServerKeyed \cup ServerSecond
    /\ c.state \notin ClientSecond => Len(s.tr) <= FlightEnd
    /\ HashedAlone => Len(s.tr) = 2
    /\ c.state = "SERVER_CERTIFICATE" => s.state # "CERTIFICATE_REQUEST"

Places == ServerPlace /\ ClientPlace /\ Turns

\* What the messages at each place say.
Ephemeral == conf.c_modes \cap EphemeralModes # {}

HelloIsRight(m) ==
    /\ m.t = "client_hello"
    /\ m.groups = IF Ephemeral THEN conf.c_groups ELSE <<>>
    /\ m.share = "none" <=> ~Ephemeral
    /\ ~s.hrr /\ Ephemeral => m.share = Head(conf.c_groups)
    /\ s.hrr => Ephemeral /\ m.share \in conf.s_groups
    /\ m.sig_alg <=> "ephemeral" \in conf.c_modes
    /\ m.psk_modes = conf.c_modes \cap PskModes
    /\ m.psks = ClientPsks
    /\ m.early <=> ~s.hrr /\ OffersEarlyData

RetryIsRight(m) ==
    /\ m.t = "server_hello" /\ m.hrr
    /\ m.share \in ToSet(conf.c_groups) \cap conf.s_groups
    /\ m.share # Head(conf.c_groups)
    /\ Ephemeral

MessageIsRight(i, m) ==
    LET h == HelloPlace
        psk == s.mode \in PskModes
    IN  /\ i = 2 /\ s.hrr => RetryIsRight(m)
        /\ i = h => HelloIsRight(m)
        /\ i = h + 1 => /\ m.t = "server_hello" /\ ~m.hrr
                        /\ m.share = s.share /\ m.psk = IF psk THEN s.selected ELSE 0
        /\ i = h + 2 => m.t = "encrypted_extensions" /\ (m.early <=> s.early_accepted)
        /\ i = h + 3 /\ ~psk /\ s.certificate_request_sent => m.t = "certificate_request"
        /\ i = h + 3 + Asked /\ ~psk => m.t = "certificate" /\ m.cert # "none"
        /\ i = h + 4 + Asked /\ ~psk => m.t = "certificate_verify"
        /\ i = FlightEnd => m.t = "finished"
        /\ i = FlightEnd + 1 /\ s.early_accepted => m.t = "end_of_early_data"
        /\ i = FlightEnd + 1 /\ s.certificate_request_sent =>
               m.t = "certificate" /\ m.cert = conf.c_cert
        /\ i = FlightEnd + 2 /\ s.certificate_request_sent /\ conf.c_cert # "none" =>
               m.t = "certificate_verify"
        /\ i = CertificateEnd + 1 => m.t = "finished"

MessagesAreRight ==
    /\ \A i \in 1 .. Len(s.tr) : MessageIsRight(i, s.tr[i])
    /\ \A i \in 1 .. Len(Heard) : MessageIsRight(i, Heard[i])

\* What the parameters of both sides are taken from.
HelloUnread == s.state \in {"HELLO_REQUEST", "CLIENT_HELLO"} /\ ~s.hrr

ServerParameters ==
    /\ HelloUnread => s.total = 0
    /\ s.state \in {"SERVER_HELLO"} \cup ServerKeyed \cup ServerSecond =>
           /\ s.share \in {"none", s.tr[HelloPlace].share}
           /\ s.mode \in conf.c_modes
           /\ s.mode \in PskModes =>
                s.selected \in DOMAIN ClientPsks /\ s.psk = ClientPsks[s.selected]
           /\ s.mode \notin PskModes => s.psk = "zero"
    /\ s.early_accepted =>
           /\ s.selected = 1 /\ s.psk = "ticket" /\ s.limit = MaxEarly
           /\ s.early_key = Key("early", "ticket", "none", <<s.tr[1]>>)
           /\ ~s.hrr /\ OffersEarlyData
    /\ s.state = "HELLO_RETRY_REQUEST" =>
           /\ s.share \notin conf.s_groups \cup {"none"}
           /\ s.share = s.tr[1].share /\ s.groups = s.tr[1].groups
    /\ s.state \in ServerKeyed \cup ServerSecond =>
           s.handshake_key.tr = SubSeq(s.tr, 1, HelloPlace + 1)

HelloSent == c.state \notin {"HELLO_REQUEST", "CLIENT_HELLO"} \/ c.hrr

ClientParameters ==
    /\ HelloSent => (c.early = "NO_IND_SENT" <=> ~OffersEarlyData)
    /\ HelloSent /\ OffersEarlyData => c.early_key.stage = "early"
    /\ HelloSent /\ OffersEarlyData /\ ~c.hrr =>
           c.early_key = Key("early", "ticket", "none", <<c.tr[1]>>)
    /\ HelloSent /\ OffersEarlyData /\ c.state \in ClientBegins => c.psk = "ticket"
    /\ c.hrr => c.early \in {"NO_IND_SENT", "REJECTED"}
    /\ c.early = "IND_SENT" => c.state = "CLIENT_CCS_AFTER_CLIENT_HELLO"
    /\ c.state = "CLIENT_CCS_AFTER_CLIENT_HELLO" => OffersEarlyData
    /\ c.early = "CAN_WRITE" => c.state \in {"SERVER_HELLO", "ENCRYPTED_EXTENSIONS"}
    /\ c.early \in {"CAN_WRITE", "ACCEPTED"} =>
           c.state \in {"SERVER_HELLO"} \cup ClientKeyed /\ ~c.hrr /\ OffersEarlyData
    /\ c.early = "ACCEPTED" => s.early_accepted
    /\ c.state = "SERVER_HELLO" => c.share = c.tr[Len(c.tr)].share
    /\ c.state = "CLIENT_CCS_AFTER_CLIENT_HELLO" => c.share = c.tr[1].share
    /\ c.state \in {"CLIENT_CCS_AFTER_CLIENT_HELLO", "SERVER_HELLO"} /\ ~c.hrr =>
           c.share = IF Ephemeral THEN Head(conf.c_groups) ELSE "none"
    /\ c.state \in {"CLIENT_HELLO", "CLIENT_CCS_BEFORE_2ND_CLIENT_HELLO"} /\ c.hrr =>
           c.share = c.tr[2].share
    /\ c.state \in ClientKeyed =>
           /\ c.mode = s.mode
           /\ c.selected = IF s.mode \in PskModes THEN s.selected ELSE 0
           /\ \/ c.handshake_key = s.handshake_key
              \/ SecondPskAfterEarlyData /\ c.state = "ENCRYPTED_EXTENSIONS"

\* Which key each endpoint reads and writes with.
ServerKeys ==
    /\ s.state \notin ServerSecond => s.tin = NoKey
    /\ s.state = "END_OF_EARLY_DATA" => s.tin = s.early_key
    /\ s.state \in {"CLIENT_CERTIFICATE", "CLIENT_CERTIFICATE_VERIFY", "CLIENT_FINISHED"} =>
           s.tin = s.handshake_key
    /\ s.state \in ServerBegins \cup {"SERVER_HELLO", "SERVER_CCS_AFTER_SERVER_HELLO",
                                      "ENCRYPTED_EXTENSIONS"} => s.tout = NoKey

ClientKeys ==
    /\ c.state \in ClientBegins => c.tin = NoKey
    /\ c.state \in ClientBegins \ {"SERVER_HELLO"} => c.tout = NoKey
    /\ c.state \in {"SERVER_HELLO", "END_OF_EARLY_DATA", "CLIENT_CCS_AFTER_SERVER_FINISHED"}
                   \cup ClientKeyed =>
           c.tout = IF OffersEarlyData /\ ~c.hrr THEN c.early_key ELSE NoKey
    /\ c.state \in {"CLIENT_CERTIFICATE_VERIFY", "CLIENT_FINISHED"} => c.tout = c.handshake_key

\* The keys of the records on their way.
ServerRecordHasKey(r) ==
    /\ r.type \in {"handshake", "change_cipher_spec"}
    /\ r.type = "change_cipher_spec" \/ Carries(r, "server_hello") => r.key = NoKey
    /\ IsHs(r) /\ ~Carries(r, "server_hello") =>
           s.state \in ServerKeyed \cup ServerSecond /\ r.key = s.handshake_key
    /\ Carries(r, "new_session_ticket") => s.state \in ServerTickets /\ r.key = s.application_key

IsEarlyRecord(r) == r.type # "handshake" /\ r.key # NoKey

ClientRecordHasKey(r) ==
    /\ r.type \in {"handshake", "change_cipher_spec", "application_data"}
    /\ r.type = "handshake" => r.msg.t # "new_session_ticket"
    /\ r.type = "application_data" => r.key # NoKey
    /\ IsEarlyRecord(r) => r.key = c.early_key /\ HelloSent /\ OffersEarlyData
    /\ IsEarlyRecord(r) /\ r.type = "change_cipher_spec" => c.state \in ClientSecond /\ ~s.early_accepted
    /\ Carries(r, "client_hello") => r.key = NoKey
    /\ Carries(r, "end_of_early_data") => r.key = c.early_key /\ c.state \in ClientSecond
    /\ IsHs(r) /\ ~Carries(r, "client_hello") /\ ~Carries(r, "end_of_early_data") =>
           c.state \in ClientSecond /\ r.key = c.handshake_key

RecordsHaveKeys ==
    /\ \A k \in 1 .. Len(ToClient) : ServerRecordHasKey(ToClient[k])
    /\ \A k \in 1 .. Len(ToServer) : ClientRecordHasKey(ToServer[k])

\* Early data comes behind the first ClientHello and before any other message.
EarlyComesFirst ==
    failed.server = "no" =>
        /\ \A j, k \in 1 .. Len(ToServer) :
               j < k /\ IsHs(ToServer[j]) /\ IsEarlyRecord(ToServer[k]) =>
                   Carries(ToServer[j], "client_hello") /\ ToServer[j].over = <<>>
        /\ HelloUnread /\ ToServer # <<>> => IsHs(ToServer[1])

\* As long as early data may come, the server is ready for it.
ServerIsReady ==
    \/ HelloUnread
    \/ ~s.early_accepted /\ s.discard # "NO_DISCARD"
    \/ s.early_accepted /\ ~PastEarlyData

EarlyIsAwaited ==
    failed.server = "no" /\ (\E k \in 1 .. Len(ToServer) : IsEarlyRecord(ToServer[k])) =>
        ServerIsReady

DiscardIsRight ==
    /\ s.discard \in {"NO_DISCARD", "DISCARD", "TRY_TO_DEPROTECT_AND_DISCARD"}
    /\ s.discard = "DISCARD" => s.state \in ServerBegins
    /\ s.discard = "TRY_TO_DEPROTECT_AND_DISCARD" => s.state \notin ServerBegins
    /\ /\ OffersEarlyData /\ ~s.early_accepted /\ ~HelloUnread
       /\ s.hrr => Len(s.tr) = 2
       /\ Len(s.tr) <= FlightEnd
       =>  s.discard # "NO_DISCARD"

\* Without a repeated write the items are counted, and within the limit.
EarlyIsCounted ==
    /\ app.retried = {} => \A i \in 1 .. Len(app.received) : i <= app.received[i]
    /\ s.early_accepted => s.total = Len(app.received)
    /\ c.total = app.next - 1 /\ c.total <= MaxEarly

\* What is known of a failure, but for the limit of early data.
FailuresAreKnown ==
    /\ \/ failed.client \in {"no", "peer"}
       \/ failed.client = "peer certificate" /\ ~Satisfies(conf.s_cert, conf.c_authmode)
       \/ failed.client = "bad mac" /\ SecondPskAfterEarlyData
    /\ \/ failed.server \in {"no", "peer"}
       \/ failed.server = "peer certificate" /\ ~Satisfies(conf.c_cert, conf.s_authmode)
       \/ failed.server = "own certificate" /\ conf.s_cert = "none"
       \/ failed.server = "group" /\ ToSet(conf.c_groups) \cap conf.s_groups = {}
       \/ /\ failed.server = "key exchange"
          /\ "ephemeral" \notin conf.c_modes \cap conf.s_modes
          /\ SharedPsks = {}
       \/ failed.server = "early data limit" /\ (~s.early_accepted \/ app.retried # {})

BadMacIsExpected == failed.client = "bad mac" => c.state \in ClientKeyed

FlowInv ==
    /\ ValuesAreKnown /\ Streams /\ TranscriptsAgree
    /\ Places
    /\ MessagesAreRight
    /\ ServerParameters /\ ClientParameters
    /\ ServerKeys /\ ClientKeys /\ RecordsHaveKeys
    /\ EarlyComesFirst /\ EarlyIsAwaited /\ DiscardIsRight /\ EarlyIsCounted
    /\ FailuresAreKnown /\ BadMacIsExpected


-----------------------------------------------------------------------------
(* What each operation does, as far as expected failures depend on it.     *)

ClientChanges(F) == DOMAIN c' = ClientFields /\ \A f \in ClientFields \ F : c'[f] = c[f]
ServerChanges(F) == DOMAIN s' = ServerFields /\ \A f \in ServerFields \ F : s'[f] = s[f]

QueuesStay == ToClient' = ToClient /\ ToServer' = ToServer

IsMessage(r, m, key, tr) ==
    /\ r.type = "handshake" /\ r.msg = m /\ r.key = key
    /\ m.t \in Bound => r.over = tr

ClientSays(m, key) ==
    /\ c'.tr = Append(c.tr, m)
    /\ ToClient' = ToClient
    /\ \E r : IsMessage(r, m, key, c.tr) /\ ToServer' = Append(ToServer, r)

ServerSays(m, key) ==
    /\ s'.tr = Append(s.tr, m)
    /\ ToServer' = ToServer
    /\ \E r : IsMessage(r, m, key, s.tr) /\ ToClient' = Append(ToClient, r)

IsPadding(r, key) == r.type = "change_cipher_spec" /\ r.key = key

ClientPads ==
    /\ ToClient' = ToClient
    /\ \/ ToServer' = ToServer
       \/ \E r : IsPadding(r, c.tout) /\ ToServer' = Append(ToServer, r)

ServerPads ==
    /\ ToServer' = ToServer
    /\ \/ ToClient' = ToClient
       \/ \E r : IsPadding(r, s.tout) /\ ToClient' = Append(ToClient, r)

ClientIsAlone == failed.client = "no" /\ UNCHANGED <<conf, s, app, failed>>
ServerIsAlone == failed.server = "no" /\ UNCHANGED <<conf, c, app, failed>>

\* What WriteHandshakeMessage and the padding put on the wire.
LEMMA RecordsAre ==
    ASSUME NEW ep, NEW m
    PROVE  /\ IsMessage(HandshakeRecord(ep, m), m, ep.tout, ep.tr)
           /\ IsPadding(CcsRecord(ep), ep.tout)
BY DEF HandshakeRecord, CcsRecord, IsMessage, IsPadding

\* A handler of the client that writes message m.
LEMMA ClientWritesDoes ==
    ASSUME QueuesAreSeqs, NEW ep, NEW m, NEW next, out.client = <<>>,
           ClientWrites(ep, m, next), ep.tr = c.tr, DOMAIN next = ClientFields
    PROVE  /\ DOMAIN c' = ClientFields /\ c'.tr = Append(c.tr, m)
           /\ \A f \in ClientFields \ {"tr"} : c'[f] = next[f]
           /\ ClientSays(m, ep.tout)
           /\ UNCHANGED <<conf, s, app, failed>>
<1>1. /\ Emit("client", HandshakeRecord(ep, m))
      /\ c' = [next EXCEPT !.tr = Append(c.tr, m)]
      /\ UNCHANGED <<conf, s, net, app, failed>>
  BY DEF ClientWrites
<1>4. /\ DOMAIN c' = ClientFields /\ c'.tr = Append(c.tr, m)
      /\ \A f \in ClientFields \ {"tr"} : c'[f] = next[f]
  BY <1>1 DEF ClientFields
<1>2. IsMessage(HandshakeRecord(ep, m), m, ep.tout, c.tr)
  BY RecordsAre
<1>3. ToClient' = ToClient /\ ToServer' = Append(ToServer, HandshakeRecord(ep, m))
  BY <1>1, ClientEmits
<1> QED
  BY <1>1, <1>2, <1>3, <1>4 DEF ClientSays

\* A handler of the server that writes message m.
LEMMA ServerWritesDoes ==
    ASSUME QueuesAreSeqs, NEW ep, NEW m, NEW next, out.server = <<>>,
           ServerWrites(ep, m, next), DOMAIN next = ServerFields
    PROVE  /\ DOMAIN s' = ServerFields /\ s'.tr = Append(ep.tr, m)
           /\ \A f \in ServerFields \ {"tr"} : s'[f] = next[f]
           /\ ep.tr = s.tr => ServerSays(m, ep.tout)
           /\ ToServer' = ToServer
           /\ \E r : IsMessage(r, m, ep.tout, ep.tr) /\ ToClient' = Append(ToClient, r)
           /\ UNCHANGED <<conf, c, app, failed>>
<1>1. /\ Emit("server", HandshakeRecord(ep, m))
      /\ s' = [next EXCEPT !.tr = Append(ep.tr, m)]
      /\ UNCHANGED <<conf, c, net, app, failed>>
  BY DEF ServerWrites
<1>4. /\ DOMAIN s' = ServerFields /\ s'.tr = Append(ep.tr, m)
      /\ \A f \in ServerFields \ {"tr"} : s'[f] = next[f]
  BY <1>1 DEF ServerFields
<1>2. IsMessage(HandshakeRecord(ep, m), m, ep.tout, ep.tr)
  BY RecordsAre
<1>3. ToServer' = ToServer /\ ToClient' = Append(ToClient, HandshakeRecord(ep, m))
  BY <1>1, ServerEmits
<1> QED
  BY <1>1, <1>2, <1>3, <1>4 DEF ServerSays

\* HelloRequest moves its endpoint to its ClientHello and sends nothing.
LEMMA HelloRequestDoes ==
    ASSUME TlsInv, NEW e \in Endpoints, HelloRequest(e)
    PROVE  /\ QueuesStay
           /\ \/ /\ ClientIsAlone /\ ClientChanges({"state"})
                 /\ c.state = "HELLO_REQUEST" /\ c'.state = "CLIENT_HELLO"
              \/ /\ ServerIsAlone /\ ServerChanges({"state"})
                 /\ s.state = "HELLO_REQUEST" /\ s'.state = "CLIENT_HELLO"
<1>1. QueuesStay
  BY NothingMoves DEF HelloRequest, QueuesStay, TlsInv
<1>2. DOMAIN c = ClientFields /\ DOMAIN s = ServerFields
  BY DEF TlsInv, ClientSide, ServerSide
<1>3. CASE e = "client"
  BY <1>1, <1>2, <1>3
     DEF HelloRequest, CanStep, Context, ClientIsAlone, ClientChanges, ClientFields
<1>4. CASE e = "server"
  BY <1>1, <1>2, <1>4
     DEF HelloRequest, CanStep, Context, ServerIsAlone, ServerChanges, ServerFields
<1> QED
  BY <1>3, <1>4 DEF Endpoints

\* The client says a ClientHello; one that offers early data selects the ticket and
\* makes the early key, and writes its early data at once or after the padding.
LEMMA WriteClientHelloDoes ==
    ASSUME TlsInv, WriteClientHello, c.hrr => c.early # "IND_SENT"
    PROVE  LET m == ClientHelloMessage
           IN  /\ c.state = "CLIENT_HELLO" /\ ClientIsAlone
               /\ ClientSays(m, c.tout)
               /\ ClientChanges({"state", "tr", "share", "early", "psk", "early_key", "tout"})
               /\ c'.share = m.share
               /\ IF c.hrr \/ ~m.early
                  THEN /\ c'.state = "SERVER_HELLO"
                       /\ c'.early = IF c.hrr THEN c.early ELSE "NO_IND_SENT"
                       /\ c'.psk = c.psk /\ c'.early_key = c.early_key /\ c'.tout = c.tout
                  ELSE /\ c'.psk = "ticket"
                       /\ c'.early_key = Key("early", "ticket", "none", Append(c.tr, m))
                       /\ \/ /\ c'.state = "CLIENT_CCS_AFTER_CLIENT_HELLO"
                             /\ c'.early = "IND_SENT" /\ c'.tout = c.tout
                          \/ /\ c'.state = "SERVER_HELLO" /\ ~conf.compat
                             /\ c'.early = "CAN_WRITE" /\ c'.tout = c'.early_key
<1> DEFINE m == ClientHelloMessage
           early == IF c.hrr THEN c.early ELSE IF m.early THEN "IND_SENT" ELSE "NO_IND_SENT"
           key == Key("early", "ticket", "none", Append(c.tr, m))
           sent == [c EXCEPT !.share = m.share, !.early = early, !.state = "SERVER_HELLO"]
           offers == [sent EXCEPT !.psk = "ticket", !.early_key = key]
           next == IF early # "IND_SENT" THEN sent
                   ELSE IF conf.compat THEN [offers EXCEPT !.state = "CLIENT_CCS_AFTER_CLIENT_HELLO"]
                   ELSE [offers EXCEPT !.tout = key, !.early = "CAN_WRITE"]
<1>1. DOMAIN c = ClientFields /\ QueuesAreSeqs
  BY DEF TlsInv, ClientSide
<1>2. /\ c.state = "CLIENT_HELLO" /\ failed.client = "no" /\ out.client = <<>>
      /\ ClientWrites(c, m, next)
  BY DEF WriteClientHello, CanStep, Context
<1> HIDE DEF m, key
<1>3. CASE c.hrr \/ ~m.early
  <2>1. next = sent /\ early = IF c.hrr THEN c.early ELSE "NO_IND_SENT"
    BY <1>3
  <2> HIDE DEF early, next
  <2>2. DOMAIN sent = ClientFields
    BY <1>1
  <2> HIDE DEF sent
  <2>3. /\ DOMAIN c' = ClientFields /\ ClientSays(m, c.tout) /\ UNCHANGED <<conf, s, app, failed>>
        /\ \A f \in ClientFields \ {"tr"} : c'[f] = sent[f]
    BY <1>1, <1>2, <2>1, <2>2, ClientWritesDoes
  <2>4. /\ sent.share = m.share /\ sent.early = early /\ sent.state = "SERVER_HELLO"
        /\ \A f \in ClientFields \ {"share", "early", "state"} : sent[f] = c[f]
    BY <1>1 DEF sent, ClientFields
  <2>5. /\ ClientChanges({"state", "tr", "share", "early", "psk", "early_key", "tout"})
        /\ c'.share = m.share /\ c'.state = "SERVER_HELLO" /\ c'.early = early
        /\ c'.psk = c.psk /\ c'.early_key = c.early_key /\ c'.tout = c.tout
    BY <2>3, <2>4 DEF ClientChanges, ClientFields
  <2> QED
    BY <1>2, <1>3, <2>1, <2>3, <2>5 DEF ClientIsAlone, m
<1>4. CASE ~(c.hrr \/ ~m.early)
  <2> DEFINE ccs == [offers EXCEPT !.state = "CLIENT_CCS_AFTER_CLIENT_HELLO"]
             direct == [offers EXCEPT !.tout = key, !.early = "CAN_WRITE"]
  <2>1. (next = ccs \/ (next = direct /\ ~conf.compat)) /\ early = "IND_SENT"
    BY <1>4
  <2> HIDE DEF early, next
  <2>2. /\ DOMAIN ccs = ClientFields /\ ccs.share = m.share
        /\ ccs.psk = "ticket" /\ ccs.early_key = key /\ ccs.early = early
        /\ ccs.state = "CLIENT_CCS_AFTER_CLIENT_HELLO" /\ ccs.tout = c.tout
        /\ \A f \in ClientFields \ {"share", "early", "state", "psk", "early_key"} : ccs[f] = c[f]
    BY <1>1 DEF ClientFields
  <2>3. /\ DOMAIN direct = ClientFields /\ direct.share = m.share
        /\ direct.psk = "ticket" /\ direct.early_key = key /\ direct.early = "CAN_WRITE"
        /\ direct.state = "SERVER_HELLO" /\ direct.tout = key
        /\ \A f \in ClientFields \ {"share", "early", "state", "psk", "early_key", "tout"} :
               direct[f] = c[f]
    BY <1>1 DEF ClientFields
  <2> HIDE DEF ccs, direct
  <2>4. /\ DOMAIN next = ClientFields /\ next.share = m.share
        /\ next.psk = "ticket" /\ next.early_key = key
        /\ \A f \in ClientFields \ {"share", "early", "state", "psk", "early_key", "tout"} :
               next[f] = c[f]
        /\ \/ /\ next.state = "CLIENT_CCS_AFTER_CLIENT_HELLO"
              /\ next.early = "IND_SENT" /\ next.tout = c.tout
           \/ /\ next.state = "SERVER_HELLO" /\ next.early = "CAN_WRITE" /\ next.tout = key
              /\ ~conf.compat
    BY <2>1, <2>2, <2>3 DEF ClientFields
  <2>5. /\ DOMAIN c' = ClientFields /\ ClientSays(m, c.tout) /\ UNCHANGED <<conf, s, app, failed>>
        /\ \A f \in ClientFields \ {"tr"} : c'[f] = next[f]
    BY <1>1, <1>2, <2>4, ClientWritesDoes
  <2>6. /\ ClientChanges({"state", "tr", "share", "early", "psk", "early_key", "tout"})
        /\ c'.share = m.share /\ c'.psk = "ticket" /\ c'.early_key = key
        /\ \/ c'.state = "CLIENT_CCS_AFTER_CLIENT_HELLO" /\ c'.early = "IND_SENT" /\ c'.tout = c.tout
           \/ /\ c'.state = "SERVER_HELLO" /\ c'.early = "CAN_WRITE" /\ c'.tout = key
              /\ ~conf.compat
    BY <2>4, <2>5 DEF ClientChanges, ClientFields
  <2> QED
    BY <1>2, <1>4, <2>5, <2>6 DEF ClientIsAlone, m, key
<1> QED
  BY <1>3, <1>4

\* A dummy record, and the fields the handler sets.
LEMMA ClientCcsDoes ==
    ASSUME TlsInv, NEW st, CanStep("client", st), NEW next, DOMAIN next = ClientFields,
           WriteCcs("client", next)
    PROVE  /\ c.state = st /\ ClientIsAlone /\ ClientPads
           /\ c.ccs_sent => ToServer' = ToServer
           /\ c' = [next EXCEPT !.ccs_sent = TRUE]
<1>1. QueuesAreSeqs /\ out.client = <<>> /\ failed.client = "no" /\ c.state = st
  BY DEF TlsInv, CanStep, Context
<1>2. /\ UNCHANGED <<conf, s, net, app, failed>> /\ c' = [next EXCEPT !.ccs_sent = TRUE]
      /\ out' = out \/ (Emit("client", CcsRecord(c)) /\ ~c.ccs_sent)
  BY DEF WriteCcs, Context
<1>3. CASE out' = out
  BY <1>1, <1>2, <1>3, NothingMoves DEF ClientIsAlone, ClientPads
<1>4. CASE Emit("client", CcsRecord(c)) /\ ~c.ccs_sent
  BY <1>1, <1>2, <1>4, ClientEmits, RecordsAre DEF ClientIsAlone, ClientPads
<1> QED
  BY <1>2, <1>3, <1>4

\* The padding after the ClientHello; early data may follow it.
LEMMA ClientCcsAfterClientHelloDoes ==
    ASSUME TlsInv, ClientCcsAfterClientHello
    PROVE  /\ c.state = "CLIENT_CCS_AFTER_CLIENT_HELLO" /\ c'.state = "SERVER_HELLO"
           /\ ClientIsAlone /\ ClientPads
           /\ ClientChanges({"state", "tout", "early", "ccs_sent"})
           /\ c'.tout = c.early_key /\ c'.early = "CAN_WRITE" /\ c'.ccs_sent
<1>1. DOMAIN c = ClientFields
  BY DEF TlsInv, ClientSide
<1>2. /\ c.state = "CLIENT_CCS_AFTER_CLIENT_HELLO" /\ ClientIsAlone /\ ClientPads
      /\ c' = [[c EXCEPT !.state = "SERVER_HELLO", !.tout = c.early_key, !.early = "CAN_WRITE"]
                  EXCEPT !.ccs_sent = TRUE]
  BY <1>1, ClientCcsDoes DEF ClientCcsAfterClientHello
<1> QED
  BY <1>1, <1>2 DEF ClientChanges, ClientFields

\* The padding before the second ClientHello.
LEMMA ClientCcsBefore2ndClientHelloDoes ==
    ASSUME TlsInv, ClientCcsBefore2ndClientHello
    PROVE  /\ c.state = "CLIENT_CCS_BEFORE_2ND_CLIENT_HELLO" /\ c'.state = "CLIENT_HELLO"
           /\ ClientIsAlone /\ ClientPads
           /\ ClientChanges({"state", "ccs_sent"})
<1>1. DOMAIN c = ClientFields
  BY DEF TlsInv, ClientSide
<1>2. /\ c.state = "CLIENT_CCS_BEFORE_2ND_CLIENT_HELLO" /\ ClientIsAlone /\ ClientPads
      /\ c' = [[c EXCEPT !.state = "CLIENT_HELLO"] EXCEPT !.ccs_sent = TRUE]
  BY <1>1, ClientCcsDoes DEF ClientCcsBefore2ndClientHello
<1> QED
  BY <1>1, <1>2 DEF ClientChanges, ClientFields

\* The padding before the client's second flight.
LEMMA ClientCcsAfterServerFinishedDoes ==
    ASSUME TlsInv, ClientCcsAfterServerFinished
    PROVE  /\ c.state = "CLIENT_CCS_AFTER_SERVER_FINISHED" /\ c'.state = "CLIENT_CERTIFICATE"
           /\ ClientIsAlone /\ ClientPads /\ (c.ccs_sent => ToServer' = ToServer)
           /\ ClientChanges({"state", "ccs_sent"})
<1>1. DOMAIN c = ClientFields
  BY DEF TlsInv, ClientSide
<1>2. /\ c.state = "CLIENT_CCS_AFTER_SERVER_FINISHED" /\ ClientIsAlone /\ ClientPads
      /\ c.ccs_sent => ToServer' = ToServer
      /\ c' = [[c EXCEPT !.state = "CLIENT_CERTIFICATE"] EXCEPT !.ccs_sent = TRUE]
  BY <1>1, ClientCcsDoes DEF ClientCcsAfterServerFinished
<1> QED
  BY <1>1, <1>2 DEF ClientChanges, ClientFields

\* The client says that its early data ends, under the early key.
LEMMA WriteEndOfEarlyDataDoes ==
    ASSUME TlsInv, WriteEndOfEarlyData
    PROVE  /\ c.state = "END_OF_EARLY_DATA" /\ c'.state = "CLIENT_CERTIFICATE"
           /\ ClientIsAlone /\ ClientSays([t |-> "end_of_early_data"], c.tout)
           /\ ClientChanges({"state", "tr"})
<1> DEFINE m == [t |-> "end_of_early_data"]
           next == [c EXCEPT !.state = "CLIENT_CERTIFICATE"]
<1>1. DOMAIN c = ClientFields /\ QueuesAreSeqs
  BY DEF TlsInv, ClientSide
<1>2. /\ c.state = "END_OF_EARLY_DATA" /\ failed.client = "no" /\ out.client = <<>>
      /\ ClientWrites(c, m, next)
  BY DEF WriteEndOfEarlyData, CanStep, Context
<1>3. /\ DOMAIN next = ClientFields /\ next.state = "CLIENT_CERTIFICATE"
      /\ \A f \in ClientFields \ {"state"} : next[f] = c[f]
  BY <1>1 DEF ClientFields
<1> HIDE DEF next, m
<1>4. /\ DOMAIN c' = ClientFields /\ ClientSays(m, c.tout) /\ UNCHANGED <<conf, s, app, failed>>
      /\ \A f \in ClientFields \ {"tr"} : c'[f] = next[f]
  BY <1>1, <1>2, <1>3, ClientWritesDoes
<1> QED
  BY <1>2, <1>3, <1>4 DEF ClientChanges, ClientFields, ClientIsAlone, m

\* The client turns to its handshake key, and says its certificate if asked for
\* one; it signs only if it has one.
LEMMA WriteClientCertificateDoes ==
    ASSUME TlsInv, WriteClientCertificate
    PROVE  /\ c.state = "CLIENT_CERTIFICATE" /\ ClientIsAlone
           /\ c'.state = IF c.client_auth /\ conf.c_cert # "none" THEN "CLIENT_CERTIFICATE_VERIFY"
                         ELSE "CLIENT_FINISHED"
           /\ IF c.client_auth
              THEN ClientSays([t |-> "certificate", cert |-> conf.c_cert], c.handshake_key)
              ELSE QueuesStay /\ c'.tr = c.tr
           /\ ClientChanges({"state", "tr", "tout"}) /\ c'.tout = c.handshake_key
<1> DEFINE m == [t |-> "certificate", cert |-> conf.c_cert]
           ep == [c EXCEPT !.tout = c.handshake_key]
           st == IF c.client_auth /\ conf.c_cert # "none" THEN "CLIENT_CERTIFICATE_VERIFY"
                 ELSE "CLIENT_FINISHED"
           next == [ep EXCEPT !.state = st]
<1>1. DOMAIN c = ClientFields /\ QueuesAreSeqs
  BY DEF TlsInv, ClientSide
<1>2. /\ c.state = "CLIENT_CERTIFICATE" /\ failed.client = "no" /\ out.client = <<>>
      /\ c.client_auth => ClientWrites(ep, m, next)
      /\ ~c.client_auth => c' = next /\ UNCHANGED <<conf, s, out, net, app, failed>>
  BY DEF WriteClientCertificate, CanStep, Context
<1> HIDE DEF m, st
<1>3. /\ DOMAIN next = ClientFields /\ ep.tr = c.tr /\ ep.tout = c.handshake_key
      /\ next.state = st /\ next.tout = c.handshake_key /\ next.tr = c.tr
      /\ \A f \in ClientFields \ {"state", "tout"} : next[f] = c[f]
  BY <1>1 DEF ClientFields
<1> HIDE DEF next, ep
<1>4. CASE c.client_auth
  <2>1. /\ DOMAIN c' = ClientFields /\ \A f \in ClientFields \ {"tr"} : c'[f] = next[f]
        /\ ClientSays(m, c.handshake_key) /\ UNCHANGED <<conf, s, app, failed>>
    BY <1>1, <1>2, <1>3, <1>4, ClientWritesDoes
  <2> QED
    BY <1>2, <1>3, <1>4, <2>1 DEF ClientChanges, ClientFields, ClientIsAlone, m, st
<1>5. CASE ~c.client_auth
  BY <1>1, <1>2, <1>3, <1>5, NothingMoves
     DEF ClientChanges, ClientFields, ClientIsAlone, QueuesStay, st
<1> QED
  BY <1>4, <1>5

\* The client says its signature.
LEMMA WriteClientCertificateVerifyDoes ==
    ASSUME TlsInv, WriteClientCertificateVerify
    PROVE  /\ c.state = "CLIENT_CERTIFICATE_VERIFY" /\ c'.state = "CLIENT_FINISHED"
           /\ ClientIsAlone /\ ClientSays([t |-> "certificate_verify"], c.tout)
           /\ ClientChanges({"state", "tr"})
<1> DEFINE m == [t |-> "certificate_verify"]
           next == [c EXCEPT !.state = "CLIENT_FINISHED"]
<1>1. DOMAIN c = ClientFields /\ QueuesAreSeqs
  BY DEF TlsInv, ClientSide
<1>2. /\ c.state = "CLIENT_CERTIFICATE_VERIFY" /\ failed.client = "no" /\ out.client = <<>>
      /\ ClientWrites(c, m, next)
  BY DEF WriteClientCertificateVerify, CanStep, Context
<1>3. /\ DOMAIN next = ClientFields /\ next.state = "CLIENT_FINISHED"
      /\ \A f \in ClientFields \ {"state"} : next[f] = c[f]
  BY <1>1 DEF ClientFields
<1> HIDE DEF next, m
<1>4. /\ DOMAIN c' = ClientFields /\ ClientSays(m, c.tout) /\ UNCHANGED <<conf, s, app, failed>>
      /\ \A f \in ClientFields \ {"tr"} : c'[f] = next[f]
  BY <1>1, <1>2, <1>3, ClientWritesDoes
<1> QED
  BY <1>2, <1>3, <1>4 DEF ClientChanges, ClientFields, ClientIsAlone, m

\* The client says its Finished message.
LEMMA WriteClientFinishedDoes ==
    ASSUME TlsInv, WriteClientFinished
    PROVE  /\ c.state = "CLIENT_FINISHED" /\ c'.state = "FLUSH_BUFFERS"
           /\ ClientIsAlone /\ ClientSays([t |-> "finished"], c.tout)
           /\ ClientChanges({"state", "resumption", "tr"})
<1> DEFINE m == [t |-> "finished"]
           next == [c EXCEPT !.state = "FLUSH_BUFFERS",
                             !.resumption = Key("resumption", c.psk, c.share, Append(c.tr, m))]
<1>1. DOMAIN c = ClientFields /\ QueuesAreSeqs
  BY DEF TlsInv, ClientSide
<1>2. /\ c.state = "CLIENT_FINISHED" /\ failed.client = "no" /\ out.client = <<>>
      /\ ClientWrites(c, m, next)
  BY DEF WriteClientFinished, CanStep, Context
<1>3. /\ DOMAIN next = ClientFields /\ next.state = "FLUSH_BUFFERS"
      /\ \A f \in ClientFields \ {"state", "resumption"} : next[f] = c[f]
  BY <1>1 DEF ClientFields
<1> HIDE DEF next, m
<1>4. /\ DOMAIN c' = ClientFields /\ ClientSays(m, c.tout) /\ UNCHANGED <<conf, s, app, failed>>
      /\ \A f \in ClientFields \ {"tr"} : c'[f] = next[f]
  BY <1>1, <1>2, <1>3, ClientWritesDoes
<1> QED
  BY <1>2, <1>3, <1>4 DEF ClientChanges, ClientFields, ClientIsAlone, m

\* The client's last states send nothing and only change its keys.
LEMMA ClientWrapupDoes ==
    ASSUME TlsInv, ClientFlushBuffers \/ ClientHandshakeWrapup
    PROVE  /\ c.state \in {"FLUSH_BUFFERS", "HANDSHAKE_WRAPUP"}
           /\ c'.state \in {"HANDSHAKE_WRAPUP", "HANDSHAKE_OVER"}
           /\ ClientIsAlone /\ QueuesStay
           /\ ClientChanges({"state", "tin", "tout"})
<1>1. DOMAIN c = ClientFields /\ QueuesAreSeqs
  BY DEF TlsInv, ClientSide
<1>2. failed.client = "no" /\ UNCHANGED <<conf, s, out, net, app, failed>>
  BY DEF ClientFlushBuffers, ClientHandshakeWrapup, CanStep
<1>3. QueuesStay
  BY <1>1, <1>2, NothingMoves DEF QueuesStay
<1> QED
  BY <1>1, <1>2, <1>3
     DEF ClientFlushBuffers, ClientHandshakeWrapup, CanStep, Context, ClientChanges, ClientFields,
         ClientIsAlone


\* A dummy record of the server, and the fields the handler sets.
LEMMA ServerCcsDoes ==
    ASSUME TlsInv, NEW st, CanStep("server", st), NEW next, DOMAIN next = ServerFields,
           WriteCcs("server", next)
    PROVE  /\ s.state = st /\ ServerIsAlone /\ ServerPads
           /\ s' = [next EXCEPT !.ccs_sent = TRUE]
<1>1. QueuesAreSeqs /\ out.server = <<>> /\ failed.server = "no" /\ s.state = st
  BY DEF TlsInv, CanStep, Context
<1>2. /\ UNCHANGED <<conf, c, net, app, failed>> /\ s' = [next EXCEPT !.ccs_sent = TRUE]
      /\ out' = out \/ Emit("server", CcsRecord(s))
  BY DEF WriteCcs, Context
<1>3. CASE out' = out
  BY <1>1, <1>2, <1>3, NothingMoves DEF ServerIsAlone, ServerPads
<1>4. CASE Emit("server", CcsRecord(s))
  BY <1>1, <1>2, <1>4, ServerEmits, RecordsAre DEF ServerIsAlone, ServerPads
<1> QED
  BY <1>2, <1>3, <1>4

\* The padding after a HelloRetryRequest.
LEMMA ServerCcsAfterHelloRetryRequestDoes ==
    ASSUME TlsInv, ServerCcsAfterHelloRetryRequest
    PROVE  /\ s.state = "SERVER_CCS_AFTER_HELLO_RETRY_REQUEST" /\ s'.state = "CLIENT_HELLO"
           /\ ServerIsAlone /\ ServerPads
           /\ ServerChanges({"state", "ccs_sent"})
<1>1. DOMAIN s = ServerFields
  BY DEF TlsInv, ServerSide
<1>2. /\ s.state = "SERVER_CCS_AFTER_HELLO_RETRY_REQUEST" /\ ServerIsAlone /\ ServerPads
      /\ s' = [[s EXCEPT !.state = "CLIENT_HELLO"] EXCEPT !.ccs_sent = TRUE]
  BY <1>1, ServerCcsDoes DEF ServerCcsAfterHelloRetryRequest
<1> QED
  BY <1>1, <1>2 DEF ServerChanges, ServerFields

\* The padding after the ServerHello.
LEMMA ServerCcsAfterServerHelloDoes ==
    ASSUME TlsInv, ServerCcsAfterServerHello
    PROVE  /\ s.state = "SERVER_CCS_AFTER_SERVER_HELLO" /\ s'.state = "ENCRYPTED_EXTENSIONS"
           /\ ServerIsAlone /\ ServerPads
           /\ ServerChanges({"state", "ccs_sent"})
<1>1. DOMAIN s = ServerFields
  BY DEF TlsInv, ServerSide
<1>2. /\ s.state = "SERVER_CCS_AFTER_SERVER_HELLO" /\ ServerIsAlone /\ ServerPads
      /\ s' = [[s EXCEPT !.state = "ENCRYPTED_EXTENSIONS"] EXCEPT !.ccs_sent = TRUE]
  BY <1>1, ServerCcsDoes DEF ServerCcsAfterServerHello
<1> QED
  BY <1>1, <1>2 DEF ServerChanges, ServerFields

ServerHelloMessage ==
    [t |-> "server_hello", hrr |-> FALSE, share |-> s.share,
     psk |-> IF s.mode \in PskModes THEN s.selected ELSE 0]

\* The server says its ServerHello and makes the handshake key.
LEMMA WriteServerHelloDoes ==
    ASSUME TlsInv, WriteServerHello
    PROVE  /\ s.state = "SERVER_HELLO" /\ s'.state \in {"SERVER_CCS_AFTER_SERVER_HELLO", "ENCRYPTED_EXTENSIONS"}
           /\ ServerIsAlone /\ ServerSays(ServerHelloMessage, s.tout)
           /\ ServerChanges({"state", "handshake_key", "tr"})
           /\ s'.handshake_key = Key("handshake", s.psk, s.share, Append(s.tr, ServerHelloMessage))
<1> DEFINE m == ServerHelloMessage
           next == [s EXCEPT !.handshake_key = Key("handshake", s.psk, s.share, Append(s.tr, m)),
                             !.state = IF conf.compat THEN "SERVER_CCS_AFTER_SERVER_HELLO"
                                       ELSE "ENCRYPTED_EXTENSIONS"]
<1>1. DOMAIN s = ServerFields /\ QueuesAreSeqs
  BY DEF TlsInv, ServerSide
<1>2. /\ s.state = "SERVER_HELLO" /\ failed.server = "no" /\ out.server = <<>>
      /\ ServerWrites(s, m, next)
  BY DEF WriteServerHello, ServerHelloMessage, CanStep, Context
<1> HIDE DEF m
<1>3. /\ DOMAIN next = ServerFields /\ next.state \in {"SERVER_CCS_AFTER_SERVER_HELLO", "ENCRYPTED_EXTENSIONS"}
      /\ next.handshake_key = Key("handshake", s.psk, s.share, Append(s.tr, m))
      /\ \A f \in ServerFields \ {"state", "handshake_key"} : next[f] = s[f]
  BY <1>1 DEF ServerFields
<1> HIDE DEF next
<1>4. /\ DOMAIN s' = ServerFields /\ ServerSays(m, s.tout) /\ UNCHANGED <<conf, c, app, failed>>
      /\ \A f \in ServerFields \ {"tr"} : s'[f] = next[f]
  BY <1>1, <1>2, <1>3, ServerWritesDoes
<1> QED
  BY <1>2, <1>3, <1>4 DEF ServerChanges, ServerFields, ServerIsAlone, m

\* The server turns to its handshake key and says whether it takes early data.
LEMMA WriteEncryptedExtensionsDoes ==
    ASSUME TlsInv, WriteEncryptedExtensions
    PROVE  /\ s.state = "ENCRYPTED_EXTENSIONS"
           /\ s'.state = IF s.mode \in PskModes THEN "SERVER_FINISHED" ELSE "CERTIFICATE_REQUEST"
           /\ ServerIsAlone
           /\ ServerSays([t |-> "encrypted_extensions", early |-> s.early_accepted], s.handshake_key)
           /\ ServerChanges({"state", "tout", "tr"}) /\ s'.tout = s.handshake_key
<1> DEFINE m == [t |-> "encrypted_extensions", early |-> s.early_accepted]
           ep == [s EXCEPT !.tout = s.handshake_key]
           next == [ep EXCEPT !.state = IF s.mode \in PskModes THEN "SERVER_FINISHED"
                                        ELSE "CERTIFICATE_REQUEST"]
<1>1. DOMAIN s = ServerFields /\ QueuesAreSeqs
  BY DEF TlsInv, ServerSide
<1>2. /\ s.state = "ENCRYPTED_EXTENSIONS" /\ failed.server = "no" /\ out.server = <<>>
      /\ ServerWrites(ep, m, next)
  BY DEF WriteEncryptedExtensions, CanStep, Context
<1> HIDE DEF m
<1>3. /\ DOMAIN next = ServerFields /\ ep.tr = s.tr /\ ep.tout = s.handshake_key
      /\ next.state = IF s.mode \in PskModes THEN "SERVER_FINISHED" ELSE "CERTIFICATE_REQUEST"
      /\ next.tout = s.handshake_key
      /\ \A f \in ServerFields \ {"state", "tout"} : next[f] = s[f]
  BY <1>1 DEF ServerFields
<1> HIDE DEF next, ep
<1>4. /\ DOMAIN s' = ServerFields /\ ServerSays(m, s.handshake_key)
      /\ UNCHANGED <<conf, c, app, failed>>
      /\ \A f \in ServerFields \ {"tr"} : s'[f] = next[f]
  BY <1>1, <1>2, <1>3, ServerWritesDoes
<1> QED
  BY <1>2, <1>3, <1>4 DEF ServerChanges, ServerFields, ServerIsAlone, m

\* The server asks for a certificate, or passes on in silence.
LEMMA WriteCertificateRequestDoes ==
    ASSUME TlsInv, WriteCertificateRequest
    PROVE  /\ s.state = "CERTIFICATE_REQUEST" /\ s'.state = "SERVER_CERTIFICATE"
           /\ ServerIsAlone
           /\ \/ ServerChanges({"state"}) /\ QueuesStay
              \/ /\ ServerSays([t |-> "certificate_request"], s.tout)
                 /\ ServerChanges({"state", "certificate_request_sent", "tr"})
                 /\ s'.certificate_request_sent = TRUE
<1> DEFINE m == [t |-> "certificate_request"]
           plain == [s EXCEPT !.state = "SERVER_CERTIFICATE"]
           next == [plain EXCEPT !.certificate_request_sent = TRUE]
<1>1. DOMAIN s = ServerFields /\ QueuesAreSeqs
  BY DEF TlsInv, ServerSide
<1>2. /\ s.state = "CERTIFICATE_REQUEST" /\ failed.server = "no" /\ out.server = <<>>
      /\ \/ s' = plain /\ UNCHANGED <<conf, c, out, net, app, failed>>
         \/ ServerWrites(s, m, next)
  BY DEF WriteCertificateRequest, CanStep, Context
<1> HIDE DEF m
<1>3. CASE s' = plain /\ UNCHANGED <<conf, c, out, net, app, failed>>
  <2>1. QueuesStay
    BY <1>1, <1>3, NothingMoves DEF QueuesStay
  <2> QED
    BY <1>1, <1>2, <1>3, <2>1 DEF ServerChanges, ServerFields, ServerIsAlone
<1>4. CASE ServerWrites(s, m, next)
  <2>1. /\ DOMAIN next = ServerFields /\ next.state = "SERVER_CERTIFICATE"
        /\ next.certificate_request_sent = TRUE
        /\ \A f \in ServerFields \ {"state", "certificate_request_sent"} : next[f] = s[f]
    BY <1>1 DEF ServerFields
  <2> HIDE DEF next
  <2>2. /\ DOMAIN s' = ServerFields /\ ServerSays(m, s.tout) /\ UNCHANGED <<conf, c, app, failed>>
        /\ \A f \in ServerFields \ {"tr"} : s'[f] = next[f]
    BY <1>1, <1>2, <1>4, <2>1, ServerWritesDoes
  <2> QED
    BY <1>2, <2>1, <2>2 DEF ServerChanges, ServerFields, ServerIsAlone, m
<1> QED
  BY <1>2, <1>3, <1>4

\* The server says its certificate.
LEMMA WriteServerCertificateDoes ==
    ASSUME TlsInv, WriteServerCertificate, conf.s_cert # "none"
    PROVE  /\ s.state = "SERVER_CERTIFICATE" /\ s'.state = "CERTIFICATE_VERIFY"
           /\ ServerIsAlone /\ ServerSays([t |-> "certificate", cert |-> conf.s_cert], s.tout)
           /\ ServerChanges({"state", "tr"})
<1> DEFINE m == [t |-> "certificate", cert |-> conf.s_cert]
           next == [s EXCEPT !.state = "CERTIFICATE_VERIFY"]
<1>1. DOMAIN s = ServerFields /\ QueuesAreSeqs
  BY DEF TlsInv, ServerSide
<1>2. /\ s.state = "SERVER_CERTIFICATE" /\ failed.server = "no" /\ out.server = <<>>
      /\ ServerWrites(s, m, next)
  BY DEF WriteServerCertificate, CanStep, Context
<1> HIDE DEF m
<1>3. /\ DOMAIN next = ServerFields /\ next.state = "CERTIFICATE_VERIFY"
      /\ \A f \in ServerFields \ {"state"} : next[f] = s[f]
  BY <1>1 DEF ServerFields
<1> HIDE DEF next
<1>4. /\ DOMAIN s' = ServerFields /\ ServerSays(m, s.tout) /\ UNCHANGED <<conf, c, app, failed>>
      /\ \A f \in ServerFields \ {"tr"} : s'[f] = next[f]
  BY <1>1, <1>2, <1>3, ServerWritesDoes
<1> QED
  BY <1>2, <1>3, <1>4 DEF ServerChanges, ServerFields, ServerIsAlone, m

\* The server says its signature.
LEMMA WriteServerCertificateVerifyDoes ==
    ASSUME TlsInv, WriteServerCertificateVerify
    PROVE  /\ s.state = "CERTIFICATE_VERIFY" /\ s'.state = "SERVER_FINISHED"
           /\ ServerIsAlone /\ ServerSays([t |-> "certificate_verify"], s.tout)
           /\ ServerChanges({"state", "tr"})
<1> DEFINE m == [t |-> "certificate_verify"]
           next == [s EXCEPT !.state = "SERVER_FINISHED"]
<1>1. DOMAIN s = ServerFields /\ QueuesAreSeqs
  BY DEF TlsInv, ServerSide
<1>2. /\ s.state = "CERTIFICATE_VERIFY" /\ failed.server = "no" /\ out.server = <<>>
      /\ ServerWrites(s, m, next)
  BY DEF WriteServerCertificateVerify, CanStep, Context
<1> HIDE DEF m
<1>3. /\ DOMAIN next = ServerFields /\ next.state = "SERVER_FINISHED"
      /\ \A f \in ServerFields \ {"state"} : next[f] = s[f]
  BY <1>1 DEF ServerFields
<1> HIDE DEF next
<1>4. /\ DOMAIN s' = ServerFields /\ ServerSays(m, s.tout) /\ UNCHANGED <<conf, c, app, failed>>
      /\ \A f \in ServerFields \ {"tr"} : s'[f] = next[f]
  BY <1>1, <1>2, <1>3, ServerWritesDoes
<1> QED
  BY <1>2, <1>3, <1>4 DEF ServerChanges, ServerFields, ServerIsAlone, m

\* The server says its Finished message, and reads under the early key next if it
\* takes early data, under the handshake key if not.
LEMMA WriteServerFinishedDoes ==
    ASSUME TlsInv, WriteServerFinished
    PROVE  /\ s.state = "SERVER_FINISHED" /\ ServerIsAlone
           /\ ServerSays([t |-> "finished"], s.tout)
           /\ ServerChanges({"state", "tin", "application_key", "tr"})
           /\ IF s.early_accepted THEN s'.tin = s.early_key /\ s'.state = "END_OF_EARLY_DATA"
              ELSE s'.tin = s.handshake_key /\ s'.state = SecondFlight
<1> DEFINE m == [t |-> "finished"]
           keyed == [s EXCEPT !.application_key = Key("application", s.psk, s.share, Append(s.tr, m))]
           next == IF s.early_accepted
                   THEN [keyed EXCEPT !.tin = s.early_key, !.state = "END_OF_EARLY_DATA"]
                   ELSE [keyed EXCEPT !.tin = s.handshake_key, !.state = SecondFlight]
<1>1. DOMAIN s = ServerFields /\ QueuesAreSeqs
  BY DEF TlsInv, ServerSide
<1>2. /\ s.state = "SERVER_FINISHED" /\ failed.server = "no" /\ out.server = <<>>
      /\ ServerWrites(s, m, next)
  BY DEF WriteServerFinished, CanStep, Context
<1> HIDE DEF m
<1>3. /\ DOMAIN next = ServerFields
      /\ IF s.early_accepted THEN next.tin = s.early_key /\ next.state = "END_OF_EARLY_DATA"
         ELSE next.tin = s.handshake_key /\ next.state = SecondFlight
      /\ \A f \in ServerFields \ {"state", "tin", "application_key"} : next[f] = s[f]
  BY <1>1 DEF ServerFields
<1> HIDE DEF next
<1>4. /\ DOMAIN s' = ServerFields /\ ServerSays(m, s.tout) /\ UNCHANGED <<conf, c, app, failed>>
      /\ \A f \in ServerFields \ {"tr"} : s'[f] = next[f]
  BY <1>1, <1>2, <1>3, ServerWritesDoes
<1> QED
  BY <1>2, <1>3, <1>4 DEF ServerChanges, ServerFields, ServerIsAlone, m

\* The server hashes the first ClientHello and asks for another, in the clear.
LEMMA WriteHelloRetryRequestDoes ==
    ASSUME TlsInv, WriteHelloRetryRequest, ~s.hrr, CommonGroups(s.groups) # {}
    PROVE  LET m == [t |-> "server_hello", hrr |-> TRUE, psk |-> 0, share |-> FirstGroup(s.groups)]
               tr == TranscriptForHrr(s.tr)
           IN  /\ s.state = "HELLO_RETRY_REQUEST" /\ ServerIsAlone
               /\ s'.state \in {"SERVER_CCS_AFTER_HELLO_RETRY_REQUEST", "CLIENT_HELLO"}
               /\ s'.tr = Append(tr, m)
               /\ ToServer' = ToServer
               /\ \E r : IsMessage(r, m, NoKey, tr) /\ ToClient' = Append(ToClient, r)
               /\ ServerChanges({"state", "tr", "tin", "tout", "hrr"})
               /\ s'.tin = NoKey /\ s'.tout = NoKey /\ s'.hrr = TRUE
<1> DEFINE m == [t |-> "server_hello", hrr |-> TRUE, psk |-> 0, share |-> FirstGroup(s.groups)]
           tr == TranscriptForHrr(s.tr)
           ep == [s EXCEPT !.tr = tr, !.tin = NoKey, !.tout = NoKey]
           next == [ep EXCEPT !.hrr = TRUE,
                              !.state = IF conf.compat THEN "SERVER_CCS_AFTER_HELLO_RETRY_REQUEST"
                                        ELSE "CLIENT_HELLO"]
<1>1. DOMAIN s = ServerFields /\ QueuesAreSeqs
  BY DEF TlsInv, ServerSide
<1>2. /\ s.state = "HELLO_RETRY_REQUEST" /\ failed.server = "no" /\ out.server = <<>>
      /\ ServerWrites(ep, m, next)
  BY <1>1 DEF WriteHelloRetryRequest, CanStep, Context, ServerFields
<1> HIDE DEF m, tr
<1>3. /\ DOMAIN next = ServerFields /\ ep.tr = tr /\ ep.tout = NoKey
      /\ next.state \in {"SERVER_CCS_AFTER_HELLO_RETRY_REQUEST", "CLIENT_HELLO"}
      /\ next.tin = NoKey /\ next.tout = NoKey /\ next.hrr = TRUE
      /\ \A f \in ServerFields \ {"state", "tr", "tin", "tout", "hrr"} : next[f] = s[f]
  BY <1>1 DEF ServerFields
<1> HIDE DEF next, ep
<1>4. /\ DOMAIN s' = ServerFields /\ s'.tr = Append(tr, m) /\ UNCHANGED <<conf, c, app, failed>>
      /\ \A f \in ServerFields \ {"tr"} : s'[f] = next[f]
      /\ ToServer' = ToServer
      /\ \E r : IsMessage(r, m, NoKey, tr) /\ ToClient' = Append(ToClient, r)
  BY <1>1, <1>2, <1>3, ServerWritesDoes
<1> QED
  BY <1>2, <1>3, <1>4 DEF ServerChanges, ServerFields, ServerIsAlone, m, tr

\* The server's last states send nothing and only change its keys.
LEMMA ServerWrapupDoes ==
    ASSUME TlsInv, ServerHandshakeWrapup \/ ServerNewSessionTicketFlush
    PROVE  /\ s.state \in ServerDone /\ s'.state \in ServerTickets
           /\ ServerIsAlone /\ QueuesStay
           /\ ServerChanges({"state", "tin", "tout"})
<1>1. DOMAIN s = ServerFields /\ QueuesAreSeqs
  BY DEF TlsInv, ServerSide
<1>2. failed.server = "no" /\ UNCHANGED <<conf, c, out, net, app, failed>>
  BY DEF ServerHandshakeWrapup, ServerNewSessionTicketFlush, CanStep
<1>3. QueuesStay
  BY <1>1, <1>2, NothingMoves DEF QueuesStay
<1> QED
  BY <1>1, <1>2, <1>3
     DEF ServerHandshakeWrapup, ServerNewSessionTicketFlush, CanStep, Context, ServerChanges,
         ServerFields, ServerIsAlone, ServerDone, ServerTickets

\* A ticket is no message of the transcript; it is sent under the server's key.
LEMMA WriteNewSessionTicketDoes ==
    ASSUME TlsInv, WriteNewSessionTicket
    PROVE  /\ s.state \in ServerTickets /\ s'.state \in ServerTickets /\ ServerIsAlone
           /\ ServerChanges({"state", "tickets", "count"})
           /\ ToServer' = ToServer
           /\ \/ ToClient' = ToClient
              \/ \E r : /\ Carries(r, "new_session_ticket") /\ r.key = s.tout
                       /\ ToClient' = Append(ToClient, r)
<1> DEFINE m == [t |-> "new_session_ticket", nonce |-> Len(s.tickets) + 1]
           r == HandshakeRecord(s, m)
<1>1. DOMAIN s = ServerFields /\ QueuesAreSeqs
  BY DEF TlsInv, ServerSide
<1>2. /\ s.state = "NEW_SESSION_TICKET" /\ failed.server = "no" /\ out.server = <<>>
      /\ UNCHANGED <<conf, c, net, app, failed>>
      /\ out' = out \/ Emit("server", r)
  BY DEF WriteNewSessionTicket, CanStep, Context
<1>3. /\ ServerChanges({"state", "tickets", "count"})
      /\ s'.state \in {"HANDSHAKE_OVER", "NEW_SESSION_TICKET_FLUSH"}
  BY <1>1 DEF WriteNewSessionTicket, ServerChanges, ServerFields
<1>4. Carries(r, "new_session_ticket") /\ r.key = s.tout
  BY DEF HandshakeRecord, Carries
<1> HIDE DEF r
<1>5. CASE out' = out
  BY <1>1, <1>2, <1>3, <1>5, NothingMoves DEF ServerIsAlone, ServerTickets
<1>6. CASE Emit("server", r)
  BY <1>1, <1>2, <1>3, <1>4, <1>6, ServerEmits DEF ServerIsAlone, ServerTickets
<1> QED
  BY <1>2, <1>5, <1>6

-----------------------------------------------------------------------------
(* What is read is the next message of the other transcript.               *)

\* Both transcripts are sequences.
LEMMA TranscriptsAre ==
    ASSUME TlsInv
    PROVE  /\ IsSeq(s.tr) /\ IsSeq(c.tr) /\ IsSeq(Heard)
           /\ Len(s.tr) \in Nat /\ Len(c.tr) \in Nat /\ Len(Heard) \in Nat
           /\ HashedAlone => Len(Heard) = 1
           /\ ~HashedAlone => Heard = c.tr
<1>1. IsSeq(s.tr) /\ IsSeq(c.tr)
  BY DEF TlsInv, ClientSide, ServerSide
<1>2. IsSeq(TranscriptForHrr(c.tr)) /\ Len(TranscriptForHrr(c.tr)) = 1
  BY SingleIs DEF TranscriptForHrr
<1>3. \A q : IsSeq(q) => Len(q) \in Nat
  BY DEF IsSeq
<1> QED
  BY <1>1, <1>2, <1>3 DEF Heard

\* The next message for the client is the server's, in its place.
LEMMA ClientReadsNext ==
    ASSUME TlsInv, FlowInv, failed.client = "no", ToClient # <<>>, IsHs(ToClient[1])
    PROVE  LET n == Len(Heard) + 1
           IN  /\ n \in 1 .. Len(s.tr) /\ ToClient[1].msg = s.tr[n]
               /\ MessageIsRight(n, ToClient[1].msg)
               /\ ToClient[1].msg.t \in Bound => ToClient[1].over = Heard
<1> DEFINE r == ToClient[1]
           n == Len(Heard) + 1
<1>1. /\ IsSeq(s.tr) /\ IsSeq(Heard) /\ Len(Heard) \in Nat /\ IsSeq(ToClient) /\ Len(s.tr) \in Nat
  BY TranscriptsAre, QueuesAre DEF TlsInv
<1>2. Stream(ToClient, Len(Heard), s.tr)
  BY DEF FlowInv, Streams
<1>3. Stands(r, s.tr, n)
  BY <1>1, <1>2, StreamIsRead
<1> HIDE DEF r
<1>4. n \in 1 .. Len(s.tr) /\ r.msg = s.tr[n]
  BY <1>3 DEF Stands
<1>5. MessageIsRight(n, r.msg)
  BY <1>4 DEF FlowInv, MessagesAreRight
<1>6. ASSUME r.msg.t \in Bound PROVE r.over = Heard
  <2>1. r.over = SubSeq(s.tr, 1, Len(Heard))
    BY <1>1, <1>3, <1>6 DEF Stands
  <2>2. Len(Heard) \in 0 .. Len(Heard) /\ Len(Heard) <= Len(s.tr)
    BY <1>1, <1>4
  <2>3. \A j \in 1 .. Len(Heard) : Heard[j] = s.tr[j]
    BY <1>1, <2>2 DEF FlowInv, TranscriptsAgree
  <2>4. SubSeq(Heard, 1, Len(Heard)) = SubSeq(s.tr, 1, Len(Heard))
    BY <1>1, <2>2, <2>3, SamePrefix
  <2> QED
    BY <1>1, <2>1, <2>4, WholePrefix
<1> QED
  BY <1>4, <1>5, <1>6 DEF r

\* The next message for the server is the client's, in its place.
LEMMA ServerReadsNext ==
    ASSUME TlsInv, FlowInv, failed.server = "no", ToServer # <<>>, IsHs(ToServer[1])
    PROVE  LET n == Len(s.tr) + 1
           IN  /\ n \in 1 .. Len(Heard) /\ ToServer[1].msg = Heard[n]
               /\ MessageIsRight(n, ToServer[1].msg)
               /\ ToServer[1].msg.t \in Bound => ToServer[1].over = s.tr
<1> DEFINE r == ToServer[1]
           n == Len(s.tr) + 1
<1>1. /\ IsSeq(s.tr) /\ IsSeq(Heard) /\ Len(Heard) \in Nat /\ IsSeq(ToServer) /\ Len(s.tr) \in Nat
  BY TranscriptsAre, QueuesAre DEF TlsInv
<1>2. Stream(ToServer, Len(s.tr), Heard)
  BY DEF FlowInv, Streams
<1>3. Stands(r, Heard, n)
  BY <1>1, <1>2, StreamIsRead
<1> HIDE DEF r
<1>4. n \in 1 .. Len(Heard) /\ r.msg = Heard[n]
  BY <1>3 DEF Stands
<1>5. MessageIsRight(n, r.msg)
  BY <1>4 DEF FlowInv, MessagesAreRight
<1>6. ASSUME r.msg.t \in Bound PROVE r.over = s.tr
  <2>1. r.over = SubSeq(Heard, 1, Len(s.tr))
    BY <1>1, <1>3, <1>6 DEF Stands
  <2>2. Len(s.tr) \in 0 .. Len(s.tr) /\ Len(s.tr) <= Len(Heard)
    BY <1>1, <1>4
  <2>3. \A j \in 1 .. Len(s.tr) : s.tr[j] = Heard[j]
    BY <1>1, <2>2 DEF FlowInv, TranscriptsAgree
  <2>4. SubSeq(s.tr, 1, Len(s.tr)) = SubSeq(Heard, 1, Len(s.tr))
    BY <1>1, <2>2, <2>3, SamePrefix
  <2> QED
    BY <1>1, <2>1, <2>4, WholePrefix
<1> QED
  BY <1>4, <1>5, <1>6 DEF r

ClientHears(tr) ==
    /\ ToClient # <<>> /\ IsHs(ToClient[1])
    /\ ToClient' = Tail(ToClient) /\ ToServer' = ToServer
    /\ c'.tr = Append(tr, ToClient[1].msg)

ServerHears ==
    /\ ToServer # <<>> /\ IsHs(ToServer[1])
    /\ ToServer' = Tail(ToServer) /\ ToClient' = ToClient
    /\ s'.tr = Append(s.tr, ToServer[1].msg)

\* The state the client is in, and the place of what it reads.
LEMMA ClientMeets ==
    ASSUME TlsInv, FlowInv, NEW t, Receives("client", t), t # "new_session_ticket"
    PROVE  LET n == Len(Heard) + 1
               m == ToClient[1].msg
           IN  /\ failed.client = "no" /\ net.client # <<>> /\ ToClient # <<>>
               /\ ToClient[1] = Head(net.client) /\ Message("client") = m
               /\ IsHs(ToClient[1]) /\ m.t = t
               /\ c.state \in DOMAIN ClientWaits /\ t \in ClientWaits[c.state]
               /\ n \in 1 .. Len(s.tr) /\ m = s.tr[n] /\ MessageIsRight(n, m)
               /\ t \in Bound => ToClient[1].over = Heard
<1>1. /\ net.client # <<>> /\ failed.client = "no" /\ ToClient # <<>>
      /\ ToClient[1] = Head(net.client) /\ Carries(Head(net.client), t)
      /\ Message("client") = Head(net.client).msg /\ Message("client").t = t
      /\ c.state \in DOMAIN ClientWaits /\ t \in ClientWaits[c.state]
  BY ClientReceives
<1>2. IsHs(ToClient[1])
  BY <1>1 DEF Carries, IsHs
<1> QED
  BY <1>1, <1>2, ClientReadsNext

\* The state the server is in, and the place of what it reads.
LEMMA ServerMeets ==
    ASSUME TlsInv, FlowInv, NEW t, Receives("server", t), t # "new_session_ticket"
    PROVE  LET n == Len(s.tr) + 1
               m == ToServer[1].msg
           IN  /\ failed.server = "no" /\ net.server # <<>> /\ ToServer # <<>>
               /\ ToServer[1] = Head(net.server) /\ Message("server") = m
               /\ IsHs(ToServer[1]) /\ m.t = t
               /\ s.state \in DOMAIN ServerWaits /\ t \in ServerWaits[s.state]
               /\ n \in 1 .. Len(Heard) /\ m = Heard[n] /\ MessageIsRight(n, m)
               /\ t \in Bound => ToServer[1].over = s.tr
<1>1. /\ net.server # <<>> /\ failed.server = "no" /\ ToServer # <<>>
      /\ ToServer[1] = Head(net.server) /\ Carries(Head(net.server), t)
      /\ Message("server") = Head(net.server).msg /\ Message("server").t = t
      /\ s.state \in DOMAIN ServerWaits /\ t \in ServerWaits[s.state]
  BY ServerReceives
<1>2. IsHs(ToServer[1])
  BY <1>1 DEF Carries, IsHs
<1> QED
  BY <1>1, <1>2, ServerReadsNext

\* A handler of the client that reads a message and goes on.
LEMMA ClientReadsDoes ==
    ASSUME TlsInv, FlowInv, NEW t, Receives("client", t), t # "new_session_ticket",
           NEW next, ClientReads(next), NEW tr, next.tr = Append(tr, Message("client"))
    PROVE  ClientHears(tr) /\ ClientIsAlone /\ c' = next
<1>1. /\ failed.client = "no" /\ net.client # <<>> /\ ToClient # <<>> /\ IsHs(ToClient[1])
      /\ Message("client") = ToClient[1].msg /\ QueuesAreSeqs
  BY ClientMeets DEF TlsInv
<1>2. Consume("client") /\ c' = next /\ UNCHANGED <<conf, s, out, app, failed>>
  BY DEF ClientReads
<1>3. ToClient' = Tail(ToClient) /\ ToServer' = ToServer
  BY <1>1, <1>2, ClientConsumes
<1> QED
  BY <1>1, <1>2, <1>3 DEF ClientHears, ClientIsAlone

\* A server that reads what it waits for hashes the message and nothing else moves.
LEMMA ServerReadsDoes ==
    ASSUME TlsInv, FlowInv, NEW t, Receives("server", t), t # "new_session_ticket",
           NEW next, ServerReads(next), next.tr = Append(s.tr, Message("server"))
    PROVE  ServerHears /\ ServerIsAlone /\ s' = next
<1>1. /\ failed.server = "no" /\ net.server # <<>> /\ ToServer # <<>> /\ IsHs(ToServer[1])
      /\ Message("server") = ToServer[1].msg /\ QueuesAreSeqs
  BY ServerMeets DEF TlsInv
<1>2. Consume("server") /\ s' = next /\ UNCHANGED <<conf, c, out, app, failed>>
  BY DEF ServerReads
<1>3. ToServer' = Tail(ToServer) /\ ToClient' = ToClient
  BY <1>1, <1>2, ServerConsumes
<1> QED
  BY <1>1, <1>2, <1>3 DEF ServerHears, ServerIsAlone


-----------------------------------------------------------------------------
(* What the operations that read do.                                       *)

\* In the flight of the server the client has its keys, and reads its messages
\* in their order.
LEMMA ClientInFlight ==
    ASSUME TlsInv, FlowInv, NEW t, Receives("client", t), c.state \in ClientKeyed
    PROVE  LET m == ToClient[1].msg
           IN  /\ Message("client") = m /\ m.t = t /\ Len(c.tr) \in Nat
               /\ Heard = c.tr /\ ~HashedAlone
               /\ Len(c.tr) + 1 <= Len(s.tr) /\ MessageIsRight(Len(c.tr) + 1, m)
               /\ t \in Bound => Head(net.client).over = c.tr
               /\ s.state \in ServerKeyed \cup ServerSecond
               /\ c.mode = s.mode /\ c.handshake_key = s.handshake_key
               /\ c.selected = IF s.mode \in PskModes THEN s.selected ELSE 0
               /\ ServerRecordIsRight(ToClient[1])
<1>1. t \in ClientWaits[c.state] /\ c.state \in DOMAIN ClientWaits
  BY ClientReceives
<1>2. t # "new_session_ticket" /\ t # "server_hello"
  BY <1>1 DEF ClientWaits, ClientKeyed
<1>3. /\ ToClient[1] = Head(net.client) /\ Message("client") = ToClient[1].msg
      /\ IsHs(ToClient[1]) /\ ToClient[1].msg.t = t /\ ToClient # <<>>
      /\ Len(Heard) + 1 \in 1 .. Len(s.tr) /\ MessageIsRight(Len(Heard) + 1, ToClient[1].msg)
      /\ t \in Bound => ToClient[1].over = Heard
  BY <1>2, ClientMeets
<1>4. ~HashedAlone /\ s.state \in ServerKeyed \cup ServerSecond
  BY DEF FlowInv, Places, ClientPlace, Turns
<1>5. Heard = c.tr /\ Len(c.tr) \in Nat /\ Len(s.tr) \in Nat
  BY <1>4, TranscriptsAre
<1>6. ServerRecordHasKey(ToClient[1])
  <2>1. IsSeq(ToClient)
    BY QueuesAre DEF TlsInv
  <2>2. 1 \in 1 .. Len(ToClient)
    BY <1>3, <2>1, TailIs
  <2> QED
    BY <2>2 DEF FlowInv, RecordsHaveKeys
<1>7. ToClient[1].key = c.tin /\ c.tin = c.handshake_key /\ ServerRecordIsRight(ToClient[1])
  BY <1>3, ClientReceives DEF TlsInv, ClientSide, ClientInFirstFlight
<1>8. ToClient[1].key = s.handshake_key
  BY <1>2, <1>3, <1>6 DEF ServerRecordHasKey, Carries
<1>9. c.mode = s.mode /\ c.selected = IF s.mode \in PskModes THEN s.selected ELSE 0
  BY DEF FlowInv, ClientParameters
<1> QED
  BY <1>3, <1>4, <1>5, <1>7, <1>8, <1>9

\* The client hears whether its early data is taken.
LEMMA ProcessEncryptedExtensionsDoes ==
    ASSUME TlsInv, EarlyInv, FlowInv, ProcessEncryptedExtensions
    PROVE  /\ c.state = "ENCRYPTED_EXTENSIONS"
           /\ c'.state = IF c.mode \in PskModes THEN "SERVER_FINISHED" ELSE "CERTIFICATE_REQUEST"
           /\ ClientIsAlone /\ ClientHears(c.tr)
           /\ ClientChanges({"state", "tr", "early"})
           /\ c'.early = IF s.early_accepted THEN "ACCEPTED"
                         ELSE IF c.early = "NO_IND_SENT" THEN c.early ELSE "REJECTED"
<1> DEFINE m == Message("client")
           early == IF m.early THEN "ACCEPTED"
                    ELSE IF c.early = "NO_IND_SENT" THEN c.early ELSE "REJECTED"
           next == [c EXCEPT !.early = early, !.tr = Append(@, m),
                             !.state = IF c.mode \in PskModes THEN "SERVER_FINISHED"
                                       ELSE "CERTIFICATE_REQUEST"]
<1>1. DOMAIN c = ClientFields /\ Receives("client", "encrypted_extensions")
  BY DEF TlsInv, ClientSide, ProcessEncryptedExtensions
<1>2. c.state = "ENCRYPTED_EXTENSIONS"
  BY <1>1, ClientReceives DEF ClientWaits
<1>3. /\ m = ToClient[1].msg /\ MessageIsRight(Len(c.tr) + 1, m) /\ c.mode = s.mode
      /\ Len(c.tr) \in Nat /\ c.selected = IF s.mode \in PskModes THEN s.selected ELSE 0
  BY <1>1, <1>2, ClientInFlight DEF ClientKeyed
<1>4. Len(c.tr) = HelloPlace + 1 /\ HelloPlace \in Nat
  BY <1>2 DEF FlowInv, Places, ClientPlace, HelloPlace
<1>5. m.early <=> s.early_accepted
  BY <1>3, <1>4 DEF MessageIsRight
<1>6. m.early => c.mode \in PskModes /\ c.selected = 1
  <2>1. s.early_accepted => s.mode \in PskModes /\ s.selected = 1
    BY DEF FlowInv, ServerParameters, EarlyInv, AcceptanceIsRight
  <2> QED
    BY <1>3, <1>5, <2>1
<1>7. ClientReads(next)
  BY <1>6 DEF ProcessEncryptedExtensions
<1>8. /\ next.tr = Append(c.tr, m) /\ DOMAIN next = ClientFields /\ next.early = early
      /\ next.state = IF c.mode \in PskModes THEN "SERVER_FINISHED" ELSE "CERTIFICATE_REQUEST"
      /\ \A f \in ClientFields \ {"state", "tr", "early"} : next[f] = c[f]
  BY <1>1 DEF ClientFields
<1> HIDE DEF next
<1>9. ClientHears(c.tr) /\ ClientIsAlone /\ c' = next
  BY <1>1, <1>7, <1>8, ClientReadsDoes
<1> QED
  BY <1>2, <1>5, <1>8, <1>9 DEF ClientChanges

\* The client hears a request for its certificate if the server sent one; if not it
\* passes on, and what the server sent instead is still to come.
LEMMA ProcessCertificateRequestDoes ==
    ASSUME TlsInv, FlowInv, ProcessCertificateRequest
    PROVE  /\ c.state = "CERTIFICATE_REQUEST" /\ c'.state = "SERVER_CERTIFICATE"
           /\ ClientIsAlone
           /\ \/ /\ s.certificate_request_sent /\ c'.client_auth = TRUE
                 /\ ClientHears(c.tr) /\ ClientChanges({"state", "tr", "client_auth"})
              \/ /\ ~s.certificate_request_sent /\ c'.client_auth = FALSE
                 /\ QueuesStay /\ ClientChanges({"state", "client_auth"})
                 /\ Len(c.tr) < Len(s.tr)
<1> DEFINE m == Message("client")
           next == [c EXCEPT !.client_auth = TRUE, !.tr = Append(@, m),
                             !.state = "SERVER_CERTIFICATE"]
<1>1. /\ DOMAIN c = ClientFields /\ c.state = "CERTIFICATE_REQUEST" /\ c.state \in ClientKeyed
      /\ QueuesAreSeqs
  BY DEF TlsInv, ClientSide, ProcessCertificateRequest, ClientKeyed
<1>2. /\ Len(c.tr) = HelloPlace + 2 /\ HelloPlace \in Nat /\ s.mode \notin PskModes
      /\ s.certificate_request_sent \in BOOLEAN
  BY <1>1 DEF FlowInv, Places, ClientPlace, HelloPlace, ValuesAreKnown
<1>3. \A t : Receives("client", t) =>
          /\ s.certificate_request_sent => t = "certificate_request"
          /\ ~s.certificate_request_sent => t = "certificate"
          /\ Len(c.tr) < Len(s.tr)
  <2> SUFFICES ASSUME NEW t, Receives("client", t)
               PROVE  /\ s.certificate_request_sent => t = "certificate_request"
                      /\ ~s.certificate_request_sent => t = "certificate"
                      /\ Len(c.tr) < Len(s.tr)
    OBVIOUS
  <2>1. /\ ToClient[1].msg.t = t /\ MessageIsRight(Len(c.tr) + 1, ToClient[1].msg)
        /\ Len(c.tr) + 1 <= Len(s.tr) /\ Len(c.tr) \in Nat
    BY <1>1, ClientInFlight
  <2>2. Len(s.tr) \in Nat
    BY TranscriptsAre
  <2> QED
    BY <1>2, <2>1, <2>2 DEF MessageIsRight, Asked
<1>4. CASE Receives("client", "certificate_request") /\ ClientReads(next)
  <2>1. /\ next.tr = Append(c.tr, m) /\ DOMAIN next = ClientFields /\ next.client_auth = TRUE
        /\ next.state = "SERVER_CERTIFICATE"
        /\ \A f \in ClientFields \ {"state", "tr", "client_auth"} : next[f] = c[f]
    BY <1>1 DEF ClientFields
  <2> HIDE DEF next
  <2>2. ClientHears(c.tr) /\ ClientIsAlone /\ c' = next
    BY <1>4, <2>1, ClientReadsDoes
  <2> QED
    BY <1>1, <1>2, <1>3, <1>4, <2>1, <2>2 DEF ClientChanges
<1>5. CASE /\ Receives("client", "certificate")
           /\ c' = [c EXCEPT !.client_auth = FALSE, !.state = "SERVER_CERTIFICATE"]
           /\ UNCHANGED <<conf, s, out, net, app, failed>>
  <2>1. ClientChanges({"state", "client_auth"}) /\ c'.client_auth = FALSE /\ c'.state = "SERVER_CERTIFICATE"
    BY <1>1, <1>5 DEF ClientChanges, ClientFields
  <2>2. QueuesStay /\ failed.client = "no"
    BY <1>1, <1>5, NothingMoves, ClientReceives DEF QueuesStay
  <2> QED
    BY <1>1, <1>2, <1>3, <1>5, <2>1, <2>2 DEF ClientIsAlone
<1> QED
  BY <1>4, <1>5 DEF ProcessCertificateRequest

\* The client hears the server's certificate, or refuses one that its
\* configuration does not accept.
LEMMA ProcessServerCertificateDoes ==
    ASSUME TlsInv, FlowInv, ProcessServerCertificate
    PROVE  \/ /\ c.state = "SERVER_CERTIFICATE" /\ c'.state = "CERTIFICATE_VERIFY"
              /\ ClientIsAlone /\ ClientHears(c.tr)
              /\ ClientChanges({"state", "tr", "peer_cert"})
           \/ /\ Refuses("client", "peer certificate")
              /\ ~Satisfies(conf.s_cert, conf.c_authmode)
<1> DEFINE m == Message("client")
           next == [c EXCEPT !.peer_cert = m.cert, !.tr = Append(@, m), !.state = "CERTIFICATE_VERIFY"]
<1>1. /\ DOMAIN c = ClientFields /\ c.state = "SERVER_CERTIFICATE" /\ c.state \in ClientKeyed
      /\ Receives("client", "certificate")
  BY DEF TlsInv, ClientSide, ProcessServerCertificate, ClientKeyed
<1>2. /\ Len(c.tr) = HelloPlace + 2 + Asked /\ HelloPlace \in Nat /\ s.mode \notin PskModes
      /\ Asked \in Nat
  BY <1>1 DEF FlowInv, Places, ClientPlace, HelloPlace, Asked
<1>3. /\ m = ToClient[1].msg /\ m.t = "certificate" /\ MessageIsRight(Len(c.tr) + 1, m)
      /\ ServerRecordIsRight(ToClient[1]) /\ Carries(ToClient[1], "certificate")
  BY <1>1, ClientInFlight, ClientReceives
<1>4. m.cert # "none" /\ m.cert = conf.s_cert
  BY <1>2, <1>3 DEF MessageIsRight, ServerRecordIsRight
<1>5. CASE Accepts(conf.c_authmode, m.cert)
  <2>1. ClientReads(next)
    BY <1>4, <1>5 DEF ProcessServerCertificate
  <2>2. /\ next.tr = Append(c.tr, m) /\ DOMAIN next = ClientFields
        /\ next.state = "CERTIFICATE_VERIFY"
        /\ \A f \in ClientFields \ {"state", "tr", "peer_cert"} : next[f] = c[f]
    BY <1>1 DEF ClientFields
  <2> HIDE DEF next
  <2>3. ClientHears(c.tr) /\ ClientIsAlone /\ c' = next
    BY <1>1, <2>1, <2>2, ClientReadsDoes
  <2> QED
    BY <1>1, <2>2, <2>3 DEF ClientChanges
<1>6. CASE ~Accepts(conf.c_authmode, m.cert)
  BY <1>4, <1>6 DEF ProcessServerCertificate, Accepts, Satisfies
<1> QED
  BY <1>5, <1>6

\* The client hears the server's signature: it is right.
LEMMA ProcessServerCertificateVerifyDoes ==
    ASSUME TlsInv, FlowInv, ProcessServerCertificateVerify
    PROVE  /\ c.state = "CERTIFICATE_VERIFY" /\ c'.state = "SERVER_FINISHED"
           /\ ClientIsAlone /\ ClientHears(c.tr)
           /\ ClientChanges({"state", "tr"})
<1> DEFINE m == Message("client")
           next == [c EXCEPT !.tr = Append(@, m), !.state = "SERVER_FINISHED"]
<1>1. DOMAIN c = ClientFields /\ Receives("client", "certificate_verify")
  BY DEF TlsInv, ClientSide, ProcessServerCertificateVerify
<1>2. c.state = "CERTIFICATE_VERIFY"
  BY <1>1, ClientReceives DEF ClientWaits
<1>3. Head(net.client).over = c.tr
  BY <1>1, <1>2, ClientInFlight DEF ClientKeyed, Bound
<1>4. ClientReads(next)
  BY <1>3 DEF ProcessServerCertificateVerify
<1>5. /\ next.tr = Append(c.tr, m) /\ DOMAIN next = ClientFields
      /\ next.state = "SERVER_FINISHED"
      /\ \A f \in ClientFields \ {"state", "tr"} : next[f] = c[f]
  BY <1>1 DEF ClientFields
<1> HIDE DEF next
<1>6. ClientHears(c.tr) /\ ClientIsAlone /\ c' = next
  BY <1>1, <1>4, <1>5, ClientReadsDoes
<1> QED
  BY <1>2, <1>5, <1>6 DEF ClientChanges

\* The client hears the server's Finished message: it is right.
LEMMA ProcessServerFinishedDoes ==
    ASSUME TlsInv, FlowInv, ProcessServerFinished
    PROVE  /\ c.state = "SERVER_FINISHED" /\ ClientIsAlone /\ ClientHears(c.tr)
           /\ ClientChanges({"state", "tr", "early", "application_key"})
           /\ IF c.early = "ACCEPTED"
              THEN c'.state = "END_OF_EARLY_DATA" /\ c'.early = "SERVER_FINISHED_RECEIVED"
              ELSE /\ c'.state \in {"CLIENT_CCS_AFTER_SERVER_FINISHED", "CLIENT_CERTIFICATE"}
                   /\ c'.early = c.early
                   /\ c'.state = "CLIENT_CCS_AFTER_SERVER_FINISHED" => conf.compat
<1> DEFINE m == Message("client")
           tr == Append(c.tr, m)
           keyed == [c EXCEPT !.tr = tr, !.application_key = Key("application", c.psk, c.share, tr)]
           next == IF c.early = "ACCEPTED"
                   THEN [keyed EXCEPT !.early = "SERVER_FINISHED_RECEIVED", !.state = "END_OF_EARLY_DATA"]
                   ELSE [keyed EXCEPT !.state = IF conf.compat THEN "CLIENT_CCS_AFTER_SERVER_FINISHED"
                                                ELSE "CLIENT_CERTIFICATE"]
<1>1. DOMAIN c = ClientFields /\ Receives("client", "finished")
  BY DEF TlsInv, ClientSide, ProcessServerFinished
<1>2. c.state = "SERVER_FINISHED"
  BY <1>1, ClientReceives DEF ClientWaits
<1>3. Head(net.client).over = c.tr
  BY <1>1, <1>2, ClientInFlight DEF ClientKeyed, Bound
<1>4. ClientReads(next)
  BY <1>3 DEF ProcessServerFinished
<1>5. /\ next.tr = Append(c.tr, m) /\ DOMAIN next = ClientFields
      /\ IF c.early = "ACCEPTED"
         THEN next.state = "END_OF_EARLY_DATA" /\ next.early = "SERVER_FINISHED_RECEIVED"
         ELSE /\ next.state \in {"CLIENT_CCS_AFTER_SERVER_FINISHED", "CLIENT_CERTIFICATE"}
              /\ next.early = c.early
              /\ next.state = "CLIENT_CCS_AFTER_SERVER_FINISHED" => conf.compat
      /\ \A f \in ClientFields \ {"state", "tr", "early", "application_key"} : next[f] = c[f]
  <2> HIDE DEF tr
  <2>1. /\ keyed.tr = tr /\ DOMAIN keyed = ClientFields
        /\ \A f \in ClientFields \ {"tr", "application_key"} : keyed[f] = c[f]
    BY <1>1 DEF ClientFields
  <2> HIDE DEF keyed
  <2> QED
    BY <2>1 DEF ClientFields, tr
<1> HIDE DEF next
<1>6. ClientHears(c.tr) /\ ClientIsAlone /\ c' = next
  BY <1>1, <1>4, <1>5, ClientReadsDoes
<1> QED
  BY <1>2, <1>5, <1>6 DEF ClientChanges

\* The client takes a ticket; no transcript changes.
LEMMA ProcessNewSessionTicketDoes ==
    ASSUME TlsInv, ProcessNewSessionTicket
    PROVE  /\ c.state = "HANDSHAKE_OVER" /\ ClientIsAlone
           /\ ToClient # <<>> /\ ~IsHs(ToClient[1])
           /\ ToClient' = Tail(ToClient) /\ ToServer' = ToServer
           /\ ClientChanges({"tickets"})
<1>1. /\ DOMAIN c = ClientFields /\ Receives("client", "new_session_ticket") /\ QueuesAreSeqs
  BY DEF TlsInv, ClientSide, ProcessNewSessionTicket
<1>2. /\ c.state = "HANDSHAKE_OVER" /\ failed.client = "no" /\ net.client # <<>>
      /\ ToClient # <<>> /\ ~IsHs(ToClient[1])
  BY <1>1, ClientReceives DEF ClientWaits, IsHs, Carries
<1>3. Consume("client") /\ UNCHANGED <<conf, s, out, app, failed>>
  BY DEF ProcessNewSessionTicket, ClientReads
<1>4. ToClient' = Tail(ToClient) /\ ToServer' = ToServer
  BY <1>1, <1>2, <1>3, ClientConsumes
<1>5. ClientChanges({"tickets"})
  BY <1>1 DEF ProcessNewSessionTicket, ClientReads, ClientChanges, ClientFields
<1> QED
  BY <1>2, <1>3, <1>4, <1>5 DEF ClientIsAlone

\* A server that wrote its ServerHello has its keys.
LEMMA ServerHasAnswered ==
    ASSUME TlsInv, EarlyInv, FlowInv, HelloPlace < Len(s.tr)
    PROVE  s.state \in ServerKeyed \cup ServerSecond
<1>1. /\ s.state \in ServerBegins \cup {"SERVER_HELLO"} \cup ServerKeyed \cup ServerSecond
      /\ ServerPlace /\ Len(s.tr) \in Nat /\ HelloPlace \in Nat
  BY TranscriptsAre DEF EarlyInv, AcceptanceIsRight, FlowInv, Places, HelloPlace
<1>2. s.state \in ServerBegins \cup {"SERVER_HELLO"} => Len(s.tr) <= HelloPlace
  BY <1>1 DEF ServerBegins, ServerPlace
<1> QED
  BY <1>1, <1>2

\* The client hears a HelloRetryRequest, replaces its first ClientHello by the hash
\* and gives its early data up.
LEMMA ProcessHelloRetryRequestDoes ==
    ASSUME TlsInv, FlowInv, ProcessHelloRetryRequest
    PROVE  LET m == ToClient[1].msg
           IN  /\ c.state = "SERVER_HELLO" /\ HashedAlone /\ Len(c.tr) = 1
               /\ c'.state \in {"CLIENT_CCS_BEFORE_2ND_CLIENT_HELLO", "CLIENT_HELLO"}
               /\ ClientIsAlone /\ ClientHears(TranscriptForHrr(c.tr))
               /\ ClientChanges({"state", "tr", "hrr", "share", "tin", "tout", "early"})
               /\ c'.hrr = TRUE /\ c'.share = m.share /\ c'.tin = NoKey /\ c'.tout = NoKey
               /\ c'.early = IF c.early = "NO_IND_SENT" THEN c.early ELSE "REJECTED"
<1> DEFINE m == Message("client")
           early == IF c.early = "NO_IND_SENT" THEN c.early ELSE "REJECTED"
           st == IF conf.compat THEN "CLIENT_CCS_BEFORE_2ND_CLIENT_HELLO" ELSE "CLIENT_HELLO"
           tr == TranscriptForHrr(c.tr)
           next == [c EXCEPT !.hrr = TRUE, !.share = m.share, !.tin = NoKey, !.tout = NoKey,
                             !.early = early, !.tr = Append(tr, m), !.state = st]
<1>1. /\ DOMAIN c = ClientFields /\ Receives("client", "server_hello") /\ c.state = "SERVER_HELLO"
      /\ m.hrr
  BY DEF TlsInv, ClientSide, ProcessHelloRetryRequest
<1>2. /\ m = ToClient[1].msg /\ MessageIsRight(Len(Heard) + 1, m) /\ Len(Heard) + 1 <= Len(s.tr)
  BY <1>1, ClientMeets
<1>3. /\ IF c.hrr THEN Len(c.tr) = 3 ELSE Len(c.tr) = 1
      /\ c.hrr => s.hrr
      /\ HashedAlone => Len(Heard) = 1
      /\ ~HashedAlone => Heard = c.tr
      /\ c.hrr \in BOOLEAN /\ s.hrr \in BOOLEAN
  BY <1>1, TranscriptsAre DEF FlowInv, Places, ClientPlace, ValuesAreKnown
<1>4. ~c.hrr /\ s.hrr
  <2>1. Len(Heard) + 1 # HelloPlace + 1
    BY <1>1, <1>2, <1>3 DEF MessageIsRight
  <2> QED
    BY <1>3, <2>1 DEF HelloPlace, HashedAlone
<1>5. HashedAlone /\ Len(c.tr) = 1 /\ RetryIsRight(m)
  <2>1. HashedAlone
    BY <1>4 DEF HashedAlone
  <2>2. Len(c.tr) = 1 /\ Len(Heard) + 1 = 2
    <3>1. HashedAlone => Len(Heard) = 1
      BY TranscriptsAre
    <3>2. Len(Heard) = 1
      BY <2>1, <3>1
    <3> QED
      BY <1>3, <1>4, <3>2
  <2>3. MessageIsRight(2, m)
    BY <1>2, <2>2
  <2> QED
    BY <1>4, <2>1, <2>2, <2>3 DEF MessageIsRight
<1>6. c.share = Head(conf.c_groups)
  BY <1>1, <1>4, <1>5 DEF FlowInv, ClientParameters, RetryIsRight
<1>7. ClientReads(next)
  BY <1>4, <1>5, <1>6 DEF ProcessHelloRetryRequest, RetryIsRight, Ephemeral
<1> HIDE DEF early, st, tr, m
<1>8. /\ next.tr = Append(tr, m) /\ DOMAIN next = ClientFields /\ next.early = early
      /\ next.hrr = TRUE /\ next.share = m.share /\ next.tin = NoKey /\ next.tout = NoKey
      /\ next.state = st
      /\ \A f \in ClientFields \ {"state", "tr", "hrr", "share", "tin", "tout", "early"} :
             next[f] = c[f]
  BY <1>1 DEF ClientFields
<1> HIDE DEF next
<1>9. ClientHears(tr) /\ ClientIsAlone /\ c' = next
  BY <1>1, <1>7, <1>8, ClientReadsDoes DEF m
<1>10. st \in {"CLIENT_CCS_BEFORE_2ND_CLIENT_HELLO", "CLIENT_HELLO"}
  BY DEF st
<1> QED
  BY <1>1, <1>2, <1>5, <1>8, <1>9, <1>10 DEF ClientChanges, tr, early

\* The ServerHello tells the client the mode, the PSK and the share the server
\* selected, and with them its keys.
LEMMA ServerHelloSays ==
    ASSUME TlsInv, EarlyInv, FlowInv, Receives("client", "server_hello"),
           c.state = "SERVER_HELLO", ~Message("client").hrr
    PROVE  LET m == ToClient[1].msg
           IN  /\ Message("client") = m /\ Heard = c.tr /\ ~HashedAlone
               /\ Len(c.tr) = HelloPlace /\ c.hrr = s.hrr
               /\ s.state \in ServerKeyed \cup ServerSecond
               /\ m.share = s.share /\ m.psk = (IF s.mode \in PskModes THEN s.selected ELSE 0)
               /\ ModeOf(m) = s.mode
               /\ s.mode \in conf.c_modes /\ m.share \in {"none", c.share}
               /\ s.mode \in PskModes => s.selected \in {1, 2} /\ s.selected <= Len(ClientPsks)
               /\ Append(c.tr, m) = s.handshake_key.tr
<1> DEFINE m == Message("client")
           h == HelloPlace
<1>1. /\ m = ToClient[1].msg /\ MessageIsRight(Len(Heard) + 1, m) /\ Len(Heard) + 1 <= Len(s.tr)
      /\ m = s.tr[Len(Heard) + 1]
  BY ClientMeets
<1>2. /\ IF c.hrr THEN Len(c.tr) = 3 ELSE Len(c.tr) = 1
      /\ c.hrr => s.hrr
      /\ HashedAlone => Len(Heard) = 1
      /\ ~HashedAlone => Heard = c.tr
      /\ c.hrr \in BOOLEAN /\ s.hrr \in BOOLEAN
      /\ IsSeq(c.tr) /\ IsSeq(s.tr) /\ Len(s.tr) \in Nat
  BY TranscriptsAre DEF FlowInv, Places, ClientPlace, ValuesAreKnown
<1>3. ~HashedAlone
  <2>1. ASSUME HashedAlone PROVE RetryIsRight(m)
    <3>1. Len(Heard) + 1 = 2
      <4>1. HashedAlone => Len(Heard) = 1
        BY TranscriptsAre
      <4>2. Len(Heard) = 1
        BY <2>1, <4>1
      <4> QED
        BY <4>2
    <3>2. MessageIsRight(2, m)
      BY <1>1, <3>1
    <3>3. s.hrr
      BY <2>1 DEF HashedAlone
    <3> QED
      BY <3>2, <3>3 DEF MessageIsRight
  <2> QED
    BY <2>1 DEF RetryIsRight
<1>4. Heard = c.tr /\ Len(c.tr) = h /\ c.hrr = s.hrr /\ h \in {1, 3}
  BY <1>2, <1>3 DEF HashedAlone, HelloPlace
<1>5. m.share = s.share /\ m.psk = IF s.mode \in PskModes THEN s.selected ELSE 0
  BY <1>1, <1>4 DEF MessageIsRight
<1>6. s.state \in ServerKeyed \cup ServerSecond
  BY <1>1, <1>2, <1>4, ServerHasAnswered
<1>7. /\ s.mode \in conf.c_modes /\ s.share \in {"none", s.tr[h].share}
      /\ s.mode \in PskModes => s.selected \in DOMAIN ClientPsks
      /\ s.handshake_key.tr = SubSeq(s.tr, 1, h + 1)
  BY <1>6 DEF FlowInv, ServerParameters
<1>8. c.share = s.tr[h].share
  <2>1. c.tr[h] = s.tr[h]
    BY <1>1, <1>2, <1>4 DEF FlowInv, TranscriptsAgree
  <2> QED
    BY <1>4, <2>1 DEF FlowInv, ClientParameters
<1>9. s.mode \in PskModes => s.selected \in {1, 2} /\ s.selected <= Len(ClientPsks)
  <2>1. DOMAIN ClientPsks = 1 .. Len(ClientPsks)
    BY ClientPsksAreSeq
  <2> QED
    BY <1>7, <2>1, ClientPsksAre
<1>10. ModeOf(m) = s.mode
  <2>1. ServerHasParameters
    BY <1>6 DEF TlsInv, ServerSide
  <2> QED
    BY <1>5, <1>9, <2>1 DEF ServerHasParameters, ModeOf, PskModes
<1>11. Append(c.tr, m) = SubSeq(s.tr, 1, h + 1)
  <2> DEFINE u == Append(c.tr, m)
  <2>1. /\ IsSeq(u) /\ Len(u) = h + 1 /\ u[h + 1] = m /\ \A i \in 1 .. h : u[i] = c.tr[i]
    BY <1>2, <1>4, AppendIs
  <2>2. h + 1 \in 0 .. Len(s.tr) /\ h + 1 \in 0 .. Len(u) /\ h + 1 <= Len(s.tr)
    BY <1>1, <1>2, <1>4, <2>1
  <2>3. \A i \in 1 .. h : c.tr[i] = s.tr[i]
    BY <1>2, <1>4, <2>2 DEF FlowInv, TranscriptsAgree
  <2>4. \A i \in 1 .. h + 1 : u[i] = s.tr[i]
    BY <1>1, <1>4, <2>1, <2>3
  <2> HIDE DEF u
  <2>5. SubSeq(u, 1, h + 1) = SubSeq(s.tr, 1, h + 1)
    BY <1>2, <2>1, <2>2, <2>4, SamePrefix
  <2>6. SubSeq(u, 1, h + 1) = u
    BY <2>1, WholePrefix
  <2> QED
    BY <2>5, <2>6 DEF u
<1> HIDE DEF m, h
<1> QED
  BY <1>1, <1>3, <1>4, <1>5, <1>6, <1>7, <1>8, <1>9, <1>10, <1>11 DEF h, m

\* The client hears the ServerHello and selects what the server selected; only a
\* second PSK after early data, the known defect, gives it another key.
LEMMA ProcessServerHelloDoes ==
    ASSUME TlsInv, EarlyInv, FlowInv, ProcessServerHello
    PROVE  /\ c.state = "SERVER_HELLO" /\ c'.state = "ENCRYPTED_EXTENSIONS"
           /\ ClientIsAlone /\ ClientHears(c.tr) /\ ~HashedAlone /\ Len(c.tr) = HelloPlace
           /\ c.hrr = s.hrr /\ s.state \in ServerKeyed \cup ServerSecond
           /\ ClientChanges({"state", "tr", "mode", "selected", "psk", "share", "handshake_key", "tin"})
           /\ c'.mode = s.mode /\ c'.selected = IF s.mode \in PskModes THEN s.selected ELSE 0
           /\ c'.handshake_key = s.handshake_key \/ SecondPskAfterEarlyData
<1> DEFINE m == Message("client")
           tr == Append(c.tr, m)
           psk == ClientEarlySecret(m)
           key == Key("handshake", psk, m.share, tr)
           next == [c EXCEPT !.mode = ModeOf(m), !.selected = m.psk, !.psk = psk,
                             !.share = m.share, !.tr = tr, !.handshake_key = key,
                             !.tin = key, !.state = "ENCRYPTED_EXTENSIONS"]
<1>1. /\ DOMAIN c = ClientFields /\ Receives("client", "server_hello") /\ c.state = "SERVER_HELLO"
      /\ ~m.hrr
  BY DEF TlsInv, ClientSide, ProcessServerHello
<1>2. /\ m = ToClient[1].msg /\ Heard = c.tr /\ ~HashedAlone
      /\ Len(c.tr) = HelloPlace /\ c.hrr = s.hrr
      /\ s.state \in ServerKeyed \cup ServerSecond
      /\ m.share = s.share /\ m.psk = (IF s.mode \in PskModes THEN s.selected ELSE 0)
      /\ ModeOf(m) = s.mode
      /\ s.mode \in conf.c_modes /\ m.share \in {"none", c.share}
      /\ s.mode \in PskModes => s.selected \in {1, 2} /\ s.selected <= Len(ClientPsks)
      /\ tr = s.handshake_key.tr
  BY <1>1, ServerHelloSays
<1>3. ~(m.psk > Len(ClientPsks))
  <2>1. Len(ClientPsks) \in Nat
    BY ClientPsksAreSeq
  <2> QED
    BY <1>2, <2>1
<1>4. ClientReads(next)
  BY <1>2, <1>3 DEF ProcessServerHello
<1>5. key = s.handshake_key \/ SecondPskAfterEarlyData
  <2>1. /\ s.handshake_key = Key("handshake", s.psk, s.share, s.handshake_key.tr)
        /\ ServerHasParameters
    BY <1>2 DEF TlsInv, ServerSide, KeysAreOfHello
  <2>2. psk = s.psk \/ SecondPskAfterEarlyData
    <3>1. /\ s.mode \in PskModes => s.psk = ClientPsks[s.selected]
          /\ s.mode \notin PskModes => s.psk = "zero"
      BY <1>2 DEF FlowInv, ServerParameters
    <3>2. CASE c.early = "NO_IND_SENT" \/ s.mode = "ephemeral"
      <4>1. psk = IF m.psk = 0 THEN "zero" ELSE ClientPsks[m.psk]
        BY <1>2, <3>2 DEF ClientEarlySecret
      <4> QED
        BY <1>2, <3>1, <4>1
    <3>3. CASE ~(c.early = "NO_IND_SENT" \/ s.mode = "ephemeral")
      <4>1. psk = c.psk /\ s.mode \in PskModes
        BY <1>2, <2>1, <3>3 DEF ClientEarlySecret, ServerHasParameters
      <4>2. OffersEarlyData /\ c.psk = "ticket"
        BY <1>1, <3>3 DEF FlowInv, ClientParameters, HelloSent, ClientBegins
      <4>3. s.selected = 1 => s.psk = "ticket"
        BY <3>1, <4>1, <4>2, TicketComesFirst
      <4> QED
        BY <1>2, <4>1, <4>2, <4>3 DEF SecondPskAfterEarlyData
    <3> QED
      BY <3>2, <3>3
  <2> HIDE DEF psk, tr, m
  <2> QED
    BY <1>2, <2>1, <2>2
<1> HIDE DEF psk, key, tr
<1>6. /\ next.tr = tr /\ DOMAIN next = ClientFields /\ next.mode = ModeOf(m)
      /\ next.selected = m.psk /\ next.handshake_key = key /\ next.state = "ENCRYPTED_EXTENSIONS"
      /\ \A f \in ClientFields \ {"state", "tr", "mode", "selected", "psk", "share",
                                  "handshake_key", "tin"} : next[f] = c[f]
  BY <1>1 DEF ClientFields
<1> HIDE DEF next
<1>7. ClientHears(c.tr) /\ ClientIsAlone /\ c' = next
  BY <1>1, <1>4, <1>6, ClientReadsDoes DEF tr
<1> HIDE DEF m
<1> QED
  BY <1>1, <1>2, <1>5, <1>6, <1>7 DEF ClientChanges

\* What the server makes of a ClientHello in its place.
LEMMA ServerHelloReads ==
    ASSUME TlsInv, EarlyInv, FlowInv, Receives("server", "client_hello")
    PROVE  LET m == ToServer[1].msg
           IN  /\ Message("server") = m /\ s.state = "CLIENT_HELLO"
               /\ Len(s.tr) = HelloPlace - 1 /\ HelloIsRight(m)
               /\ Head(net.server).over = s.tr
               /\ m.psks = ClientPsks /\ ~(s.hrr /\ m.early)
<1> DEFINE m == Message("server")
<1>1. /\ m = ToServer[1].msg /\ MessageIsRight(Len(s.tr) + 1, m)
      /\ ToServer[1] = Head(net.server)
      /\ ToServer[1].over = s.tr
      /\ s.state \in DOMAIN ServerWaits /\ "client_hello" \in ServerWaits[s.state]
  BY ServerMeets DEF Bound
<1>2. s.state = "CLIENT_HELLO"
  BY <1>1 DEF ServerWaits
<1>3. Len(s.tr) = HelloPlace - 1 /\ HelloPlace \in {1, 3}
  BY <1>2 DEF FlowInv, Places, ServerPlace, HelloPlace
<1>4. HelloIsRight(m)
  <2>1. Len(s.tr) + 1 = HelloPlace
    BY <1>3
  <2>2. MessageIsRight(HelloPlace, m)
    BY <1>1, <2>1
  <2> QED
    BY <2>2 DEF MessageIsRight
<1> HIDE DEF m
<1> QED
  BY <1>1, <1>2, <1>3, <1>4 DEF HelloIsRight, m

\* A mode the server selects is one the client offers.
LEMMA SelectedModeIsOffered ==
    ASSUME NEW m, HelloIsRight(m), SelectedMode(m) # "none"
    PROVE  SelectedMode(m) \in conf.c_modes
<1> DEFINE psk == SelectedPsk(m)
           mode == IF psk = 0 THEN "none" ELSE PskModeFor(m.psks[psk], m)
<1>1. m.psk_modes = conf.c_modes \cap PskModes /\ (m.sig_alg <=> "ephemeral" \in conf.c_modes)
  BY DEF HelloIsRight
<1>2. mode = "none" \/ mode \in m.psk_modes
  BY DEF PskModeFor
<1>3. SelectedMode(m) = IF mode = "psk_ephemeral" THEN "psk_ephemeral"
                        ELSE IF EphemeralAvailable(m) THEN "ephemeral" ELSE mode
  BY DEF SelectedMode
<1> HIDE DEF psk, mode
<1> QED
  BY <1>1, <1>2, <1>3 DEF EphemeralAvailable

\* A mode of PSKs that both sides enable can be used with any PSK.
LEMMA ModesAreUsable ==
    ASSUME NEW m, HelloIsRight(m)
    PROVE  \A psk : PskModeFor(psk, m) = "none" => conf.c_modes \cap conf.s_modes \cap PskModes = {}
<1> SUFFICES ASSUME NEW psk, PskModeFor(psk, m) = "none",
                    NEW x \in conf.c_modes \cap conf.s_modes \cap PskModes
             PROVE  FALSE
  OBVIOUS
<1> DEFINE allowed == IF psk = "ticket" THEN TicketModes ELSE PskModes
           usable == allowed \cap conf.s_modes \cap m.psk_modes
<1>1. x \in usable /\ x \in {"psk", "psk_ephemeral"}
  BY DEF TicketModes, PskModes, HelloIsRight
<1>2. x = "psk_ephemeral" => m.share # "none"
  BY DEF HelloIsRight, Ephemeral, EphemeralModes
<1>3. PskModeFor(psk, m) = IF "psk_ephemeral" \in usable /\ m.share # "none" THEN "psk_ephemeral"
                           ELSE IF "psk" \in usable THEN "psk" ELSE "none"
  BY DEF PskModeFor
<1> HIDE DEF usable, allowed
<1> QED
  BY <1>1, <1>2, <1>3

\* The ticket of a client that offers early data is selected if it can be used.
LEMMA TicketIsSelected ==
    ASSUME NEW m, HelloIsRight(m), m.early, 1 \in SharedPsks
    PROVE  SelectedPsk(m) = 1 /\ m.psks[1] = "ticket"
<1>1. m.psks = ClientPsks /\ m.psks[1] = "ticket" /\ 1 \in DOMAIN m.psks
  BY TicketComesFirst DEF HelloIsRight
<1>2. ServerKnows(m.psks[1]) /\ PskModeFor(m.psks[1], m) # "none"
  BY <1>1, ModesAreUsable DEF SharedPsks
<1> DEFINE fits == {i \in DOMAIN m.psks : ServerKnows(m.psks[i]) /\ PskModeFor(m.psks[i], m) # "none"}
<1>3. fits \subseteq {1, 2} /\ 1 \in fits
  BY <1>1, <1>2, ClientPsksAre
<1>4. SelectedPsk(m) = CHOOSE i \in fits : \A j \in fits : i <= j
  BY <1>3 DEF SelectedPsk
<1> HIDE DEF fits
<1>5. \A i \in fits : (\A j \in fits : i <= j) <=> i = 1
  BY <1>3
<1> QED
  BY <1>1, <1>3, <1>4, <1>5

\* A server that selects no mode has none in common with the client.
LEMMA NothingIsSelected ==
    ASSUME NEW m, HelloIsRight(m), SelectedMode(m) = "none"
    PROVE  "ephemeral" \notin conf.c_modes \cap conf.s_modes /\ SharedPsks = {}
<1>1. /\ m.psk_modes = conf.c_modes \cap PskModes /\ (m.sig_alg <=> "ephemeral" \in conf.c_modes)
      /\ (m.share = "none" <=> ~Ephemeral) /\ m.psks = ClientPsks
  BY DEF HelloIsRight
<1>2. "ephemeral" \in conf.c_modes \/ "psk_ephemeral" \in conf.c_modes => m.share # "none"
  BY <1>1 DEF Ephemeral, EphemeralModes
<1>3. ~EphemeralAvailable(m)
  BY DEF SelectedMode
<1>4. "ephemeral" \notin conf.c_modes \cap conf.s_modes
  BY <1>1, <1>2, <1>3 DEF EphemeralAvailable
<1>5. SelectedPsk(m) = 0
  <2> SUFFICES ASSUME SelectedPsk(m) # 0 PROVE FALSE
    OBVIOUS
  <2>1. PskModeFor(ClientPsks[SelectedPsk(m)], m) # "none"
    BY <1>1, SelectedPskFits
  <2>2. SelectedMode(m) = PskModeFor(ClientPsks[SelectedPsk(m)], m)
    BY <1>1, <1>3 DEF SelectedMode
  <2> QED
    BY <2>1, <2>2
<1>6. \A i \in DOMAIN ClientPsks :
          ServerKnows(ClientPsks[i]) => PskModeFor(ClientPsks[i], m) = "none"
  BY <1>1, <1>5, NoPskFits
<1>7. \A psk : PskModeFor(psk, m) = "none" => conf.c_modes \cap conf.s_modes \cap PskModes = {}
  BY ModesAreUsable
<1>8. SharedPsks = {}
  BY <1>6, <1>7 DEF SharedPsks
<1> QED
  BY <1>4, <1>8

-----------------------------------------------------------------------------
(* What the operations of the server that read do.                         *)

HelloChanges == {"mode", "selected", "tr", "resume", "psk", "share", "groups", "psk_modes", "limit",
                 "early_accepted", "early_key", "discard", "state"}

\* What the server decides with a ClientHello.
HelloDecided(m) ==
    /\ s'.state \in {"HELLO_RETRY_REQUEST", "SERVER_HELLO"}
    /\ s'.mode \in conf.c_modes \cap (PskModes \cup {"ephemeral"})
    /\ s'.mode \in PskModes => s'.selected \in DOMAIN ClientPsks /\ s'.psk = ClientPsks[s'.selected]
    /\ s'.mode \notin PskModes => s'.psk = "zero"
    /\ s'.share \in {"none", m.share} /\ s'.groups = m.groups
    /\ s'.state = "HELLO_RETRY_REQUEST" =>
           ~s.hrr /\ s'.share = m.share /\ m.share \notin conf.s_groups \cup {"none"}
    /\ s'.discard \in {"NO_DISCARD", "DISCARD", "TRY_TO_DEPROTECT_AND_DISCARD"}
    /\ s'.discard = "DISCARD" => s'.state = "HELLO_RETRY_REQUEST"
    /\ s'.discard = "TRY_TO_DEPROTECT_AND_DISCARD" => s'.state = "SERVER_HELLO"
    /\ m.early /\ ~s'.early_accepted => s'.discard # "NO_DISCARD"

\* What it accepts early data with.
EarlyDecided(m) ==
    s'.early_accepted =>
        /\ s'.selected = 1 /\ s'.psk = "ticket" /\ s'.limit = MaxEarly
        /\ s'.early_key = Key("early", "ticket", "none", <<m>>)
        /\ ~s.hrr /\ m.early /\ s'.state = "SERVER_HELLO" /\ s'.mode \in PskModes

\* What the server makes of a right ClientHello agrees with the configurations.
LEMMA HelloIsDecided ==
    ASSUME TlsInv, EarlyInv, NEW m, HelloIsRight(m), s.state = "CLIENT_HELLO", DOMAIN s' = ServerFields,
           SelectedMode(m) # "none",
           NEW name, name = (IF SelectedPsk(m) = 0 THEN "zero" ELSE m.psks[SelectedPsk(m)]),
           NEW accepted, accepted = AcceptsEarlyData(m, s.resume \/ (SelectedMode(m) \in PskModes /\ name = "ticket")),
           s'.mode = SelectedMode(m), s'.selected = SelectedPsk(m),
           s'.psk = (IF SelectedMode(m) \in PskModes THEN name ELSE "zero"),
           s'.share = (IF SelectedMode(m) = "psk" THEN "none" ELSE m.share),
           s'.groups = m.groups, s'.discard = DiscardAfter(m, accepted),
           s'.early_accepted = (IF m.early THEN accepted ELSE s.early_accepted),
           s'.state = (IF RetryRequired(m) THEN "HELLO_RETRY_REQUEST" ELSE "SERVER_HELLO")
    PROVE  /\ HelloDecided(m) /\ (s'.early_accepted => accepted)
           /\ s'.early_accepted => /\ s'.selected = 1 /\ s'.psk = "ticket" /\ name = "ticket"
                                   /\ ~s.hrr /\ m.early /\ s'.state = "SERVER_HELLO" /\ s'.mode \in PskModes
<1>1. m.psks = ClientPsks /\ (s.hrr => m.share \in conf.s_groups)
  BY DEF HelloIsRight
<1>2. /\ SelectedMode(m) \in conf.c_modes
      /\ SelectedMode(m) \in PskModes \cup {"ephemeral"}
      /\ SelectedMode(m) \in PskModes => SelectedPsk(m) # 0
      /\ SelectedMode(m) # "psk" => m.share # "none"
  BY SelectedModeIs, SelectedModeIsOffered
<1>3. SelectedMode(m) \in PskModes =>
          SelectedPsk(m) \in DOMAIN ClientPsks /\ name = ClientPsks[SelectedPsk(m)]
  BY <1>1, <1>2, SelectedPskFits
<1>4. RetryRequired(m) <=> SelectedMode(m) # "psk" /\ m.share \notin conf.s_groups
  BY DEF RetryRequired
<1>5. DiscardAfter(m, accepted) = IF ~m.early \/ accepted THEN "NO_DISCARD"
                                  ELSE IF RetryRequired(m) THEN "DISCARD"
                                  ELSE "TRY_TO_DEPROTECT_AND_DISCARD"
  BY DEF DiscardAfter
<1>6. s'.early_accepted => accepted /\ m.early
  BY DEF EarlyInv, AcceptanceIsRight, ServerBegins
<1>7. accepted => /\ m.early /\ ~RetryRequired(m) /\ SelectedPsk(m) = 1
                  /\ s.resume \/ (SelectedMode(m) \in PskModes /\ name = "ticket")
  BY DEF AcceptsEarlyData
<1>8. m.early => ~s.hrr /\ OffersEarlyData
  BY DEF HelloIsRight
<1>9. ~s.hrr => ~s.resume
  BY DEF EarlyInv, AcceptanceIsRight
<1>10. HelloDecided(m)
  BY <1>1, <1>2, <1>3, <1>4, <1>5, <1>6, <1>7 DEF HelloDecided
<1> QED
  BY <1>6, <1>7, <1>8, <1>9, <1>10

\* The server hears a ClientHello and decides on it, or refuses because the
\* configurations share no key exchange.
LEMMA ProcessClientHelloDoes ==
    ASSUME TlsInv, EarlyInv, FlowInv, ProcessClientHello
    PROVE  \/ /\ Refuses("server", "key exchange")
              /\ "ephemeral" \notin conf.c_modes \cap conf.s_modes /\ SharedPsks = {}
           \/ LET m == ToServer[1].msg
              IN  /\ s.state = "CLIENT_HELLO" /\ ServerIsAlone /\ ServerHears
                  /\ Len(s.tr) = HelloPlace - 1 /\ HelloIsRight(m)
                  /\ ServerChanges(HelloChanges)
                  /\ HelloDecided(m) /\ EarlyDecided(m)
                  /\ ~m.early => s'.discard = "NO_DISCARD"
                  /\ m.early /\ 1 \in SharedPsks => s'.limit = MaxEarly
<1> DEFINE m == Message("server")
           psk == SelectedPsk(m)
           mode == SelectedMode(m)
           name == IF psk = 0 THEN "zero" ELSE m.psks[psk]
           tr == Append(s.tr, m)
           resume == s.resume \/ (mode \in PskModes /\ name = "ticket")
           accepted == AcceptsEarlyData(m, resume)
           next == [s EXCEPT
                       !.mode = mode, !.selected = psk, !.tr = tr, !.resume = resume,
                       !.psk = IF mode \in PskModes THEN name ELSE "zero",
                       !.share = IF mode = "psk" THEN "none" ELSE m.share,
                       !.groups = m.groups, !.psk_modes = m.psk_modes,
                       !.limit = IF name = "ticket" THEN MaxEarly ELSE @,
                       !.early_accepted = IF m.early THEN accepted ELSE @,
                       !.early_key = IF accepted
                                     THEN Key("early", "ticket", "none", tr) ELSE @,
                       !.discard = DiscardAfter(m, accepted),
                       !.state = IF RetryRequired(m) THEN "HELLO_RETRY_REQUEST"
                                 ELSE "SERVER_HELLO"]
<1>1. DOMAIN s = ServerFields /\ Receives("server", "client_hello") /\ IsSeq(s.tr)
  BY DEF TlsInv, ServerSide, ProcessClientHello
<1>2. /\ m = ToServer[1].msg /\ s.state = "CLIENT_HELLO" /\ Len(s.tr) = HelloPlace - 1
      /\ HelloIsRight(m) /\ Head(net.server).over = s.tr /\ ~(s.hrr /\ m.early)
  BY <1>1, ServerHelloReads
<1>3. CASE mode = "none"
  <2>1. Refuses("server", "key exchange")
    BY <1>2, <1>3 DEF ProcessClientHello
  <2> QED
    BY <1>2, <1>3, <2>1, NothingIsSelected
<1>4. CASE mode # "none"
  <2>1. ServerReads(next)
    BY <1>2, <1>4 DEF ProcessClientHello
  <2> HIDE DEF m, psk, mode, resume, accepted, tr, name
  <2>2. /\ next.tr = tr /\ DOMAIN next = ServerFields
        /\ \A f \in ServerFields \ HelloChanges : next[f] = s[f]
        /\ next.mode = mode /\ next.selected = psk
        /\ next.psk = IF mode \in PskModes THEN name ELSE "zero"
        /\ next.share = IF mode = "psk" THEN "none" ELSE m.share
    BY <1>1 DEF ServerFields, HelloChanges
  <2>3. /\ next.groups = m.groups
        /\ next.limit = IF name = "ticket" THEN MaxEarly ELSE s.limit
        /\ next.early_accepted = IF m.early THEN accepted ELSE s.early_accepted
        /\ next.early_key = IF accepted THEN Key("early", "ticket", "none", tr) ELSE s.early_key
        /\ next.discard = DiscardAfter(m, accepted)
        /\ next.state = IF RetryRequired(m) THEN "HELLO_RETRY_REQUEST" ELSE "SERVER_HELLO"
    BY <1>1 DEF ServerFields
  <2> HIDE DEF next
  <2>4. next.tr = Append(s.tr, Message("server"))
    BY <2>2 DEF tr, m
  <2>5. ServerHears /\ ServerIsAlone /\ s' = next
    BY <1>1, <2>1, <2>4, ServerReadsDoes
  <2>6. ServerChanges(HelloChanges)
    BY <2>2, <2>5 DEF ServerChanges
  <2>7. /\ HelloDecided(m) /\ (s'.early_accepted => accepted)
        /\ s'.early_accepted => /\ s'.selected = 1 /\ s'.psk = "ticket" /\ name = "ticket"
                                /\ ~s.hrr /\ m.early /\ s'.state = "SERVER_HELLO" /\ s'.mode \in PskModes
    <3>1. SelectedMode(m) # "none" /\ mode = SelectedMode(m) /\ psk = SelectedPsk(m)
      BY <1>4 DEF mode, psk
    <3>2. /\ name = IF SelectedPsk(m) = 0 THEN "zero" ELSE m.psks[SelectedPsk(m)]
          /\ accepted = AcceptsEarlyData(m, s.resume \/ (SelectedMode(m) \in PskModes /\ name = "ticket"))
      BY DEF name, psk, accepted, resume, mode
    <3>3. /\ HelloIsRight(m) /\ s.state = "CLIENT_HELLO" /\ DOMAIN s' = ServerFields
          /\ s'.mode = SelectedMode(m) /\ s'.selected = SelectedPsk(m)
          /\ s'.psk = (IF SelectedMode(m) \in PskModes THEN name ELSE "zero")
          /\ s'.share = (IF SelectedMode(m) = "psk" THEN "none" ELSE m.share)
      BY <1>2, <2>2, <2>5, <3>1
    <3>4. /\ s'.groups = m.groups /\ s'.discard = DiscardAfter(m, accepted)
          /\ s'.early_accepted = (IF m.early THEN accepted ELSE s.early_accepted)
          /\ s'.state = (IF RetryRequired(m) THEN "HELLO_RETRY_REQUEST" ELSE "SERVER_HELLO")
      BY <2>3, <2>5
    <3> QED
      BY <3>1, <3>2, <3>3, <3>4, HelloIsDecided
  <2>8. ~s.hrr => tr = <<m>>
    <3>1. ~s.hrr => Len(s.tr) = 0
      BY <1>2 DEF HelloPlace
    <3>2. ~s.hrr => s.tr = <<>>
      BY <1>1, <3>1 DEF IsSeq
    <3>3. Append(<<>>, m) = <<m>>
      <4>1. <<>> \in Seq({m}) /\ m \in {m}
        OBVIOUS
      <4> QED
        BY <4>1
    <3> QED
      BY <3>2, <3>3 DEF tr
  <2>9. EarlyDecided(m)
    BY <2>3, <2>5, <2>7, <2>8 DEF EarlyDecided
  <2>10. ~m.early => s'.discard = "NO_DISCARD"
    BY <2>3, <2>5 DEF DiscardAfter
  <2>11. m.early /\ 1 \in SharedPsks => s'.limit = MaxEarly
    BY <1>2, <2>3, <2>5, TicketIsSelected DEF name, psk
  <2> QED
    BY <1>2, <2>5, <2>6, <2>7, <2>9, <2>10, <2>11 DEF m
<1> QED
  BY <1>3, <1>4

\* The server hears that the early data ends and turns to its handshake key.
LEMMA ProcessEndOfEarlyDataDoes ==
    ASSUME TlsInv, FlowInv, ProcessEndOfEarlyData
    PROVE  /\ s.state = "END_OF_EARLY_DATA" /\ s'.state = SecondFlight
           /\ ServerIsAlone /\ ServerHears
           /\ ServerChanges({"state", "tr", "tin"}) /\ s'.tin = s.handshake_key
<1> DEFINE m == Message("server")
           next == [s EXCEPT !.tin = s.handshake_key, !.tr = Append(@, m), !.state = SecondFlight]
<1>1. DOMAIN s = ServerFields /\ Receives("server", "end_of_early_data")
  BY DEF TlsInv, ServerSide, ProcessEndOfEarlyData
<1>2. s.state = "END_OF_EARLY_DATA"
  BY <1>1, ServerReceives DEF ServerWaits
<1>3. ServerReads(next)
  BY DEF ProcessEndOfEarlyData
<1>4. /\ next.tr = Append(s.tr, m) /\ DOMAIN next = ServerFields
      /\ next.state = SecondFlight /\ next.tin = s.handshake_key
      /\ \A f \in ServerFields \ {"state", "tr", "tin"} : next[f] = s[f]
  BY <1>1 DEF ServerFields
<1> HIDE DEF next
<1>5. ServerHears /\ ServerIsAlone /\ s' = next
  BY <1>1, <1>3, <1>4, ServerReadsDoes
<1> QED
  BY <1>2, <1>4, <1>5 DEF ServerChanges

\* The server hears the client's certificate, or refuses one that its configuration
\* does not accept.
LEMMA ProcessClientCertificateDoes ==
    ASSUME TlsInv, FlowInv, ProcessClientCertificate
    PROVE  \/ /\ s.state = "CLIENT_CERTIFICATE" /\ ServerIsAlone /\ ServerHears
              /\ s'.state = IF conf.c_cert = "none" THEN "CLIENT_FINISHED"
                            ELSE "CLIENT_CERTIFICATE_VERIFY"
              /\ ServerChanges({"state", "tr", "peer_cert", "discard"})
              /\ s'.discard = "NO_DISCARD"
           \/ /\ Refuses("server", "peer certificate")
              /\ ~Satisfies(conf.c_cert, conf.s_authmode)
<1> DEFINE m == Message("server")
           next == [s EXCEPT !.peer_cert = m.cert, !.tr = Append(@, m), !.discard = "NO_DISCARD",
                             !.state = IF m.cert = "none" THEN "CLIENT_FINISHED"
                                       ELSE "CLIENT_CERTIFICATE_VERIFY"]
<1>1. DOMAIN s = ServerFields /\ Receives("server", "certificate")
  BY DEF TlsInv, ServerSide, ProcessClientCertificate
<1>2. s.state = "CLIENT_CERTIFICATE" /\ m.cert = conf.c_cert
  BY <1>1, ServerReceives DEF ServerWaits, ClientRecordIsRight
<1>3. CASE Accepts(conf.s_authmode, m.cert)
  <2>1. ServerReads(next)
    BY <1>3 DEF ProcessClientCertificate
  <2>2. /\ next.tr = Append(s.tr, m) /\ DOMAIN next = ServerFields
        /\ next.discard = "NO_DISCARD"
        /\ next.state = IF m.cert = "none" THEN "CLIENT_FINISHED" ELSE "CLIENT_CERTIFICATE_VERIFY"
        /\ \A f \in ServerFields \ {"state", "tr", "peer_cert", "discard"} : next[f] = s[f]
    BY <1>1 DEF ServerFields
  <2> HIDE DEF next
  <2>3. ServerHears /\ ServerIsAlone /\ s' = next
    BY <1>1, <2>1, <2>2, ServerReadsDoes
  <2> QED
    BY <1>2, <2>2, <2>3 DEF ServerChanges
<1>4. CASE ~Accepts(conf.s_authmode, m.cert)
  BY <1>2, <1>4 DEF ProcessClientCertificate, Accepts, Satisfies
<1> QED
  BY <1>3, <1>4

\* The server hears the client's signature: it is right.
LEMMA ProcessClientCertificateVerifyDoes ==
    ASSUME TlsInv, FlowInv, ProcessClientCertificateVerify
    PROVE  /\ s.state = "CLIENT_CERTIFICATE_VERIFY" /\ s'.state = "CLIENT_FINISHED"
           /\ ServerIsAlone /\ ServerHears
           /\ ServerChanges({"state", "tr"})
<1> DEFINE m == Message("server")
           next == [s EXCEPT !.tr = Append(@, m), !.state = "CLIENT_FINISHED"]
<1>1. DOMAIN s = ServerFields /\ Receives("server", "certificate_verify")
  BY DEF TlsInv, ServerSide, ProcessClientCertificateVerify
<1>2. s.state = "CLIENT_CERTIFICATE_VERIFY"
  BY <1>1, ServerReceives DEF ServerWaits
<1>3. Head(net.server).over = s.tr
  BY <1>1, ServerMeets DEF Bound
<1>4. ServerReads(next)
  BY <1>3 DEF ProcessClientCertificateVerify
<1>5. /\ next.tr = Append(s.tr, m) /\ DOMAIN next = ServerFields
      /\ next.state = "CLIENT_FINISHED"
      /\ \A f \in ServerFields \ {"state", "tr"} : next[f] = s[f]
  BY <1>1 DEF ServerFields
<1> HIDE DEF next
<1>6. ServerHears /\ ServerIsAlone /\ s' = next
  BY <1>1, <1>4, <1>5, ServerReadsDoes
<1> QED
  BY <1>2, <1>5, <1>6 DEF ServerChanges

\* The server hears the client's Finished message: it is right.
LEMMA ProcessClientFinishedDoes ==
    ASSUME TlsInv, FlowInv, ProcessClientFinished
    PROVE  /\ s.state = "CLIENT_FINISHED" /\ s'.state = "HANDSHAKE_WRAPUP"
           /\ ServerIsAlone /\ ServerHears
           /\ ServerChanges({"state", "tr", "discard", "resumption"})
           /\ s'.discard = "NO_DISCARD"
<1> DEFINE m == Message("server")
           tr == Append(s.tr, m)
           next == [s EXCEPT !.tr = tr, !.discard = "NO_DISCARD",
                             !.resumption = Key("resumption", s.psk, s.share, tr),
                             !.state = "HANDSHAKE_WRAPUP"]
<1>1. DOMAIN s = ServerFields /\ Receives("server", "finished")
  BY DEF TlsInv, ServerSide, ProcessClientFinished
<1>2. s.state = "CLIENT_FINISHED"
  BY <1>1, ServerReceives DEF ServerWaits
<1>3. Head(net.server).over = s.tr
  BY <1>1, ServerMeets DEF Bound
<1>4. ServerReads(next)
  BY <1>3 DEF ProcessClientFinished
<1>5. /\ next.tr = Append(s.tr, m) /\ DOMAIN next = ServerFields
      /\ next.state = "HANDSHAKE_WRAPUP" /\ next.discard = "NO_DISCARD"
      /\ \A f \in ServerFields \ {"state", "tr", "discard", "resumption"} : next[f] = s[f]
  BY <1>1 DEF ServerFields
<1> HIDE DEF next
<1>6. ServerHears /\ ServerIsAlone /\ s' = next
  BY <1>1, <1>4, <1>5, ServerReadsDoes
<1> QED
  BY <1>2, <1>5, <1>6 DEF ServerChanges

\* A HelloRetryRequest that cannot be written: there is no group in common.
LEMMA NoGroupIsCommon ==
    ASSUME TlsInv, FlowInv, WriteHelloRetryRequest, s.hrr \/ CommonGroups(s.groups) = {}
    PROVE  /\ GivesUp("server", "group") /\ net' = net
           /\ ToSet(conf.c_groups) \cap conf.s_groups = {}
<1>1. s.state = "HELLO_RETRY_REQUEST" /\ (s.hrr \/ CommonGroups(s.groups) = {})
  BY DEF WriteHelloRetryRequest, CanStep, Context
<1>2. ~s.hrr /\ s.groups = s.tr[1].groups /\ Len(s.tr) = 1 /\ s.tr[1].share # "none"
  BY <1>1 DEF FlowInv, Places, ServerPlace, HelloPlace, ServerParameters
<1>3. GivesUp("server", "group") /\ net' = net
  BY <1>1, <1>2 DEF WriteHelloRetryRequest
<1>4. MessageIsRight(1, s.tr[1])
  <2>1. 1 \in 1 .. Len(s.tr)
    BY <1>2
  <2> QED
    BY <2>1 DEF FlowInv, MessagesAreRight
<1>5. HelloIsRight(s.tr[1])
  BY <1>2, <1>4 DEF MessageIsRight, HelloPlace
<1>6. s.groups = conf.c_groups
  BY <1>2, <1>5 DEF HelloIsRight
<1>7. DOMAIN conf.c_groups = 1 .. Len(conf.c_groups)
  BY GroupsAreListed DEF FlowInv, ValuesAreKnown
<1>8. ToSet(conf.c_groups) \cap conf.s_groups = {}
  BY <1>1, <1>2, <1>6 DEF CommonGroups, ToSet
<1> QED
  BY <1>3, <1>8

\* A server certificate that cannot be written.
LEMMA NoCertificateIsThere ==
    ASSUME WriteServerCertificate, conf.s_cert = "none"
    PROVE  GivesUp("server", "own certificate") /\ net' = net
BY DEF WriteServerCertificate

\* The client writes one item of early data, or one that it may write again.
LEMMA WriteEarlyDataDoes ==
    ASSUME TlsInv, EarlyInv, NEW taken \in BOOLEAN, WriteEarlyData(taken)
    PROVE  /\ failed.client = "no" /\ c.early \in {"CAN_WRITE", "ACCEPTED"}
           /\ ToClient' = ToClient /\ ToServer' = Append(ToServer, DataRecord(c, app.next))
           /\ UNCHANGED <<conf, s, failed>>
           /\ ClientChanges({"total"}) /\ app'.received = app.received
           /\ \/ c'.total = c.total /\ app'.next = app.next /\ app'.retried # {}
              \/ /\ c'.total = c.total + 1 /\ app'.next = app.next + 1 /\ c.total < MaxEarly
                 /\ app'.retried = app.retried
<1>1. /\ failed.client = "no" /\ c.early \in {"CAN_WRITE", "ACCEPTED"} /\ c.total < MaxEarly
      /\ UNCHANGED <<conf, s, failed>>
  BY DEF WriteEarlyData
<1>2. ToClient' = ToClient /\ ToServer' = Append(ToServer, DataRecord(c, app.next))
  BY EarlyDataGoesOut DEF TlsInv
<1>3. DOMAIN c = ClientFields /\ DOMAIN app = {"next", "retried", "received"}
  BY DEF TlsInv, ClientSide, EarlyInv, ItemsAreNumbers
<1>4. CASE taken
  BY <1>1, <1>2, <1>3, <1>4 DEF WriteEarlyData, ClientChanges, ClientFields
<1>5. CASE ~taken
  BY <1>1, <1>2, <1>3, <1>5 DEF WriteEarlyData, ClientChanges, ClientFields
<1> QED
  BY <1>4, <1>5

-----------------------------------------------------------------------------
(* Every record that is read is one the reader can open and waits for.     *)

ServerReads1 == failed.server = "no" /\ s.state \in DOMAIN ServerWaits /\ ToServer # <<>>
ClientReads1 == failed.client = "no" /\ c.state \in DOMAIN ClientWaits /\ ToClient # <<>>

\* The records at the head of the queues have their keys.
LEMMA HeadsHaveKeys ==
    ASSUME TlsInv, FlowInv
    PROVE  /\ ToClient # <<>> => ServerRecordHasKey(ToClient[1])
           /\ ToServer # <<>> => ClientRecordHasKey(ToServer[1])
<1>1. IsSeq(ToClient) /\ IsSeq(ToServer)
  BY QueuesAre DEF TlsInv
<1>2. /\ ToClient # <<>> => 1 \in 1 .. Len(ToClient)
      /\ ToServer # <<>> => 1 \in 1 .. Len(ToServer)
  BY <1>1, TailIs
<1> QED
  BY <1>2 DEF FlowInv, RecordsHaveKeys

\* The places, in numbers.
LEMMA PlacesAre ==
    ASSUME FlowInv
    PROVE  /\ HelloPlace \in {1, 3} /\ Asked \in {0, 1}
           /\ FlightEnd \in Nat /\ FlightEnd >= HelloPlace + 3
           /\ CertificateEnd \in Nat /\ CertificateEnd >= FlightEnd
<1>1. HelloPlace \in {1, 3} /\ Asked \in {0, 1}
  BY DEF HelloPlace, Asked
<1>2. FlightEnd \in Nat /\ FlightEnd >= HelloPlace + 3
  BY <1>1 DEF FlightEnd
<1>3. CertificateEnd \in Nat /\ CertificateEnd >= FlightEnd
  <2> HIDE DEF FlightEnd
  <2> DEFINE a == IF s.early_accepted THEN 1 ELSE 0
             b == IF ~s.certificate_request_sent THEN 0 ELSE IF conf.c_cert = "none" THEN 1 ELSE 2
  <2>1. a \in {0, 1} /\ b \in {0, 1, 2} /\ CertificateEnd = FlightEnd + a + b
    BY DEF CertificateEnd
  <2> HIDE DEF a, b
  <2> QED
    BY <1>2, <2>1
<1> QED
  BY <1>1, <1>2, <1>3

\* A client that is past its ClientHello has hashed it.
LEMMA HelloIsHashed ==
    ASSUME TlsInv, FlowInv, c.state \notin {"HELLO_REQUEST", "CLIENT_HELLO"}
    PROVE  Len(c.tr) >= 1
<1>1. /\ HelloPlace \in {1, 3} /\ Asked \in {0, 1} /\ FlightEnd \in Nat /\ FlightEnd >= 4
      /\ CertificateEnd \in Nat /\ CertificateEnd >= 4
  BY PlacesAre
<1>2. /\ c.state \in {"CLIENT_CCS_AFTER_CLIENT_HELLO", "CLIENT_CCS_BEFORE_2ND_CLIENT_HELLO",
                      "SERVER_HELLO"} \cup ClientKeyed \cup ClientSecond
      /\ ClientPlace
  BY DEF FlowInv, ValuesAreKnown, Places, ClientBegins
<1>3. CASE c.state \in ClientSecond
  <2>1. \/ Len(c.tr) = FlightEnd \/ Len(c.tr) = FlightEnd + 1
        \/ Len(c.tr) = FlightEnd + (IF s.early_accepted THEN 1 ELSE 0)
        \/ Len(c.tr) = CertificateEnd \/ Len(c.tr) = CertificateEnd + 1
    BY <1>2, <1>3 DEF ClientPlace, ClientSecond
  <2> QED
    BY <1>1, <2>1
<1>4. CASE c.state \in ClientKeyed
  <2>1. \/ Len(c.tr) = HelloPlace + 1 \/ Len(c.tr) = HelloPlace + 2
        \/ Len(c.tr) = HelloPlace + 2 + Asked \/ Len(c.tr) = HelloPlace + 3 + Asked
        \/ Len(c.tr) = FlightEnd - 1
    BY <1>2, <1>4 DEF ClientPlace, ClientKeyed
  <2> QED
    BY <1>1, <2>1
<1>5. CASE c.state \notin ClientKeyed \cup ClientSecond
  <2>1. \/ Len(c.tr) = 1 \/ Len(c.tr) = 2 \/ Len(c.tr) = (IF c.hrr THEN 3 ELSE 1)
    BY <1>2, <1>5 DEF ClientPlace
  <2> QED
    BY <2>1, SMTT(30)
<1> QED
  BY <1>3, <1>4, <1>5

\* What a message for the server in its flight is, and its key.
LEMMA ServerMeetsItsKey ==
    ASSUME TlsInv, EarlyInv, FlowInv, ServerReads1, IsHs(ToServer[1])
    PROVE  ToServer[1].key = s.tin /\ ToServer[1].msg.t \in ServerWaits[s.state]
<1> DEFINE r == ToServer[1]
<1>1. /\ MessageIsRight(Len(s.tr) + 1, r.msg) /\ ClientRecordHasKey(r) /\ IsHs(r)
      /\ Len(s.tr) \in Nat
  BY ServerReadsNext, HeadsHaveKeys, TranscriptsAre DEF ServerReads1
<1> HIDE DEF r
<1>2. s.state \in {"CLIENT_HELLO", "END_OF_EARLY_DATA", "CLIENT_CERTIFICATE",
                   "CLIENT_CERTIFICATE_VERIFY", "CLIENT_FINISHED"}
  BY DEF ServerReads1, ServerWaits
<1>3. /\ HelloPlace \in {1, 3} /\ FlightEnd \in Nat /\ CertificateEnd \in Nat
      /\ s.early_accepted \in BOOLEAN /\ s.certificate_request_sent \in BOOLEAN
  BY DEF HelloPlace, FlightEnd, CertificateEnd, Asked, TlsInv, ServerSide, FlowInv, ValuesAreKnown
<1>4. CASE s.state = "CLIENT_HELLO"
  <2>1. Len(s.tr) + 1 = HelloPlace /\ s.tin = NoKey
    BY <1>3, <1>4 DEF FlowInv, Places, ServerPlace, ServerKeys, ServerSecond, ServerDone, ServerTickets
  <2>2. MessageIsRight(HelloPlace, r.msg)
    BY <1>1, <2>1
  <2>3. r.msg.t = "client_hello"
    BY <2>2 DEF MessageIsRight, HelloIsRight
  <2>4. r.key = NoKey
    BY <1>1, <2>3 DEF ClientRecordHasKey, Carries, IsHs
  <2> QED
    BY <1>4, <2>1, <2>3, <2>4 DEF ServerWaits, r
<1>5. CASE s.state # "CLIENT_HELLO"
  <2>1. /\ s.state \in ServerSecond
        /\ s.state = "END_OF_EARLY_DATA" => s.tin = s.early_key /\ s.early_accepted
        /\ s.state # "END_OF_EARLY_DATA" => s.tin = s.handshake_key
    BY <1>2, <1>5 DEF ServerSecond, FlowInv, ServerKeys, EarlyInv, AcceptanceIsRight
  <2>2. /\ s.state = "END_OF_EARLY_DATA" => r.msg.t = "end_of_early_data"
        /\ s.state = "CLIENT_CERTIFICATE" => r.msg.t = "certificate"
        /\ s.state = "CLIENT_CERTIFICATE_VERIFY" => r.msg.t = "certificate_verify"
        /\ s.state = "CLIENT_FINISHED" => r.msg.t = "finished"
    <3>1. /\ s.state \in {"END_OF_EARLY_DATA", "CLIENT_CERTIFICATE"} => Len(s.tr) + 1 = FlightEnd + 1
          /\ s.state = "CLIENT_CERTIFICATE" => s.certificate_request_sent
          /\ s.state = "CLIENT_CERTIFICATE_VERIFY" =>
                 Len(s.tr) + 1 = FlightEnd + 2 /\ s.certificate_request_sent /\ conf.c_cert # "none"
          /\ s.state = "CLIENT_FINISHED" => Len(s.tr) + 1 = CertificateEnd + 1
      BY <1>1, <1>3 DEF FlowInv, Places, ServerPlace
    <3>2. /\ \A i : i = FlightEnd + 1 /\ MessageIsRight(i, r.msg) =>
                 /\ s.early_accepted => r.msg.t = "end_of_early_data"
                 /\ s.certificate_request_sent => r.msg.t = "certificate"
          /\ \A i : i = FlightEnd + 2 /\ MessageIsRight(i, r.msg) =>
                 (s.certificate_request_sent /\ conf.c_cert # "none" => r.msg.t = "certificate_verify")
          /\ \A i : i = CertificateEnd + 1 /\ MessageIsRight(i, r.msg) => r.msg.t = "finished"
      BY DEF MessageIsRight
    <3> QED
      BY <1>1, <2>1, <3>1, <3>2
  <2>3. CASE s.state = "END_OF_EARLY_DATA"
    <3>1. r.key = c.early_key /\ c.state \in ClientSecond
      BY <1>1, <2>2, <2>3 DEF ClientRecordHasKey, Carries, IsHs
    <3>2. s.early_key = Key("early", "ticket", "none", <<s.tr[1]>>) /\ ~s.hrr /\ OffersEarlyData
      BY <2>1, <2>3 DEF FlowInv, ServerParameters
    <3>3. ~c.hrr /\ Heard = c.tr /\ Len(c.tr) >= 1 /\ HelloSent /\ Len(s.tr) >= 1
      <4>1. ~c.hrr /\ ~HashedAlone /\ c.state \notin {"HELLO_REQUEST", "CLIENT_HELLO"}
        BY <3>1, <3>2 DEF FlowInv, Places, ClientPlace, HashedAlone, ClientSecond, ClientDone
      <4>2. Len(s.tr) >= 1
        BY <2>3, PlacesAre DEF FlowInv, Places, ServerPlace
      <4> QED
        BY <4>1, <4>2, HelloIsHashed, TranscriptsAre DEF HelloSent
    <3>4. c.early_key = Key("early", "ticket", "none", <<c.tr[1]>>)
      BY <3>2, <3>3 DEF FlowInv, ClientParameters
    <3>5. c.tr[1] = s.tr[1]
      BY <3>3, TranscriptsAre DEF FlowInv, TranscriptsAgree
    <3> QED
      BY <2>1, <2>2, <2>3, <3>1, <3>2, <3>4, <3>5 DEF ServerWaits, r
  <2>4. CASE s.state # "END_OF_EARLY_DATA"
    <3>1. r.key = c.handshake_key /\ c.state \in ClientSecond
      BY <1>1, <1>2, <1>5, <2>2, <2>4 DEF ClientRecordHasKey, Carries, IsHs
    <3>2. c.handshake_key = s.handshake_key
      BY <3>1 DEF TlsInv, Joint, PeersAgree
    <3> QED
      BY <1>2, <1>5, <2>1, <2>2, <2>4, <3>1, <3>2 DEF ServerWaits, r
  <2> QED
    BY <2>3, <2>4
<1> QED
  BY <1>4, <1>5

\* Early data that comes is skipped or read, and a message is expected.
LEMMA ServerMeetsNoStranger ==
    ASSUME TlsInv, EarlyInv, FlowInv, ServerReads1
    PROVE  LET r == ToServer[1]
           IN  \/ IsHs(r) /\ r.key = s.tin /\ r.msg.t \in ServerWaits[s.state]
               \/ ~IsHs(r) /\ ~IsEarlyRecord(r) /\ r.type = "change_cipher_spec" /\ r.key = NoKey
               \/ ~IsHs(r) /\ IsEarlyRecord(r) /\ IsSkipped("server", r)
               \/ ~IsHs(r) /\ IsEarlyRecord(r) /\ IsEarlyData("server", r)
<1> DEFINE r == ToServer[1]
<1>1. ClientRecordHasKey(r) /\ ToServer # <<>> /\ failed.server = "no"
  BY HeadsHaveKeys DEF ServerReads1
<1>2. 1 \in 1 .. Len(ToServer)
  BY <1>1, QueuesAre, TailIs DEF TlsInv
<1>3. s.state \in {"CLIENT_HELLO", "END_OF_EARLY_DATA", "CLIENT_CERTIFICATE",
                   "CLIENT_CERTIFICATE_VERIFY", "CLIENT_FINISHED"}
  BY DEF ServerReads1, ServerWaits
<1>4. CASE IsHs(r)
  BY <1>4, ServerMeetsItsKey
<1>5. CASE ~IsHs(r) /\ ~IsEarlyRecord(r)
  BY <1>1, <1>5 DEF ClientRecordHasKey, IsHs, IsEarlyRecord
<1>6. CASE ~IsHs(r) /\ IsEarlyRecord(r)
  <2>1. /\ r.key = c.early_key /\ r.key # NoKey /\ HelloSent /\ OffersEarlyData
        /\ r.type \in {"change_cipher_spec", "application_data"}
        /\ r.type = "change_cipher_spec" => ~s.early_accepted
    BY <1>1, <1>6 DEF ClientRecordHasKey, IsEarlyRecord
  <2>2. ~HelloUnread
    BY <1>1, <1>6 DEF FlowInv, EarlyComesFirst
  <2>3. \/ ~s.early_accepted /\ s.discard # "NO_DISCARD"
        \/ s.early_accepted /\ ~PastEarlyData
    BY <1>1, <1>2, <1>6, <2>2 DEF FlowInv, EarlyIsAwaited, ServerIsReady
  <2>4. OuterType(r) = "application_data"
    BY <2>1 DEF OuterType
  <2>5. CASE ~s.early_accepted /\ s.discard = "DISCARD"
    <3>1. s.state \in ServerBegins
      BY <2>5 DEF FlowInv, DiscardIsRight
    <3>2. s.tin = NoKey
      BY <3>1 DEF FlowInv, ServerKeys, ServerBegins, ServerSecond, ServerDone, ServerTickets
    <3> QED
      BY <1>6, <2>4, <2>5, <3>2 DEF IsSkipped
  <2>6. CASE ~s.early_accepted /\ s.discard = "TRY_TO_DEPROTECT_AND_DISCARD"
    <3>1. s.state \in {"CLIENT_CERTIFICATE", "CLIENT_CERTIFICATE_VERIFY", "CLIENT_FINISHED"}
      BY <1>3, <2>6 DEF FlowInv, DiscardIsRight, ServerBegins, EarlyInv, AcceptanceIsRight
    <3>2. s.tin = s.handshake_key /\ s.handshake_key.stage = "handshake"
      BY <3>1 DEF FlowInv, ServerKeys, TlsInv, ServerSide, KeysAreOfHello, Key, ServerSecond
    <3>3. c.early_key.stage = "early"
      BY <2>1 DEF FlowInv, ClientParameters
    <3>4. s.tin # NoKey /\ r.key # s.tin
      BY <2>1, <3>2, <3>3 DEF NoKey
    <3> QED
      BY <1>6, <2>4, <2>6, <3>4 DEF IsSkipped
  <2>7. CASE s.early_accepted /\ ~PastEarlyData
    <3>1. s.state = "END_OF_EARLY_DATA"
      BY <1>3, <2>7 DEF PastEarlyData, EarlyInv, AcceptanceIsRight, ServerBegins, ServerSecond
    <3>2. s.tin = Key("early", "ticket", "none", <<s.tr[1]>>) /\ ~s.hrr
      BY <2>7, <3>1 DEF FlowInv, ServerParameters, ServerKeys
    <3>3. /\ ~c.hrr /\ Heard = c.tr /\ Len(c.tr) >= 1 /\ Len(s.tr) >= 1
      <4>1. ~c.hrr /\ ~HashedAlone /\ c.state \notin {"HELLO_REQUEST", "CLIENT_HELLO"}
        BY <2>1, <3>2 DEF HelloSent, FlowInv, Places, ClientPlace, HashedAlone
      <4>2. Len(c.tr) >= 1
        BY <4>1, HelloIsHashed
      <4>3. Len(s.tr) >= 1
        BY <3>1, PlacesAre DEF FlowInv, Places, ServerPlace
      <4> QED
        BY <4>1, <4>2, <4>3, TranscriptsAre
    <3>4. c.early_key = Key("early", "ticket", "none", <<c.tr[1]>>)
      BY <2>1, <3>3 DEF FlowInv, ClientParameters
    <3>5. c.tr[1] = s.tr[1]
      BY <3>3, TranscriptsAre DEF FlowInv, TranscriptsAgree
    <3> QED
      BY <1>6, <2>1, <2>7, <3>1, <3>2, <3>4, <3>5 DEF IsEarlyData
  <2>8. s.discard \in {"NO_DISCARD", "DISCARD", "TRY_TO_DEPROTECT_AND_DISCARD"}
    BY DEF FlowInv, DiscardIsRight
  <2> QED
    BY <2>3, <2>5, <2>6, <2>7, <2>8
<1> QED
  BY <1>4, <1>5, <1>6

\* How far the server can have got.
LEMMA ServerIsInPlace ==
    ASSUME TlsInv, EarlyInv, FlowInv
    PROVE  /\ Len(s.tr) <= CertificateEnd + 1
           /\ s.state \in {"HELLO_REQUEST", "CLIENT_HELLO", "SERVER_CCS_AFTER_HELLO_RETRY_REQUEST"} =>
                  Len(s.tr) = HelloPlace - 1
           /\ s.state \notin {"HELLO_REQUEST", "CLIENT_HELLO", "SERVER_CCS_AFTER_HELLO_RETRY_REQUEST"} =>
                  Len(s.tr) >= HelloPlace
<1>1. /\ HelloPlace \in {1, 3} /\ Asked \in {0, 1} /\ FlightEnd \in Nat /\ FlightEnd >= HelloPlace + 3
      /\ CertificateEnd \in Nat /\ CertificateEnd >= FlightEnd
      /\ s.mode \notin PskModes => FlightEnd = HelloPlace + 5 + Asked
  BY PlacesAre DEF FlightEnd
<1>2. /\ s.state \in ServerBegins \cup {"SERVER_HELLO"} \cup ServerKeyed \cup ServerSecond
      /\ ServerPlace
  BY DEF EarlyInv, AcceptanceIsRight, FlowInv, Places
<1>3. CASE s.state \in ServerSecond
  <2>1. \/ Len(s.tr) = FlightEnd \/ Len(s.tr) = CertificateEnd \/ Len(s.tr) = CertificateEnd + 1
        \/ /\ s.state = "CLIENT_CERTIFICATE_VERIFY" /\ Len(s.tr) = FlightEnd + 1
           /\ conf.c_cert # "none" /\ s.certificate_request_sent
    BY <1>2, <1>3 DEF ServerPlace, ServerSecond
  <2>2. s.certificate_request_sent => CertificateEnd >= FlightEnd + 1
    <3> HIDE DEF FlightEnd
    <3> QED
      BY <1>1 DEF CertificateEnd
  <2> QED
    BY <1>1, <1>3, <2>1, <2>2 DEF ServerSecond, ServerDone, ServerTickets
<1>4. CASE s.state \in ServerKeyed
  <2>1. \/ Len(s.tr) = HelloPlace + 1 \/ Len(s.tr) = FlightEnd - 1
        \/ s.mode \notin PskModes /\ Len(s.tr) \in {HelloPlace + 2, HelloPlace + 2 + Asked, HelloPlace + 3 + Asked}
    BY <1>2, <1>4 DEF ServerPlace, ServerKeyed
  <2>2. Len(s.tr) <= FlightEnd /\ Len(s.tr) >= HelloPlace
    BY <1>1, <2>1
  <2> QED
    BY <1>1, <1>4, <2>2 DEF ServerKeyed
<1>5. CASE s.state \in ServerBegins \cup {"SERVER_HELLO"}
  <2>1. Len(s.tr) <= HelloPlace /\ Len(s.tr) \in {HelloPlace, HelloPlace - 1}
    BY <1>1, <1>2, <1>5 DEF ServerPlace, ServerBegins
  <2> QED
    BY <1>1, <1>2, <1>5, <2>1 DEF ServerPlace, ServerBegins
<1> QED
  BY <1>2, <1>3, <1>4, <1>5

\* A message for the client, and its key.
LEMMA ClientMeetsItsKey ==
    ASSUME TlsInv, EarlyInv, FlowInv, ClientReads1, IsHs(ToClient[1])
    PROVE  /\ ToClient[1].msg.t \in ClientWaits[c.state]
           /\ \/ ToClient[1].key = c.tin
              \/ SecondPskAfterEarlyData /\ c.state = "ENCRYPTED_EXTENSIONS"
<1> DEFINE r == ToClient[1]
<1>1. /\ Len(Heard) + 1 \in 1 .. Len(s.tr) /\ MessageIsRight(Len(Heard) + 1, r.msg)
      /\ ServerRecordHasKey(r) /\ IsHs(r) /\ Len(Heard) \in Nat /\ Len(s.tr) \in Nat
  BY ClientReadsNext, HeadsHaveKeys, TranscriptsAre DEF ClientReads1
<1> HIDE DEF r
<1>2. c.state \in {"SERVER_HELLO", "HANDSHAKE_OVER"} \cup ClientKeyed
  BY DEF ClientReads1, ClientWaits, ClientKeyed
<1>3. /\ HelloPlace \in {1, 3} /\ FlightEnd \in Nat /\ CertificateEnd \in Nat /\ Asked \in {0, 1}
      /\ Len(s.tr) <= CertificateEnd + 1
  BY PlacesAre, ServerIsInPlace
<1>4. CASE c.state = "HANDSHAKE_OVER"
  <2>1. ~HashedAlone /\ Len(c.tr) = CertificateEnd + 1
    BY <1>4 DEF FlowInv, Places, ClientPlace, ClientSecond, ClientDone
  <2>2. Heard = c.tr
    BY <2>1, TranscriptsAre
  <2> QED
    BY <1>1, <1>3, <2>1, <2>2
<1>5. CASE c.state = "SERVER_HELLO"
  <2>1. r.msg.t = "server_hello"
    <3>1. Len(c.tr) = (IF c.hrr THEN 3 ELSE 1) /\ (c.hrr => s.hrr)
      BY <1>5 DEF FlowInv, Places, ClientPlace
    <3>2. CASE HashedAlone
      <4>1. s.hrr /\ Len(Heard) = 1
        BY <3>2, TranscriptsAre DEF HashedAlone
      <4>2. MessageIsRight(2, r.msg)
        BY <1>1, <4>1
      <4> QED
        BY <4>1, <4>2 DEF MessageIsRight, RetryIsRight
    <3>3. CASE ~HashedAlone
      <4>1. Heard = c.tr /\ (c.hrr <=> s.hrr)
        BY <3>1, <3>3, TranscriptsAre DEF HashedAlone, FlowInv, ValuesAreKnown
      <4>2. Len(Heard) + 1 = HelloPlace + 1
        BY <3>1, <4>1 DEF HelloPlace
      <4>3. MessageIsRight(HelloPlace + 1, r.msg)
        BY <1>1, <4>2
      <4> QED
        BY <4>3 DEF MessageIsRight
    <3> QED
      BY <3>2, <3>3
  <2>2. r.key = NoKey /\ c.tin = NoKey
    BY <1>1, <1>5, <2>1 DEF ServerRecordHasKey, IsHs, Carries, FlowInv, ClientKeys, ClientBegins
  <2> QED
    BY <1>5, <2>1, <2>2 DEF ClientWaits, r
<1>6. CASE c.state \in ClientKeyed
  <2>1. ~HashedAlone /\ Heard = c.tr
    BY <1>6, TranscriptsAre DEF FlowInv, Places, ClientPlace
  <2>2. MessageIsRight(Len(c.tr) + 1, r.msg)
    BY <1>1, <2>1
  <2>3. /\ c.state = "ENCRYPTED_EXTENSIONS" => Len(c.tr) = HelloPlace + 1
        /\ c.state = "CERTIFICATE_REQUEST" => Len(c.tr) = HelloPlace + 2
        /\ c.state = "SERVER_CERTIFICATE" => Len(c.tr) = HelloPlace + 2 + Asked
        /\ c.state = "CERTIFICATE_VERIFY" => Len(c.tr) = HelloPlace + 3 + Asked
        /\ c.state = "SERVER_FINISHED" => Len(c.tr) = FlightEnd - 1
        /\ c.state \in {"CERTIFICATE_REQUEST", "SERVER_CERTIFICATE", "CERTIFICATE_VERIFY"} =>
               s.mode \notin PskModes
        /\ s.certificate_request_sent \in BOOLEAN
    BY DEF FlowInv, Places, ClientPlace, ValuesAreKnown
  <2>4. r.msg.t \in ClientWaits[c.state] /\ r.msg.t # "server_hello"
    <3>1. CASE c.state = "ENCRYPTED_EXTENSIONS"
      <4>1. Len(c.tr) + 1 = HelloPlace + 2
        BY <1>3, <2>3, <3>1
      <4>2. MessageIsRight(HelloPlace + 2, r.msg)
        BY <2>2, <4>1
      <4>3. r.msg.t = "encrypted_extensions"
        BY <4>2 DEF MessageIsRight
      <4> QED
        BY <3>1, <4>3 DEF ClientWaits
    <3>2. CASE c.state = "CERTIFICATE_REQUEST"
      <4>1. Len(c.tr) + 1 = HelloPlace + 3
        BY <1>3, <2>3, <3>2
      <4>2. MessageIsRight(HelloPlace + 3, r.msg)
        BY <2>2, <4>1
      <4>3. s.certificate_request_sent => r.msg.t = "certificate_request"
        BY <2>3, <3>2, <4>2 DEF MessageIsRight
      <4>4. ~s.certificate_request_sent => HelloPlace + 3 = HelloPlace + 3 + Asked
        BY <1>3 DEF Asked
      <4>5. ~s.certificate_request_sent => r.msg.t = "certificate"
        BY <2>3, <3>2, <4>2, <4>4 DEF MessageIsRight
      <4> QED
        BY <3>2, <4>3, <4>5 DEF ClientWaits
    <3>3. CASE c.state = "SERVER_CERTIFICATE"
      <4>1. Len(c.tr) + 1 = HelloPlace + 3 + Asked
        BY <1>3, <2>3, <3>3
      <4>2. MessageIsRight(HelloPlace + 3 + Asked, r.msg)
        BY <2>2, <4>1
      <4>3. r.msg.t = "certificate"
        BY <2>3, <3>3, <4>2 DEF MessageIsRight
      <4> QED
        BY <3>3, <4>3 DEF ClientWaits
    <3>4. CASE c.state = "CERTIFICATE_VERIFY"
      <4>1. Len(c.tr) + 1 = HelloPlace + 4 + Asked
        BY <1>3, <2>3, <3>4
      <4>2. MessageIsRight(HelloPlace + 4 + Asked, r.msg)
        BY <2>2, <4>1
      <4>3. r.msg.t = "certificate_verify"
        BY <2>3, <3>4, <4>2 DEF MessageIsRight
      <4> QED
        BY <3>4, <4>3 DEF ClientWaits
    <3>5. CASE c.state = "SERVER_FINISHED"
      <4>1. Len(c.tr) + 1 = FlightEnd
        BY <1>3, <2>3, <3>5
      <4>2. MessageIsRight(FlightEnd, r.msg)
        BY <2>2, <4>1
      <4>3. r.msg.t = "finished"
        BY <4>2 DEF MessageIsRight
      <4> QED
        BY <3>5, <4>3 DEF ClientWaits
    <3> QED
      BY <1>6, <3>1, <3>2, <3>3, <3>4, <3>5 DEF ClientKeyed
  <2>5. r.key = s.handshake_key
    BY <1>1, <2>4 DEF ServerRecordHasKey, Carries
  <2>6. c.tin = c.handshake_key
    BY <1>6 DEF TlsInv, ClientSide, ClientInFirstFlight
  <2>7. \/ c.handshake_key = s.handshake_key
        \/ SecondPskAfterEarlyData /\ c.state = "ENCRYPTED_EXTENSIONS"
    BY <1>6 DEF FlowInv, ClientParameters
  <2> QED
    BY <2>4, <2>5, <2>6, <2>7 DEF r
<1> QED
  BY <1>2, <1>4, <1>5, <1>6

\* The record a client finds is what it waits for, under the key it reads with; it
\* is padding; or it is a ticket after the handshake.
LEMMA ClientMeetsNoStranger ==
    ASSUME TlsInv, EarlyInv, FlowInv, ClientReads1
    PROVE  LET r == ToClient[1]
           IN  \/ IsHs(r) /\ r.msg.t \in ClientWaits[c.state]
                  /\ \/ r.key = c.tin
                     \/ SecondPskAfterEarlyData /\ c.state = "ENCRYPTED_EXTENSIONS"
               \/ ~IsHs(r) /\ r.type = "change_cipher_spec" /\ r.key = NoKey
               \/ /\ Carries(r, "new_session_ticket") /\ c.state = "HANDSHAKE_OVER"
                  /\ r.key = c.tin
<1> DEFINE r == ToClient[1]
<1>1. ServerRecordHasKey(r)
  BY HeadsHaveKeys DEF ClientReads1
<1>2. CASE IsHs(r)
  BY <1>2, ClientMeetsItsKey
<1>3. CASE Carries(r, "new_session_ticket")
  <2>1. s.state \in ServerTickets /\ r.key = s.application_key
    BY <1>1, <1>3 DEF ServerRecordHasKey
  <2>2. c.state \in ClientDone
    BY <2>1 DEF TlsInv, Joint, PeersAgree, ServerDone
  <2>3. c.state = "HANDSHAKE_OVER"
    BY <2>2 DEF ClientReads1, ClientWaits, ClientDone
  <2>4. c.application_key = s.application_key /\ c.tin = c.application_key
    BY <2>2, <2>3 DEF TlsInv, Joint, PeersAgree, ClientSide, ClientSecond
  <2> QED
    BY <1>3, <2>1, <2>3, <2>4
<1>4. CASE ~IsHs(r) /\ ~Carries(r, "new_session_ticket")
  BY <1>1, <1>4 DEF ServerRecordHasKey, IsHs, Carries
<1> QED
  BY <1>2, <1>3, <1>4

-----------------------------------------------------------------------------
(* Failures.                                                               *)

ExpectedOfClient(why) ==
    \/ why = "peer"
    \/ why = "peer certificate" /\ ~Satisfies(conf.s_cert, conf.c_authmode)
    \/ why = "bad mac" /\ SecondPskAfterEarlyData /\ c.state \in ClientKeyed

ExpectedOfServer(why) ==
    \/ why = "peer"
    \/ why = "peer certificate" /\ ~Satisfies(conf.c_cert, conf.s_authmode)
    \/ why = "own certificate" /\ conf.s_cert = "none"
    \/ why = "group" /\ ToSet(conf.c_groups) \cap conf.s_groups = {}
    \/ why = "key exchange" /\ "ephemeral" \notin conf.c_modes \cap conf.s_modes /\ SharedPsks = {}
    \/ why = "early data limit" /\ (~s.early_accepted \/ app.retried # {})

Expected(e, why) == IF e = "client" THEN ExpectedOfClient(why) ELSE ExpectedOfServer(why)

\* Only the configurations make an endpoint refuse a record.
LEMMA RefuseRecordIsExpected ==
    ASSUME TlsInv, EarlyInv, FlowInv, NEW e \in Endpoints, RefuseRecord(e)
    PROVE  /\ failed[e] = "no" /\ net[e] # <<>>
           /\ \E why : why # "no" /\ Refuses(e, why) /\ Expected(e, why)
<1> DEFINE r == Head(net[e])
           why == IF r.key = Context(e).tin THEN "unexpected message" ELSE "bad mac"
<1>1. /\ failed[e] = "no" /\ Context(e).state \in DOMAIN Waits(e) /\ net[e] # <<>>
      /\ ~IsCcs(r) /\ ~IsSkipped(e, r) /\ ~IsEarlyData(e, r) /\ ~IsExpected(e, r)
      /\ Refuses(e, why)
  BY DEF RefuseRecord, Reading
<1>2. QueuesAreSeqs /\ Consume(e) /\ out' = out
  BY <1>1 DEF Refuses, GivesUp, TlsInv
<1>3. CASE e = "client"
  <2>1. ToClient # <<>> /\ ToClient[1] = r
    BY <1>1, <1>2, <1>3, ClientConsumes
  <2>2. ClientReads1 /\ Context(e) = c /\ Waits(e) = ClientWaits
    BY <1>1, <1>3, <2>1 DEF ClientReads1, Context, Waits
  <2>3. CASE IsHs(r) /\ r.key # c.tin /\ SecondPskAfterEarlyData /\ c.state = "ENCRYPTED_EXTENSIONS"
    BY <1>1, <1>3, <2>2, <2>3 DEF Expected, ExpectedOfClient, ClientKeyed
  <2>4. CASE IsHs(r) /\ r.msg.t \in ClientWaits[c.state] /\ r.key = c.tin
    BY <1>1, <1>3, <2>2, <2>4 DEF IsExpected, IsHs
  <2>5. CASE r.type = "change_cipher_spec" /\ r.key = NoKey
    BY <1>1, <2>5 DEF IsCcs, OuterType
  <2>6. CASE Carries(r, "new_session_ticket") /\ c.state = "HANDSHAKE_OVER" /\ r.key = c.tin
    <3>1. "new_session_ticket" \in ClientWaits["HANDSHAKE_OVER"]
      BY DEF ClientWaits
    <3> QED
      BY <1>1, <1>3, <2>2, <2>6, <3>1 DEF IsExpected, Carries
  <2> QED
    BY <2>1, <2>2, <2>3, <2>4, <2>5, <2>6, ClientMeetsNoStranger
<1>4. CASE e = "server"
  <2>1. ToServer # <<>> /\ ToServer[1] = r
    BY <1>1, <1>2, <1>4, ServerConsumes
  <2>2. ServerReads1 /\ Context(e) = s /\ Waits(e) = ServerWaits
    BY <1>1, <1>4, <2>1 DEF ServerReads1, Context, Waits
  <2>3. CASE IsHs(r) /\ r.key = s.tin /\ r.msg.t \in ServerWaits[s.state]
    BY <1>1, <1>4, <2>2, <2>3 DEF IsExpected, IsHs
  <2>4. CASE r.type = "change_cipher_spec" /\ r.key = NoKey
    BY <1>1, <2>4 DEF IsCcs, OuterType
  <2> QED
    BY <1>1, <1>4, <2>1, <2>2, <2>3, <2>4, ServerMeetsNoStranger
<1> QED
  BY <1>3, <1>4 DEF Endpoints

\* The items on their way are within what was written, and the limit.
LEMMA NextItemFits ==
    ASSUME TlsInv, EarlyInv, FlowInv, ToServer # <<>>, IsItem(ToServer[1]), s.early_accepted,
           app.retried = {}
    PROVE  /\ Len(app.received) + 1 <= ToServer[1].item
           /\ FitsEarlyLimit(1)
<1> DEFINE n == Len(app.received)
           a == ToServer[1].item
<1>1. IsSeq(app.received) /\ n \in Nat /\ 1 \in 1 .. Len(ToServer)
  BY QueuesAre, TailIs DEF EarlyInv, ItemsAreNumbers, IsSeq, TlsInv
<1>2. /\ app.next \in Nat \ {0} /\ s.total = n /\ s.limit = MaxEarly
      /\ app.next - 1 <= MaxEarly /\ MaxEarly \in Nat
      /\ \A i \in 1 .. n : i <= app.received[i]
  BY BoundsAreNatural DEF EarlyInv, ItemsAreNumbers, FlowInv, EarlyIsCounted, ServerParameters
<1>3. a \in 1 .. app.next - 1
  BY <1>1 DEF EarlyInv, ItemsAreWritten, Written
<1>4. \A i \in 1 .. n : app.received[i] < a
  BY <1>1 DEF EarlyInv, ItemsAreOrdered, NotAfter
<1>5. \A i \in 1 .. n : app.received[i] \in 1 .. app.next - 1
  BY DEF EarlyInv, ItemsAreWritten, Written
<1> HIDE DEF a, n
<1>6. n + 1 <= a
  <2>1. CASE n = 0
    BY <1>1, <1>2, <1>3, <2>1
  <2>2. CASE n # 0
    <3>1. n \in 1 .. n
      BY <1>1, <2>2
    <3>2. n <= app.received[n] /\ app.received[n] < a /\ app.received[n] \in 1 .. app.next - 1
      BY <1>2, <1>4, <1>5, <3>1
    <3> QED
      BY <1>1, <1>2, <1>3, <3>2
  <2> QED
    BY <2>1, <2>2
<1>7. 1 <= s.limit - s.total
  BY <1>1, <1>2, <1>3, <1>6
<1> QED
  BY <1>6, <1>7 DEF FitsEarlyLimit, a, n

\* What the server skips is early data it rejected.
LEMMA SkipEarlyDataDoes ==
    ASSUME TlsInv, EarlyInv, FlowInv, SkipEarlyData
    PROVE  /\ failed.server = "no" /\ net.server # <<>> /\ ToServer # <<>>
           /\ ~IsHs(ToServer[1]) /\ IsEarlyRecord(ToServer[1]) /\ ~s.early_accepted
           /\ \/ /\ ServerIsAlone /\ ServerChanges({"total"}) /\ ~HelloUnread
                 /\ ToServer' = Tail(ToServer) /\ ToClient' = ToClient
              \/ Refuses("server", "early data limit")
<1> DEFINE r == Head(net.server)
<1>1. /\ failed.server = "no" /\ s.state \in DOMAIN ServerWaits /\ net.server # <<>>
      /\ IsSkipped("server", r) /\ QueuesAreSeqs /\ DOMAIN s = ServerFields
  BY DEF SkipEarlyData, Reading, Context, Waits, TlsInv, ServerSide
<1>2. \/ Refuses("server", "early data limit")
      \/ /\ s' = [s EXCEPT !.total = @ + (1 + Overhead)] /\ Consume("server")
         /\ UNCHANGED <<conf, c, out, app, failed>>
  BY DEF SkipEarlyData
<1>3. /\ ToServer # <<>> /\ ToServer[1] = r
      /\ ToServer' = Tail(ToServer) /\ ToClient' = ToClient
  BY <1>1, <1>2, ServerConsumes DEF Refuses, GivesUp
<1>4. ~s.early_accepted /\ ~HelloUnread
  BY <1>1 DEF IsSkipped, EarlyInv, AcceptanceIsRight, HelloUnread
<1>5. ~IsHs(r) /\ IsEarlyRecord(r)
  <2>1. r.key # NoKey \/ r.type = "application_data"
    BY <1>1 DEF IsSkipped, OuterType
  <2>2. ClientRecordHasKey(r)
    BY <1>3, HeadsHaveKeys
  <2>3. ServerReads1
    BY <1>1, <1>3 DEF ServerReads1
  <2>4. ~(IsHs(r) /\ r.key = s.tin)
    <3>1. IsHs(r) /\ s.tin = NoKey => r.key # s.tin
      BY <2>1 DEF IsHs
    <3> QED
      BY <1>1, <3>1 DEF IsSkipped
  <2> QED
    BY <1>3, <2>1, <2>2, <2>3, <2>4, ServerMeetsNoStranger
<1>6. ServerChanges({"total"}) \/ Refuses("server", "early data limit")
  BY <1>1, <1>2 DEF ServerChanges, ServerFields
<1> QED
  BY <1>1, <1>2, <1>3, <1>4, <1>5, <1>6 DEF ServerIsAlone

\* What the server reads is early data it accepted.
LEMMA ReadEarlyDataDoes ==
    ASSUME TlsInv, EarlyInv, FlowInv, ReadEarlyData
    PROVE  LET r == ToServer[1]
           IN  /\ failed.server = "no" /\ net.server # <<>> /\ ToServer # <<>>
               /\ ~IsHs(r) /\ IsItem(r) /\ s.early_accepted /\ s.state = "END_OF_EARLY_DATA"
               /\ \/ /\ UNCHANGED <<conf, c, failed>> /\ ServerChanges({"total"})
                     /\ s'.total = s.total + 1
                     /\ app' = [app EXCEPT !.received = Append(@, r.item)]
                     /\ ToServer' = Tail(ToServer) /\ ToClient' = ToClient
                  \/ Refuses("server", "early data limit") /\ app.retried # {}
<1> DEFINE r == Head(net.server)
<1>1. /\ failed.server = "no" /\ net.server # <<>>
      /\ IsEarlyData("server", r) /\ QueuesAreSeqs /\ DOMAIN s = ServerFields
  BY DEF ReadEarlyData, Reading, TlsInv, ServerSide
<1>2. \/ Refuses("server", "early data limit") /\ ~FitsEarlyLimit(1)
      \/ /\ s' = [s EXCEPT !.total = @ + 1] /\ Consume("server")
         /\ app' = [app EXCEPT !.received = Append(@, r.item)]
         /\ UNCHANGED <<conf, c, out, failed>>
  BY DEF ReadEarlyData
<1>3. /\ ToServer # <<>> /\ ToServer[1] = r
      /\ ToServer' = Tail(ToServer) /\ ToClient' = ToClient
  BY <1>1, <1>2, ServerConsumes DEF Refuses, GivesUp
<1>4. ~IsHs(r) /\ IsItem(r) /\ s.state = "END_OF_EARLY_DATA" /\ s.early_accepted
  BY <1>1 DEF IsEarlyData, IsHs, IsItem, EarlyInv, AcceptanceIsRight
<1>5. app.retried = {} => FitsEarlyLimit(1)
  BY <1>3, <1>4, NextItemFits
<1>6. s' = [s EXCEPT !.total = @ + 1] => ServerChanges({"total"}) /\ s'.total = s.total + 1
  BY <1>1 DEF ServerChanges, ServerFields
<1> HIDE DEF r
<1> QED
  BY <1>1, <1>2, <1>3, <1>4, <1>5, <1>6

\* An endpoint drops padding, which is never encrypted.
LEMMA DropCcsDoes ==
    ASSUME TlsInv, NEW e \in Endpoints, DropCcs(e)
    PROVE  /\ failed[e] = "no" /\ UNCHANGED <<conf, c, s, app, failed>>
           /\ e = "client" => /\ ToClient # <<>> /\ ~IsHs(ToClient[1]) /\ ToClient[1].key = NoKey
                              /\ ToClient' = Tail(ToClient) /\ ToServer' = ToServer
           /\ e = "server" => /\ ToServer # <<>> /\ ~IsHs(ToServer[1]) /\ ToServer[1].key = NoKey
                              /\ ToServer' = Tail(ToServer) /\ ToClient' = ToClient
<1>1. /\ failed[e] = "no" /\ net[e] # <<>> /\ IsCcs(Head(net[e])) /\ Consume(e)
      /\ UNCHANGED <<conf, c, s, out, app, failed>> /\ QueuesAreSeqs
  BY DEF DropCcs, Reading, TlsInv
<1>2. ~IsHs(Head(net[e])) /\ Head(net[e]).key = NoKey
  BY <1>1 DEF IsCcs, OuterType, IsHs
<1> QED
  BY <1>1, <1>2, ClientConsumes, ServerConsumes

-----------------------------------------------------------------------------
(* The streams, step by step.                                              *)

\* A client that is not about to read has heard everything.
LEMMA ClientHasHeardAll ==
    ASSUME TlsInv, FlowInv, c.state \notin ClientListens
    PROVE  ~HashedAlone /\ Heard = c.tr /\ Len(s.tr) <= Len(Heard)
<1>1. ~(Len(Heard) < Len(s.tr))
  BY DEF FlowInv, Places, Turns
<1>2. Len(Heard) \in Nat /\ Len(s.tr) \in Nat
  BY TranscriptsAre
<1>3. ~HashedAlone
  <2>1. HashedAlone => Len(s.tr) = 2 /\ Len(Heard) = 1
    BY TranscriptsAre DEF FlowInv, Places, Turns
  <2>2. ~(Len(s.tr) = 2 /\ Len(Heard) = 1)
    <3> SUFFICES ASSUME Len(s.tr) = 2, Len(Heard) = 1 PROVE Len(Heard) < Len(s.tr)
      BY <1>1
    <3> HIDE DEF Heard
    <3> QED
      OBVIOUS
  <2> QED
    BY <2>1, <2>2
<1>4. Len(s.tr) <= Len(Heard)
  BY <1>1, <1>2
<1> QED
  BY <1>3, <1>4, TranscriptsAre

\* Neither has a server.
LEMMA ServerHasHeardAll ==
    ASSUME TlsInv, FlowInv, s.state \notin ServerListens
    PROVE  Len(Heard) <= Len(s.tr)
BY TranscriptsAre DEF FlowInv, Places, Turns

\* The queue to an endpoint that has hashed everything holds no message.
LEMMA QueuesAreIdle ==
    ASSUME TlsInv, FlowInv
    PROVE  /\ failed.client = "no" /\ Len(s.tr) <= Len(Heard) => NoHs(ToClient)
           /\ failed.server = "no" /\ Len(Heard) <= Len(s.tr) => NoHs(ToServer)
<1>1. /\ IsSeq(ToClient) /\ IsSeq(ToServer) /\ IsSeq(Heard) /\ IsSeq(s.tr)
      /\ Len(Heard) \in Nat /\ Len(s.tr) \in Nat
  BY TranscriptsAre, QueuesAre DEF TlsInv
<1>2. /\ failed.client = "no" => Stream(ToClient, Len(Heard), s.tr)
      /\ failed.server = "no" => Stream(ToServer, Len(s.tr), Heard)
  BY DEF FlowInv, Streams
<1> QED
  BY <1>1, <1>2, StreamIdle

Said(m) == Heard' = Append(Heard, m) /\ s'.tr = s.tr
Answered(m) == s'.tr = Append(s.tr, m) /\ Heard' = Heard

\* What the client says goes to the end of its stream.
LEMMA ClientSaysStreams ==
    ASSUME TlsInv, FlowInv, c.state \notin ClientListens, NEW m, m.t # "new_session_ticket",
           NEW key, ClientSays(m, key), c'.hrr = c.hrr, s' = s, failed' = failed
    PROVE  Streams' /\ TranscriptsAgree' /\ Said(m)
<1>1. /\ ~HashedAlone /\ Heard = c.tr /\ Len(s.tr) <= Len(Heard)
      /\ IsSeq(ToClient) /\ IsSeq(ToServer) /\ IsSeq(Heard) /\ IsSeq(s.tr)
      /\ Len(Heard) \in Nat /\ Len(s.tr) \in Nat
  BY ClientHasHeardAll, TranscriptsAre, QueuesAre DEF TlsInv
<1>2. PICK r : IsMessage(r, m, key, c.tr) /\ ToServer' = Append(ToServer, r)
  BY DEF ClientSays
<1>3. Heard' = Append(Heard, m) /\ ToClient' = ToClient
  BY <1>1 DEF ClientSays, HashedAlone, Heard
<1>4. IsHs(r) /\ r.msg = m /\ (r.msg.t \in Bound => r.over = Heard)
  BY <1>1, <1>2 DEF IsMessage, IsHs
<1>5. ASSUME failed.server = "no" PROVE Stream(ToServer', Len(s.tr), Heard')
  <2>1. Stream(ToServer, Len(s.tr), Heard)
    BY <1>5 DEF FlowInv, Streams
  <2>2. Stream(Append(ToServer, r), Len(s.tr), Append(Heard, r.msg))
    BY <1>1, <1>4, <2>1, StreamSays
  <2> QED
    BY <1>2, <1>3, <1>4, <2>2
<1>6. Len(Heard') = Len(Heard) + 1 /\ \A i \in 1 .. Len(Heard) : Heard'[i] = Heard[i]
  BY <1>1, <1>3, AppendIs
<1>7. ASSUME failed.client = "no" PROVE Stream(ToClient', Len(Heard'), s.tr)
  <2>1. NoHs(ToClient)
    BY <1>1, <1>7, QueuesAreIdle
  <2>2. Len(Heard) + 1 \in Nat /\ Len(s.tr) <= Len(Heard) + 1
    BY <1>1
  <2> QED
    BY <1>1, <1>3, <1>6, <2>1, <2>2, IdleStream
<1>8. Streams'
  BY <1>5, <1>7 DEF Streams
<1>9. TranscriptsAgree'
  <2> SUFFICES ASSUME NEW i \in 1 .. Len(Heard'), i <= Len(s.tr) PROVE Heard'[i] = s.tr[i]
    BY DEF TranscriptsAgree
  <2>1. i \in 1 .. Len(Heard)
    BY <1>1, <1>6
  <2> QED
    BY <1>6, <2>1 DEF FlowInv, TranscriptsAgree
<1> QED
  BY <1>3, <1>8, <1>9 DEF Said

\* What the client hears is the next place of the server's transcript.
LEMMA ClientHearsStreams ==
    ASSUME TlsInv, FlowInv, failed.client = "no", ClientHears(Heard), Heard' = c'.tr,
           s' = s, failed' = failed
    PROVE  LET m == ToClient[1].msg
           IN  /\ Streams' /\ TranscriptsAgree' /\ Said(m)
               /\ Len(Heard) + 1 <= Len(s.tr) /\ m = s.tr[Len(Heard) + 1]
<1> DEFINE r == ToClient[1]
           m == ToClient[1].msg
<1>1. /\ IsSeq(ToClient) /\ IsSeq(ToServer) /\ IsSeq(Heard) /\ IsSeq(s.tr)
      /\ Len(Heard) \in Nat /\ Len(s.tr) \in Nat
  BY TranscriptsAre, QueuesAre DEF TlsInv
<1>2. /\ ToClient # <<>> /\ IsHs(r) /\ ToClient' = Tail(ToClient) /\ ToServer' = ToServer
      /\ Heard' = Append(Heard, m)
  BY DEF ClientHears
<1>3. Len(Heard) + 1 \in 1 .. Len(s.tr) /\ m = s.tr[Len(Heard) + 1]
  BY <1>2, ClientReadsNext
<1>4. Len(Heard') = Len(Heard) + 1 /\ Heard'[Len(Heard) + 1] = m
      /\ IsSeq(Heard') /\ \A i \in 1 .. Len(Heard) : Heard'[i] = Heard[i]
  BY <1>1, <1>2, AppendIs
<1> HIDE DEF m
<1>5. Stream(ToClient', Len(Heard'), s.tr)
  <2>1. Stream(ToClient, Len(Heard), s.tr)
    BY DEF FlowInv, Streams
  <2>2. Stream(Tail(ToClient), Len(Heard) + 1, s.tr)
    BY <1>1, <1>2, <2>1, StreamIsRead
  <2> QED
    BY <1>2, <1>4, <2>2
<1>6. ASSUME failed.server = "no" PROVE Stream(ToServer', Len(s.tr), Heard')
  <2>1. NoHs(ToServer)
    BY <1>1, <1>3, <1>6, QueuesAreIdle
  <2>2. Len(Heard') <= Len(s.tr)
    BY <1>1, <1>3, <1>4
  <2> QED
    BY <1>1, <1>2, <1>4, <2>1, <2>2, IdleStream
<1>7. Streams'
  BY <1>5, <1>6 DEF Streams
<1>8. TranscriptsAgree'
  <2> SUFFICES ASSUME NEW i \in 1 .. Len(Heard'), i <= Len(s.tr) PROVE Heard'[i] = s.tr[i]
    BY DEF TranscriptsAgree
  <2>1. CASE i \in 1 .. Len(Heard)
    BY <1>4, <2>1 DEF FlowInv, TranscriptsAgree
  <2>2. CASE i = Len(Heard) + 1
    BY <1>3, <1>4, <2>2
  <2> QED
    BY <1>1, <1>4, <2>1, <2>2
<1> QED
  BY <1>1, <1>2, <1>3, <1>7, <1>8 DEF Said, m

\* What the server says goes to the end of its stream.
LEMMA ServerSaysStreams ==
    ASSUME TlsInv, FlowInv, s.state \notin ServerListens, NEW m, m.t # "new_session_ticket",
           NEW key, ServerSays(m, key), Heard' = Heard, failed' = failed
    PROVE  Streams' /\ TranscriptsAgree' /\ Answered(m)
<1>1. /\ Len(Heard) <= Len(s.tr)
      /\ IsSeq(ToClient) /\ IsSeq(ToServer) /\ IsSeq(Heard) /\ IsSeq(s.tr)
      /\ Len(Heard) \in Nat /\ Len(s.tr) \in Nat
  BY ServerHasHeardAll, TranscriptsAre, QueuesAre DEF TlsInv
<1>2. PICK r : IsMessage(r, m, key, s.tr) /\ ToClient' = Append(ToClient, r)
  BY DEF ServerSays
<1>3. s'.tr = Append(s.tr, m) /\ ToServer' = ToServer
  BY DEF ServerSays
<1>4. IsHs(r) /\ r.msg = m /\ (r.msg.t \in Bound => r.over = s.tr)
  BY <1>2 DEF IsMessage, IsHs
<1>5. ASSUME failed.client = "no" PROVE Stream(ToClient', Len(Heard), s'.tr)
  <2>1. Stream(ToClient, Len(Heard), s.tr)
    BY <1>5 DEF FlowInv, Streams
  <2>2. Stream(Append(ToClient, r), Len(Heard), Append(s.tr, r.msg))
    BY <1>1, <1>4, <2>1, StreamSays
  <2> QED
    BY <1>2, <1>3, <1>4, <2>2
<1>6. Len(s'.tr) = Len(s.tr) + 1 /\ \A i \in 1 .. Len(s.tr) : s'.tr[i] = s.tr[i]
  BY <1>1, <1>3, AppendIs
<1>7. ASSUME failed.server = "no" PROVE Stream(ToServer', Len(s'.tr), Heard)
  <2>1. NoHs(ToServer)
    BY <1>1, <1>7, QueuesAreIdle
  <2>2. Len(s.tr) + 1 \in Nat /\ Len(Heard) <= Len(s.tr) + 1
    BY <1>1
  <2> QED
    BY <1>1, <1>3, <1>6, <2>1, <2>2, IdleStream
<1>8. Streams'
  BY <1>5, <1>7 DEF Streams
<1>9. TranscriptsAgree'
  <2> SUFFICES ASSUME NEW i \in 1 .. Len(Heard), i <= Len(s'.tr) PROVE Heard[i] = s'.tr[i]
    BY DEF TranscriptsAgree
  <2>1. i \in 1 .. Len(s.tr)
    BY <1>1, <1>6
  <2>2. i <= Len(s.tr)
    BY <2>1
  <2> QED
    BY <1>6, <2>1, <2>2 DEF FlowInv, TranscriptsAgree
<1> QED
  BY <1>3, <1>8, <1>9 DEF Answered

\* What the server hears is the next place of the client's transcript.
LEMMA ServerHearsStreams ==
    ASSUME TlsInv, FlowInv, failed.server = "no", ServerHears, Heard' = Heard, failed' = failed
    PROVE  LET m == ToServer[1].msg
           IN  /\ Streams' /\ TranscriptsAgree' /\ Answered(m)
               /\ Len(s.tr) + 1 <= Len(Heard) /\ m = Heard[Len(s.tr) + 1]
<1> DEFINE r == ToServer[1]
           m == ToServer[1].msg
<1>1. /\ IsSeq(ToClient) /\ IsSeq(ToServer) /\ IsSeq(Heard) /\ IsSeq(s.tr)
      /\ Len(Heard) \in Nat /\ Len(s.tr) \in Nat
  BY TranscriptsAre, QueuesAre DEF TlsInv
<1>2. /\ ToServer # <<>> /\ IsHs(r) /\ ToServer' = Tail(ToServer) /\ ToClient' = ToClient
      /\ s'.tr = Append(s.tr, m)
  BY DEF ServerHears
<1>3. Len(s.tr) + 1 \in 1 .. Len(Heard) /\ m = Heard[Len(s.tr) + 1]
  BY <1>2, ServerReadsNext
<1>4. Len(s'.tr) = Len(s.tr) + 1 /\ s'.tr[Len(s.tr) + 1] = m
      /\ IsSeq(s'.tr) /\ \A i \in 1 .. Len(s.tr) : s'.tr[i] = s.tr[i]
  BY <1>1, <1>2, AppendIs
<1> HIDE DEF m
<1>5. Stream(ToServer', Len(s'.tr), Heard)
  <2>1. Stream(ToServer, Len(s.tr), Heard)
    BY DEF FlowInv, Streams
  <2>2. Stream(Tail(ToServer), Len(s.tr) + 1, Heard)
    BY <1>1, <1>2, <2>1, StreamIsRead
  <2> QED
    BY <1>2, <1>4, <2>2
<1>6. ASSUME failed.client = "no" PROVE Stream(ToClient', Len(Heard), s'.tr)
  <2>1. NoHs(ToClient)
    BY <1>1, <1>3, <1>6, QueuesAreIdle
  <2>2. Len(s'.tr) <= Len(Heard)
    BY <1>1, <1>3, <1>4
  <2> QED
    BY <1>1, <1>2, <1>4, <2>1, <2>2, IdleStream
<1>7. Streams'
  BY <1>5, <1>6 DEF Streams
<1>8. TranscriptsAgree'
  <2> SUFFICES ASSUME NEW i \in 1 .. Len(Heard), i <= Len(s'.tr) PROVE Heard[i] = s'.tr[i]
    BY DEF TranscriptsAgree
  <2>1. CASE i <= Len(s.tr)
    BY <1>1, <1>4, <2>1 DEF FlowInv, TranscriptsAgree
  <2>2. CASE i = Len(s.tr) + 1
    BY <1>3, <1>4, <2>2
  <2> QED
    BY <1>1, <1>4, <2>1, <2>2
<1> QED
  BY <1>1, <1>2, <1>3, <1>7, <1>8 DEF Answered, m

\* The queues where no message is written or read.
PadsClient ==
    \/ ToClient' = ToClient
    \/ \E r : ~IsHs(r) /\ ToClient' = Append(ToClient, r)
    \/ ToClient # <<>> /\ ~IsHs(ToClient[1]) /\ ToClient' = Tail(ToClient)

PadsServer ==
    \/ ToServer' = ToServer
    \/ \E r : ~IsHs(r) /\ ToServer' = Append(ToServer, r)
    \/ ToServer # <<>> /\ ~IsHs(ToServer[1]) /\ ToServer' = Tail(ToServer)

\* Records that are no messages come and go without a trace in a stream.
LEMMA StreamStays ==
    ASSUME NEW q, IsSeq(q), NEW n \in Nat, NEW t, IsSeq(t), Stream(q, n, t), NEW w,
           \/ w = q
           \/ \E r : ~IsHs(r) /\ w = Append(q, r)
           \/ q # <<>> /\ ~IsHs(q[1]) /\ w = Tail(q)
    PROVE  Stream(w, n, t)
BY StreamPads, StreamIsRead

\* The streams survive a step that hashes nothing.
LEMMA PaddedStreams ==
    ASSUME TlsInv, FlowInv, Heard' = Heard, s'.tr = s.tr,
           failed'.client = "no" => failed.client = "no" /\ PadsClient,
           failed'.server = "no" => failed.server = "no" /\ PadsServer
    PROVE  Streams' /\ TranscriptsAgree'
<1>1. /\ IsSeq(ToClient) /\ IsSeq(ToServer) /\ IsSeq(Heard) /\ IsSeq(s.tr)
      /\ Len(Heard) \in Nat /\ Len(s.tr) \in Nat
  BY TranscriptsAre, QueuesAre DEF TlsInv
<1>2. /\ failed.client = "no" => Stream(ToClient, Len(Heard), s.tr)
      /\ failed.server = "no" => Stream(ToServer, Len(s.tr), Heard)
      /\ TranscriptsAgree
  BY DEF FlowInv, Streams
<1>3. ASSUME failed'.client = "no" PROVE Stream(ToClient', Len(Heard), s.tr)
  BY <1>1, <1>2, <1>3, StreamStays DEF PadsClient
<1>4. ASSUME failed'.server = "no" PROVE Stream(ToServer', Len(s.tr), Heard)
  BY <1>1, <1>2, <1>4, StreamStays DEF PadsServer
<1> QED
  BY <1>2, <1>3, <1>4 DEF Streams, TranscriptsAgree

\* What is a number between 1 and 1 is 1.
LEMMA OneIs ==
    ASSUME NEW n, n \in Nat, n <= 1, n >= 1
    PROVE  n = 1
OBVIOUS

\* A transcript with one message, and another.
LEMMA TwoAre ==
    ASSUME NEW t, IsSeq(t), Len(t) = 1, NEW m
    PROVE  Len(Append(t, m)) = 2 /\ Append(t, m)[1] = t[1] /\ Append(t, m)[2] = m
<1>1. /\ Len(Append(t, m)) = Len(t) + 1 /\ Append(t, m)[Len(t) + 1] = m
      /\ \A i \in 1 .. Len(t) : Append(t, m)[i] = t[i]
  BY AppendIs, ZenonT(40)
<1> QED
  BY <1>1

\* The stream of a transcript that restarts with one message.
LEMMA StreamRestarts ==
    ASSUME NEW q, IsSeq(q), NoHs(q), NEW t, IsSeq(t), Len(t) = 1,
           NEW r, IsHs(r), r.msg.t \in Bound => r.over = t
    PROVE  Stream(Append(q, r), 1, Append(t, r.msg)) /\ Stream(q, 2, t)
<1>1. 1 \in Nat /\ 2 \in Nat /\ 1 <= Len(t) /\ Len(t) <= 1 /\ Len(t) <= 2
  OBVIOUS
<1>2. Stream(q, 1, t) /\ Stream(q, 2, t)
  BY <1>1, IdleStream
<1> QED
  BY <1>1, <1>2, StreamSays

\* The transcripts restart with the hash of the first ClientHello.
LEMMA RetryStreams ==
    ASSUME TlsInv, EarlyInv, FlowInv, s.state = "HELLO_RETRY_REQUEST",
           NEW m, m.t = "server_hello", s'.tr = Append(TranscriptForHrr(s.tr), m),
           ToServer' = ToServer, s'.hrr = TRUE, c' = c, failed' = failed,
           \E r : IsMessage(r, m, NoKey, TranscriptForHrr(s.tr)) /\ ToClient' = Append(ToClient, r)
    PROVE  /\ Streams' /\ TranscriptsAgree'
           /\ ~c.hrr /\ ~s.hrr /\ Len(c.tr) = 1 /\ Len(s.tr) = 1 /\ c.tr = s.tr
           /\ Heard = c.tr /\ Heard' = TranscriptForHrr(s.tr) /\ Len(Heard') = 1 /\ HashedAlone'
           /\ Len(s'.tr) = 2 /\ s'.tr[2] = m
           /\ c.state \in {"CLIENT_CCS_AFTER_CLIENT_HELLO", "SERVER_HELLO"}
<1> DEFINE tr == TranscriptForHrr(s.tr)
<1>1. /\ IsSeq(ToClient) /\ IsSeq(ToServer) /\ IsSeq(c.tr) /\ IsSeq(s.tr)
      /\ Len(c.tr) \in Nat /\ Len(s.tr) \in Nat
  BY TranscriptsAre, QueuesAre DEF TlsInv
<1>2. IsSeq(tr) /\ Len(tr) = 1
  BY SingleIs DEF TranscriptForHrr
<1>3. ~s.hrr /\ ~c.hrr /\ Len(s.tr) = 1
  BY DEF FlowInv, Places, ServerPlace, ClientPlace, HelloPlace
<1>4. Heard = c.tr /\ Len(c.tr) <= 1
  <2>1. Heard = c.tr
    BY <1>3, TranscriptsAre DEF HashedAlone
  <2>2. Len(Heard) <= Len(s.tr)
    BY ServerHasHeardAll DEF ServerListens
  <2> QED
    BY <1>3, <2>1, <2>2
<1>5. Len(c.tr) = 1 /\ c.state \in {"CLIENT_CCS_AFTER_CLIENT_HELLO", "SERVER_HELLO"}
  <2>1. c.state \notin ClientKeyed \cup ClientSecond
    BY DEF FlowInv, Places, Turns, TlsInv, Joint, PeersAgree, ServerKeyed, ServerSecond, ServerDone,
       ServerTickets
  <2>2. c.state \in ClientBegins
    BY <2>1 DEF FlowInv, ValuesAreKnown
  <2>3. c.state \notin {"HELLO_REQUEST", "CLIENT_HELLO"}
    <3> SUFFICES ASSUME c.state \in {"HELLO_REQUEST", "CLIENT_HELLO"} PROVE FALSE
      OBVIOUS
    <3>1. Len(c.tr) = 0
      BY <1>3 DEF FlowInv, Places, ClientPlace
    <3>2. Len(Heard) < Len(s.tr)
      BY <1>3, <1>4, <3>1
    <3> QED
      BY <3>2 DEF FlowInv, Places, Turns, ClientListens, ClientKeyed
  <2>4. c.state \in {"CLIENT_CCS_AFTER_CLIENT_HELLO", "SERVER_HELLO"}
    BY <1>3, <2>2, <2>3 DEF ClientBegins, FlowInv, Places, ClientPlace
  <2>5. Len(c.tr) >= 1
    BY <2>3, HelloIsHashed
  <2>6. Len(c.tr) \in Nat /\ Len(c.tr) <= 1
    BY <1>1, <1>4
  <2> QED
    BY <2>4, <2>5, <2>6, OneIs
<1>6. c.tr = s.tr
  <2>1. \A i \in 1 .. Len(c.tr) : c.tr[i] = s.tr[i]
    BY <1>3, <1>4, <1>5 DEF FlowInv, TranscriptsAgree
  <2> QED
    BY <1>1, <1>3, <1>5, <2>1, SeqsAreEqual
<1>7. Heard' = tr /\ HashedAlone'
  BY <1>3, <1>6 DEF Heard, HashedAlone
<1>8. s'.tr = Append(tr, m) /\ Len(s'.tr) = 2 /\ s'.tr[2] = m /\ s'.tr[1] = tr[1]
  <2> HIDE DEF tr
  <2>1. s'.tr = Append(tr, m)
    BY DEF tr
  <2> QED
    BY <1>2, <2>1, TwoAre
<1>9. PICK r : IsMessage(r, m, NoKey, tr) /\ ToClient' = Append(ToClient, r)
  OBVIOUS
<1>10. IsHs(r) /\ r.msg = m /\ (r.msg.t \in Bound => r.over = tr)
  BY <1>9 DEF IsMessage, IsHs
<1> HIDE DEF tr
<1>11. ASSUME failed.client = "no" PROVE Stream(ToClient', 1, s'.tr)
  <2>1. NoHs(ToClient)
    BY <1>3, <1>4, <1>5, <1>11, QueuesAreIdle
  <2>2. Stream(Append(ToClient, r), 1, Append(tr, r.msg))
    BY <1>1, <1>2, <1>10, <2>1, StreamRestarts
  <2> QED
    BY <1>8, <1>9, <1>10, <2>2
<1>12. ASSUME failed.server = "no" PROVE Stream(ToServer', Len(s'.tr), tr)
  <2>1. NoHs(ToServer)
    BY <1>3, <1>4, <1>5, <1>12, QueuesAreIdle
  <2>2. Stream(ToServer, 2, tr)
    BY <1>1, <1>2, <1>10, <2>1, StreamRestarts
  <2> QED
    BY <1>8, <2>2
<1>13. Streams'
  BY <1>2, <1>7, <1>11, <1>12 DEF Streams
<1>14. TranscriptsAgree'
  <2> SUFFICES ASSUME NEW i \in 1 .. Len(tr) PROVE tr[i] = s'.tr[i]
    BY <1>7 DEF TranscriptsAgree
  <2>1. i = 1
    BY <1>2
  <2> QED
    BY <1>8, <2>1
<1> QED
  BY <1>2, <1>3, <1>4, <1>5, <1>6, <1>7, <1>8, <1>13, <1>14 DEF tr

-----------------------------------------------------------------------------
(* The messages are right.                                                 *)

TermsStay ==
    /\ conf' = conf /\ s'.hrr = s.hrr /\ s'.mode = s.mode /\ s'.share = s.share
    /\ s'.selected = s.selected /\ s'.early_accepted = s.early_accepted
    /\ s'.certificate_request_sent = s.certificate_request_sent

\* The places of the messages are fixed by what TermsStay names.
LEMMA PlacesStay ==
    ASSUME TermsStay
    PROVE  /\ HelloPlace' = HelloPlace /\ Asked' = Asked /\ FlightEnd' = FlightEnd
           /\ CertificateEnd' = CertificateEnd
BY DEF TermsStay, HelloPlace, Asked, FlightEnd, CertificateEnd

\* A right ClientHello or HelloRetryRequest stays right while the configuration and
\* the retry stay.
LEMMA HelloStaysRight ==
    ASSUME conf' = conf, s'.hrr = s.hrr, NEW m
    PROVE  (HelloIsRight(m) => HelloIsRight(m)') /\ (RetryIsRight(m) => RetryIsRight(m)')
BY DEF HelloIsRight, RetryIsRight, Ephemeral, ClientPsks, OffersEarlyData, TicketModes

\* A message that is right at its place stays right while the terms stay.
LEMMA MessageStaysRight ==
    ASSUME TermsStay, NEW i, NEW m, MessageIsRight(i, m)
    PROVE  MessageIsRight(i, m)'
<1>1. /\ HelloPlace' = HelloPlace /\ Asked' = Asked /\ FlightEnd' = FlightEnd
      /\ CertificateEnd' = CertificateEnd
  BY PlacesStay
<1>2. (HelloIsRight(m) => HelloIsRight(m)') /\ (RetryIsRight(m) => RetryIsRight(m)')
  BY HelloStaysRight DEF TermsStay
<1> QED
  BY <1>1, <1>2 DEF MessageIsRight, TermsStay

\* What is longer by a message that is right is right.
LEMMA MessagesStayRight ==
    ASSUME TlsInv, FlowInv, TermsStay,
           \/ Heard' = Heard
           \/ \E m : Heard' = Append(Heard, m) /\ MessageIsRight(Len(Heard) + 1, m),
           \/ s'.tr = s.tr
           \/ \E m : s'.tr = Append(s.tr, m) /\ MessageIsRight(Len(s.tr) + 1, m)
    PROVE  MessagesAreRight'
<1>1. /\ IsSeq(Heard) /\ IsSeq(s.tr) /\ Len(Heard) \in Nat /\ Len(s.tr) \in Nat
  BY TranscriptsAre
<1>2. /\ \A i \in 1 .. Len(s.tr) : MessageIsRight(i, s.tr[i])
      /\ \A i \in 1 .. Len(Heard) : MessageIsRight(i, Heard[i])
  BY DEF FlowInv, MessagesAreRight
<1>3. \A i \in 1 .. Len(Heard') : MessageIsRight(i, Heard'[i])
  BY <1>1, <1>2, AppendIs
<1>4. \A i \in 1 .. Len(s'.tr) : MessageIsRight(i, s'.tr[i])
  BY <1>1, <1>2, AppendIs, SMTT(30)
<1>5. \A i, m : MessageIsRight(i, m) => MessageIsRight(i, m)'
  BY MessageStaysRight
<1> QED
  BY <1>3, <1>4, <1>5 DEF MessagesAreRight

\* Before the keys the client has hashed no more than its ClientHello.
LEMMA HeardBeforeKeys ==
    ASSUME TlsInv, FlowInv, c.state \notin ClientKeyed \cup ClientSecond
    PROVE  Len(Heard) <= HelloPlace
<1>1. c.state \in ClientBegins
  BY DEF FlowInv, ValuesAreKnown
<1>2. c.hrr \in BOOLEAN /\ (c.hrr => s.hrr)
  BY DEF FlowInv, ValuesAreKnown, Places, ClientPlace
<1>3. HelloPlace = (IF s.hrr THEN 3 ELSE 1) /\ HelloPlace >= 1
  BY DEF HelloPlace
<1> DEFINE Few(n) == n = 0 \/ n = 1 \/ n = 2 \/ n = 3
<1>6. \A n : Few(n) => n <= 3
  OBVIOUS
<1>7. \A n : n = 0 \/ n = 1 => n <= 1
  OBVIOUS
<1>4. CASE HashedAlone
  <2>1. Len(Heard) = 1
    BY <1>4, TranscriptsAre
  <2> QED
    BY <1>3, <2>1
<1>5. CASE ~HashedAlone
  <2>1. Heard = c.tr
    BY <1>5, TranscriptsAre
  <2>2. c.hrr => HelloPlace = 3 /\ Few(Len(c.tr))
    BY <1>1, <1>2, <1>3 DEF ClientBegins, FlowInv, Places, ClientPlace
  <2>3. ~c.hrr => Len(c.tr) = 0 \/ Len(c.tr) = 1
    BY <1>1 DEF ClientBegins, FlowInv, Places, ClientPlace
  <2>4. c.hrr => HelloPlace = 3 /\ Len(Heard) <= 3
    BY <1>6, <2>1, <2>2, Zenon
  <2>5. ~c.hrr => Len(Heard) <= 1
    BY <1>7, <2>1, <2>3, Zenon
  <2> DEFINE retried == c.hrr = TRUE
  <2>6. (retried => HelloPlace = 3 /\ Len(Heard) <= 3) /\ (~retried => Len(Heard) <= 1)
    BY <1>2, <2>4, <2>5
  <2> HIDE DEF retried
  <2>7. HelloPlace = 3 \/ HelloPlace = 1
    BY <1>3
  <2>8. Len(Heard) \in Nat
    BY TranscriptsAre
  <2> QED
    BY <2>6, <2>7, <2>8
<1> QED
  BY <1>4, <1>5

\* The places behind the ClientHello are other places.
LEMMA LaterPlaces ==
    ASSUME NEW h \in Nat, NEW a \in Nat, NEW f \in Nat, NEW e \in Nat, f >= h + 3, e >= f,
           NEW i \in Nat, i <= h
    PROVE  /\ i # h + 1 /\ i # h + 2 /\ i # h + 3 /\ i # h + 3 + a /\ i # h + 4 + a
           /\ i # f /\ i # f + 1 /\ i # f + 2 /\ i # e + 1
OBVIOUS

\* Up to the ClientHello nothing depends on the server's choices.
LEMMA EarlyMessagesStayRight ==
    ASSUME conf' = conf, s'.hrr = s.hrr, NEW i, i \in Nat, i <= HelloPlace,
           NEW m, MessageIsRight(i, m)
    PROVE  MessageIsRight(i, m)'
<1>1. HelloPlace' = HelloPlace /\ HelloPlace \in {1, 3} /\ (s.hrr => HelloPlace = 3)
  BY DEF HelloPlace
<1>2. (i = 2 /\ s.hrr => RetryIsRight(m)) /\ (i = HelloPlace => HelloIsRight(m))
  BY DEF MessageIsRight
<1>3. (HelloIsRight(m) => HelloIsRight(m)') /\ (RetryIsRight(m) => RetryIsRight(m)')
  BY HelloStaysRight
<1>4. /\ Asked' \in {0, 1} /\ FlightEnd' \in Nat /\ FlightEnd' >= HelloPlace' + 3
      /\ CertificateEnd' \in Nat /\ CertificateEnd' >= FlightEnd'
  BY <1>1 DEF Asked, FlightEnd, CertificateEnd
<1>5. /\ i # HelloPlace' + 1 /\ i # HelloPlace' + 2 /\ i # HelloPlace' + 3 /\ i # HelloPlace' + 3 + Asked'
      /\ i # HelloPlace' + 4 + Asked' /\ i # FlightEnd' /\ i # FlightEnd' + 1 /\ i # FlightEnd' + 2
      /\ i # CertificateEnd' + 1
  <2>1. HelloPlace' \in Nat /\ Asked' \in Nat /\ i <= HelloPlace'
    BY <1>1, <1>4
  <2> QED
    BY <1>4, <2>1, LaterPlaces, ZenonT(40)
<1> QED
  BY <1>1, <1>2, <1>3, <1>5 DEF MessageIsRight
-----------------------------------------------------------------------------
(* What stays as it is when one side, or one queue, is left alone.         *)

\* What the server has.
LEMMA ServerPartsStay ==
    ASSUME FlowInv, s' = s, conf' = conf
    PROVE  ServerPlace' /\ ServerParameters' /\ ServerKeys' /\ DiscardIsRight'
<1>1. HelloPlace' = HelloPlace /\ Asked' = Asked /\ FlightEnd' = FlightEnd
      /\ CertificateEnd' = CertificateEnd /\ HelloUnread' = HelloUnread
      /\ ClientPsks' = ClientPsks /\ OffersEarlyData' = OffersEarlyData
  BY DEF HelloPlace, Asked, FlightEnd, CertificateEnd, HelloUnread, ClientPsks, OffersEarlyData,
     TicketModes
<1>2. ServerPlace'
  BY <1>1 DEF FlowInv, Places, ServerPlace
<1>3. ServerParameters'
  BY <1>1 DEF FlowInv, ServerParameters
<1>4. ServerKeys' /\ DiscardIsRight'
  BY <1>1 DEF FlowInv, ServerKeys, DiscardIsRight
<1> QED
  BY <1>2, <1>3, <1>4

\* What the client has, as long as the terms stay.
LEMMA ClientPartsStay ==
    ASSUME FlowInv, c' = c, TermsStay,
           c.state \in ClientKeyed => s'.handshake_key = s.handshake_key
    PROVE  ClientPlace' /\ ClientParameters' /\ ClientKeys'
<1>1. HelloPlace' = HelloPlace /\ Asked' = Asked /\ FlightEnd' = FlightEnd
      /\ CertificateEnd' = CertificateEnd
  BY PlacesStay
<1>2. /\ OffersEarlyData' = OffersEarlyData /\ Ephemeral' = Ephemeral /\ HelloSent' = HelloSent
      /\ SecondPskAfterEarlyData' = SecondPskAfterEarlyData /\ HashedAlone' = HashedAlone
  BY DEF TermsStay, OffersEarlyData, TicketModes, Ephemeral, HelloSent, SecondPskAfterEarlyData,
     HashedAlone
<1>3. ClientPlace'
  BY <1>1, <1>2 DEF FlowInv, Places, ClientPlace, TermsStay
<1>4. ClientParameters'
  BY <1>1, <1>2 DEF FlowInv, ClientParameters, TermsStay
<1>5. ClientKeys'
  BY <1>2 DEF FlowInv, ClientKeys
<1> QED
  BY <1>3, <1>4, <1>5

\* What was known stays known.
LEMMA ValuesStayKnown ==
    ASSUME FlowInv, conf' = conf,
           c' = c \/ (c'.state \in ClientBegins \cup ClientKeyed \cup ClientSecond
                      /\ c'.hrr \in {c.hrr, TRUE} /\ c'.client_auth \in {c.client_auth, TRUE, FALSE}),
           s' = s \/ (s'.hrr \in {s.hrr, TRUE}
                      /\ s'.certificate_request_sent \in {s.certificate_request_sent, TRUE})
    PROVE  ValuesAreKnown'
BY DEF FlowInv, ValuesAreKnown

\* Why an endpoint failed stays what it was expected for.
LEMMA FailuresStay ==
    ASSUME FlowInv, failed' = failed, TermsStay, app.retried # {} => app'.retried # {},
           c'.state = c.state \/ failed.client = "no"
    PROVE  FailuresAreKnown' /\ BadMacIsExpected'
<1>1. SecondPskAfterEarlyData' = SecondPskAfterEarlyData /\ SharedPsks' = SharedPsks
  BY DEF TermsStay, SecondPskAfterEarlyData, OffersEarlyData, TicketModes, SharedPsks, ClientPsks,
     ServerKnows
<1>2. FailuresAreKnown'
  BY <1>1 DEF FlowInv, FailuresAreKnown, TermsStay, Satisfies
<1> QED
  BY <1>2 DEF FlowInv, BadMacIsExpected

\* What is written so far stays with its key.
ClientKeepsKeys ==
    /\ conf' = conf
    /\ HelloSent => HelloSent' /\ c'.early_key = c.early_key
    /\ c.state \in ClientSecond =>
           /\ c'.state \in ClientSecond /\ c'.handshake_key = c.handshake_key
           /\ s'.early_accepted = s.early_accepted

ServerKeepsKeys ==
    /\ s.state \in ServerKeyed \cup ServerSecond =>
           s'.state \in ServerKeyed \cup ServerSecond /\ s'.handshake_key = s.handshake_key
    /\ s.state \in ServerTickets =>
           s'.state \in ServerTickets /\ s'.application_key = s.application_key

\* A record has the right key as long as the sender's keys stay.
LEMMA RecordsKeepKeys ==
    ASSUME NEW r
    PROVE  /\ ClientKeepsKeys /\ ClientRecordHasKey(r) => ClientRecordHasKey(r)'
           /\ ServerKeepsKeys /\ ServerRecordHasKey(r) => ServerRecordHasKey(r)'
<1>1. c.state \in ClientSecond => HelloSent
  BY DEF ClientSecond, ClientDone, HelloSent
<1>2. ClientKeepsKeys => OffersEarlyData' = OffersEarlyData
  BY DEF ClientKeepsKeys, OffersEarlyData, TicketModes
<1>3. ClientKeepsKeys /\ ClientRecordHasKey(r) => ClientRecordHasKey(r)'
  <2> SUFFICES ASSUME ClientKeepsKeys, ClientRecordHasKey(r) PROVE ClientRecordHasKey(r)'
    OBVIOUS
  <2>1. IsEarlyRecord(r)' = IsEarlyRecord(r) /\ IsHs(r)' = IsHs(r)
        /\ \A t : Carries(r, t)' = Carries(r, t)
    BY DEF IsEarlyRecord, IsHs, Carries
  <2> QED
    BY <1>1, <1>2, <2>1 DEF ClientKeepsKeys, ClientRecordHasKey
<1>4. ServerKeepsKeys /\ ServerRecordHasKey(r) => ServerRecordHasKey(r)'
  BY DEF ServerKeepsKeys, ServerRecordHasKey, IsHs, Carries
<1> QED
  BY <1>3, <1>4

\* The records on their way have their keys.
LEMMA RecordsStillHaveKeys ==
    ASSUME TlsInv, FlowInv, ClientKeepsKeys, ServerKeepsKeys,
           \/ ToClient' = ToClient
           \/ ToClient # <<>> /\ ToClient' = Tail(ToClient)
           \/ \E r : ToClient' = Append(ToClient, r) /\ ServerRecordHasKey(r)',
           \/ ToServer' = ToServer
           \/ ToServer # <<>> /\ ToServer' = Tail(ToServer)
           \/ \E r : ToServer' = Append(ToServer, r) /\ ClientRecordHasKey(r)'
    PROVE  RecordsHaveKeys'
<1>1. IsSeq(ToClient) /\ IsSeq(ToServer)
  BY QueuesAre DEF TlsInv
<1>2. /\ \A k \in 1 .. Len(ToClient) : ServerRecordHasKey(ToClient[k])
      /\ \A k \in 1 .. Len(ToServer) : ClientRecordHasKey(ToServer[k])
  BY DEF FlowInv, RecordsHaveKeys
<1>3. ASSUME NEW k \in 1 .. Len(ToClient') PROVE ServerRecordHasKey(ToClient[k])'
  <2>1. CASE ToClient' = ToClient
    BY <1>2, <2>1, RecordsKeepKeys
  <2>2. CASE ToClient # <<>> /\ ToClient' = Tail(ToClient)
    <3>1. k + 1 \in 1 .. Len(ToClient) /\ ToClient'[k] = ToClient[k + 1]
      BY <1>1, <2>2, LosesFirst
    <3> QED
      BY <1>2, <3>1, RecordsKeepKeys
  <2>3. ASSUME NEW r, ToClient' = Append(ToClient, r), ServerRecordHasKey(r)'
        PROVE  ServerRecordHasKey(ToClient[k])'
    <3>1. \/ k \in 1 .. Len(ToClient) /\ ToClient'[k] = ToClient[k]
          \/ ToClient'[k] = r
      BY <1>1, <2>3, GainsLast
    <3> QED
      BY <1>2, <2>3, <3>1, RecordsKeepKeys
  <2> QED
    BY <2>1, <2>2, <2>3
<1>4. ASSUME NEW k \in 1 .. Len(ToServer') PROVE ClientRecordHasKey(ToServer[k])'
  <2>1. CASE ToServer' = ToServer
    BY <1>2, <2>1, RecordsKeepKeys
  <2>2. CASE ToServer # <<>> /\ ToServer' = Tail(ToServer)
    <3>1. k + 1 \in 1 .. Len(ToServer) /\ ToServer'[k] = ToServer[k + 1]
      BY <1>1, <2>2, LosesFirst
    <3> QED
      BY <1>2, <3>1, RecordsKeepKeys
  <2>3. ASSUME NEW r, ToServer' = Append(ToServer, r), ClientRecordHasKey(r)'
        PROVE  ClientRecordHasKey(ToServer[k])'
    <3>1. \/ k \in 1 .. Len(ToServer) /\ ToServer'[k] = ToServer[k]
          \/ ToServer'[k] = r
      BY <1>1, <2>3, GainsLast
    <3> QED
      BY <1>2, <2>3, <3>1, RecordsKeepKeys
  <2> QED
    BY <2>1, <2>2, <2>3
<1> QED
  BY <1>3, <1>4 DEF RecordsHaveKeys

\* No early data comes behind a message that is no first ClientHello.
NoneIsEarly == \A k \in 2 .. Len(ToServer) : ~IsEarlyRecord(ToServer[k])

\* Behind a message other than the first ClientHello there is no early data.
LEMMA NoneIsEarlyBehind ==
    ASSUME FlowInv, TlsInv, failed.server = "no", ToServer # <<>>, IsHs(ToServer[1]),
           ~Carries(ToServer[1], "client_hello") \/ ToServer[1].over # <<>>
    PROVE  NoneIsEarly
<1>1. 1 \in 1 .. Len(ToServer) /\ Len(ToServer) \in Nat
  <2>1. IsSeq(ToServer)
    BY QueuesAre DEF TlsInv
  <2> QED
    BY <2>1, TailIs
<1>2. \A k \in 2 .. Len(ToServer) : k \in 1 .. Len(ToServer) /\ 1 < k
  BY <1>1
<1> QED
  BY <1>1, <1>2 DEF FlowInv, EarlyComesFirst, NoneIsEarly

\* Only first ClientHellos are on their way.
OnlyFirstHello ==
    \A j \in 1 .. Len(ToServer) :
        IsHs(ToServer[j]) => Carries(ToServer[j], "client_hello") /\ ToServer[j].over = <<>>

\* Early data still comes first.
LEMMA EarlyStaysFirst ==
    ASSUME TlsInv, FlowInv, failed'.server = "no" => failed.server = "no",
           \/ ToServer' = ToServer /\ (HelloUnread' => HelloUnread)
           \/ ToServer # <<>> /\ ToServer' = Tail(ToServer) /\ ~HelloUnread'
           \/ \E r : /\ ToServer' = Append(ToServer, r)
                     /\ HelloUnread' => HelloUnread
                     /\ failed.server = "no" /\ IsEarlyRecord(r) => OnlyFirstHello
                     /\ failed.server = "no" /\ HelloUnread => IsHs(r) \/ ToServer # <<>>
    PROVE  EarlyComesFirst'
<1> SUFFICES ASSUME failed'.server = "no" PROVE EarlyComesFirst'
  BY DEF EarlyComesFirst
<1>1. IsSeq(ToServer) /\ failed.server = "no"
  BY QueuesAre DEF TlsInv
<1> DEFINE Fits(q, j, k) == j < k /\ IsHs(q[j]) /\ IsEarlyRecord(q[k]) =>
                              Carries(q[j], "client_hello") /\ q[j].over = <<>>
<1>2. /\ \A j, k \in 1 .. Len(ToServer) : Fits(ToServer, j, k)
      /\ HelloUnread /\ ToServer # <<>> => IsHs(ToServer[1])
  BY <1>1 DEF FlowInv, EarlyComesFirst
<1>3. SUFFICES /\ \A j, k \in 1 .. Len(ToServer') : Fits(ToServer', j, k)
               /\ HelloUnread' /\ ToServer' # <<>> => IsHs(ToServer'[1])
  BY DEF EarlyComesFirst, IsHs, IsEarlyRecord, Carries
<1>4. CASE ToServer' = ToServer /\ (HelloUnread' => HelloUnread)
  BY <1>2, <1>4
<1>5. CASE ToServer # <<>> /\ ToServer' = Tail(ToServer) /\ ~HelloUnread'
  <2>1. SUFFICES ASSUME NEW j \in 1 .. Len(ToServer'), NEW k \in 1 .. Len(ToServer')
                 PROVE  Fits(ToServer', j, k)
    BY <1>5
  <2>2. /\ j + 1 \in 1 .. Len(ToServer) /\ ToServer'[j] = ToServer[j + 1]
        /\ k + 1 \in 1 .. Len(ToServer) /\ ToServer'[k] = ToServer[k + 1]
        /\ (j < k => j + 1 < k + 1)
    BY <1>1, <1>5, LosesFirst
  <2>3. Fits(ToServer, j + 1, k + 1)
    BY <1>2, <2>2
  <2> QED
    BY <2>2, <2>3
<1>6. ASSUME NEW r, ToServer' = Append(ToServer, r), HelloUnread' => HelloUnread,
             IsEarlyRecord(r) => OnlyFirstHello, HelloUnread => IsHs(r) \/ ToServer # <<>>
      PROVE  /\ \A j, k \in 1 .. Len(ToServer') : Fits(ToServer', j, k)
             /\ HelloUnread' /\ ToServer' # <<>> => IsHs(ToServer'[1])
  <2>1. ASSUME NEW j \in 1 .. Len(ToServer'), NEW k \in 1 .. Len(ToServer') PROVE Fits(ToServer', j, k)
    <3>1. /\ \/ k \in 1 .. Len(ToServer) /\ ToServer'[k] = ToServer[k]
             \/ k = Len(ToServer) + 1 /\ ToServer'[k] = r
          /\ \/ j \in 1 .. Len(ToServer) /\ ToServer'[j] = ToServer[j]
             \/ j = Len(ToServer) + 1 /\ ToServer'[j] = r
          /\ Len(ToServer) \in Nat
      BY <1>1, <1>6, GainsLast
    <3>2. CASE k \in 1 .. Len(ToServer) /\ ToServer'[k] = ToServer[k]
      <4>1. j < k => j \in 1 .. Len(ToServer) /\ ToServer'[j] = ToServer[j]
        BY <3>1, <3>2
      <4> QED
        BY <1>2, <3>2, <4>1
    <3>3. CASE k = Len(ToServer) + 1 /\ ToServer'[k] = r
      <4>1. j < k => j \in 1 .. Len(ToServer) /\ ToServer'[j] = ToServer[j]
        BY <3>1, <3>3
      <4> QED
        BY <1>6, <3>3, <4>1 DEF OnlyFirstHello
    <3> QED
      BY <3>1, <3>2, <3>3
  <2>2. ToServer'[1] = IF ToServer = <<>> THEN r ELSE ToServer[1]
    <3>1. CASE ToServer = <<>>
      BY <1>6, <3>1
    <3>2. CASE ToServer # <<>>
      <4>1. Len(ToServer) \in Nat \ {0}
        BY <1>1, <3>2, TailIs
      <4> QED
        BY <1>1, <1>6, <3>2, <4>1, AppendIs
    <3> QED
      BY <3>1, <3>2
  <2> QED
    BY <1>2, <1>6, <2>1, <2>2
<1>7. CASE \E r : /\ ToServer' = Append(ToServer, r)
                  /\ HelloUnread' => HelloUnread
                  /\ failed.server = "no" /\ IsEarlyRecord(r) => OnlyFirstHello
                  /\ failed.server = "no" /\ HelloUnread => IsHs(r) \/ ToServer # <<>>
  <2> HIDE DEF Fits
  <2>1. PICK r : /\ ToServer' = Append(ToServer, r)
                 /\ HelloUnread' => HelloUnread
                 /\ failed.server = "no" /\ IsEarlyRecord(r) => OnlyFirstHello
                 /\ failed.server = "no" /\ HelloUnread => IsHs(r) \/ ToServer # <<>>
    BY <1>7
  <2>2. /\ IsEarlyRecord(r) => OnlyFirstHello
        /\ HelloUnread => IsHs(r) \/ ToServer # <<>>
    BY <1>1, <2>1
  <2> QED
    BY <1>6, <2>1, <2>2
<1> HIDE DEF Fits
<1> QED
  BY <1>4, <1>5, <1>7

\* The server is still ready for early data that may come.
LEMMA EarlyStaysAwaited ==
    ASSUME TlsInv, FlowInv, failed'.server = "no" => failed.server = "no",
           \/ ToServer' = ToServer /\ (ServerIsReady => ServerIsReady')
           \/ ToServer # <<>> /\ ToServer' = Tail(ToServer) /\ (ServerIsReady => ServerIsReady' \/ NoneIsEarly)
           \/ \E r : /\ ToServer' = Append(ToServer, r)
                     /\ ServerIsReady => ServerIsReady'
                     /\ failed.server = "no" /\ IsEarlyRecord(r) => ServerIsReady'
    PROVE  EarlyIsAwaited'
<1> SUFFICES ASSUME failed'.server = "no", NEW k \in 1 .. Len(ToServer'), IsEarlyRecord(ToServer'[k])
             PROVE  ServerIsReady'
  BY DEF EarlyIsAwaited, IsEarlyRecord
<1>1. IsSeq(ToServer) /\ failed.server = "no"
  BY QueuesAre DEF TlsInv
<1>2. ASSUME NEW j \in 1 .. Len(ToServer), IsEarlyRecord(ToServer[j]) PROVE ServerIsReady
  BY <1>1, <1>2 DEF FlowInv, EarlyIsAwaited
<1>3. CASE ToServer' = ToServer /\ (ServerIsReady => ServerIsReady')
  BY <1>2, <1>3
<1>4. CASE ToServer # <<>> /\ ToServer' = Tail(ToServer) /\ (ServerIsReady => ServerIsReady' \/ NoneIsEarly)
  <2>1. k + 1 \in 1 .. Len(ToServer) /\ ToServer'[k] = ToServer[k + 1] /\ k \in Nat \ {0}
    BY <1>1, <1>4, LosesFirst
  <2>2. Len(ToServer) \in Nat
    BY <1>1, <1>4, TailIs
  <2>3. ~NoneIsEarly
    BY <2>1, <2>2 DEF NoneIsEarly
  <2> QED
    BY <1>2, <1>4, <2>1, <2>3
<1>5. ASSUME NEW r, ToServer' = Append(ToServer, r), ServerIsReady => ServerIsReady',
             IsEarlyRecord(r) => ServerIsReady'
      PROVE  ServerIsReady'
  <2>1. (k \in 1 .. Len(ToServer) /\ ToServer'[k] = ToServer[k]) \/ ToServer'[k] = r
    BY <1>1, <1>5, GainsLast
  <2> QED
    BY <1>2, <1>5, <2>1
<1>6. CASE \E r : /\ ToServer' = Append(ToServer, r)
                  /\ ServerIsReady => ServerIsReady'
                  /\ failed.server = "no" /\ IsEarlyRecord(r) => ServerIsReady'
  <2>1. PICK r : /\ ToServer' = Append(ToServer, r)
                 /\ ServerIsReady => ServerIsReady'
                 /\ failed.server = "no" /\ IsEarlyRecord(r) => ServerIsReady'
    BY <1>6
  <2>2. IsEarlyRecord(r) => ServerIsReady'
    BY <1>1, <2>1
  <2> QED
    BY <1>5, <2>1, <2>2
<1> QED
  BY <1>3, <1>4, <1>6
-----------------------------------------------------------------------------
(* The steps of the client.                                                *)

\* What does not depend on the client.
LEMMA ClientStepTerms ==
    ASSUME s' = s, conf' = conf
    PROVE  /\ TermsStay /\ HelloPlace' = HelloPlace /\ Asked' = Asked /\ FlightEnd' = FlightEnd
           /\ CertificateEnd' = CertificateEnd
           /\ OffersEarlyData' = OffersEarlyData /\ Ephemeral' = Ephemeral
           /\ SecondPskAfterEarlyData' = SecondPskAfterEarlyData
           /\ HelloUnread' = HelloUnread /\ ServerIsReady' = ServerIsReady
<1>1. TermsStay
  BY DEF TermsStay
<1>2. /\ OffersEarlyData' = OffersEarlyData /\ Ephemeral' = Ephemeral
      /\ SecondPskAfterEarlyData' = SecondPskAfterEarlyData
  BY DEF OffersEarlyData, TicketModes, Ephemeral, SecondPskAfterEarlyData
<1>3. HelloUnread' = HelloUnread /\ ServerIsReady' = ServerIsReady
  BY DEF HelloUnread, ServerIsReady, PastEarlyData
<1> QED
  BY <1>1, <1>2, <1>3, PlacesStay

\* The frame of a client's step.
LEMMA ClientFrame ==
    ASSUME FlowInv, ClientIsAlone, c'.total = c.total,
           Streams', TranscriptsAgree', MessagesAreRight',
           ValuesAreKnown', ClientPlace', Turns', ClientParameters', ClientKeys',
           RecordsHaveKeys', EarlyComesFirst', EarlyIsAwaited'
    PROVE  FlowInv'
<1>1. s' = s /\ conf' = conf /\ app' = app /\ failed' = failed /\ failed.client = "no"
  BY DEF ClientIsAlone
<1>2. ServerPlace' /\ ServerParameters' /\ ServerKeys' /\ DiscardIsRight'
  BY <1>1, ServerPartsStay
<1>3. FailuresAreKnown' /\ BadMacIsExpected'
  BY <1>1, ClientStepTerms, FailuresStay
<1>4. EarlyIsCounted'
  BY <1>1 DEF FlowInv, EarlyIsCounted
<1> QED
  BY <1>2, <1>3, <1>4 DEF FlowInv, Places

\* The queues after a client's step.
ClientSends(r) ==
    /\ ToServer' = Append(ToServer, r)
    /\ ClientRecordHasKey(r)'
    /\ failed.server = "no" /\ IsEarlyRecord(r) => OnlyFirstHello /\ ServerIsReady
    /\ failed.server = "no" /\ HelloUnread => IsHs(r) \/ ToServer # <<>>

\* The keys of the records on their way survive a step of the client alone.
LEMMA ClientQueues ==
    ASSUME TlsInv, FlowInv, ClientIsAlone, ClientKeepsKeys,
           ToClient' = ToClient \/ (ToClient # <<>> /\ ToClient' = Tail(ToClient)),
           ToServer' = ToServer \/ \E r : ClientSends(r)
    PROVE  RecordsHaveKeys' /\ EarlyComesFirst' /\ EarlyIsAwaited'
<1>1. s' = s /\ conf' = conf /\ app' = app /\ failed' = failed
  BY DEF ClientIsAlone
<1>2. HelloUnread' = HelloUnread /\ ServerIsReady' = ServerIsReady
  BY <1>1, ClientStepTerms
<1>3. ServerKeepsKeys
  BY <1>1 DEF ServerKeepsKeys
<1>4. RecordsHaveKeys'
  BY <1>3, RecordsStillHaveKeys DEF ClientSends
<1>5. EarlyComesFirst'
  BY <1>1, <1>2, EarlyStaysFirst DEF ClientSends
<1>6. EarlyIsAwaited'
  BY <1>1, <1>2, EarlyStaysAwaited DEF ClientSends
<1> QED
  BY <1>4, <1>5, <1>6

\* In its second flight a client that is not done is listened to.
LEMMA SecondFlightIsHeard ==
    ASSUME TlsInv, EarlyInv, c.state \in ClientSecond
    PROVE  /\ s.state \in ServerSecond /\ ~HelloUnread
           /\ c.state \notin ClientDone => s.state \in ServerListens
<1>1. s.state \in ServerSecond /\ (s.state \in ServerDone => c.state \in ClientDone)
  BY DEF TlsInv, Joint, PeersAgree
<1> QED
  BY <1>1 DEF ServerSecond, ServerListens, HelloUnread, ServerDone, ServerTickets

\* Whose turn it is in the client's second flight.
LEMMA SecondFlightTurns ==
    ASSUME TlsInv, EarlyInv, FlowInv, s' = s, conf' = conf,
           c.state \in ClientSecond, c'.state \in ClientSecond, c'.hrr = c.hrr,
           Heard' = Heard \/ (c.state \notin ClientDone /\ \E m : Heard' = Append(Heard, m))
    PROVE  Turns'
<1>1. ~HashedAlone /\ Len(s.tr) <= Len(Heard)
  BY ClientHasHeardAll DEF ClientSecond, ClientDone, ClientListens, ClientKeyed
<1>2. Heard' = Heard => Len(Heard') = Len(Heard)
  OBVIOUS
<1>3. Len(Heard) \in Nat /\ Len(s.tr) \in Nat /\ IsSeq(Heard)
  BY TranscriptsAre
<1>4. Heard' # Heard => Len(Heard') = Len(Heard) + 1
  BY <1>3, AppendIs
<1>5. Len(Heard') >= Len(s'.tr)
  BY <1>1, <1>2, <1>3, <1>4
<1>6. Len(s'.tr) < Len(Heard') => s'.state \in ServerListens
  <2>1. CASE c.state \in ClientDone
    BY <2>1, <1>2 DEF FlowInv, Places, Turns
  <2>2. CASE c.state \notin ClientDone
    BY <2>2, SecondFlightIsHeard
  <2> QED
    BY <2>1, <2>2
<1>7. ~HashedAlone'
  BY <1>1 DEF HashedAlone
<1>8. ~(Len(Heard') < Len(s'.tr))
  <2>1. Len(Heard') \in Nat
    BY <1>2, <1>3, <1>4
  <2> QED
    BY <1>3, <1>5, <2>1
<1> QED
  BY <1>6, <1>7, <1>8 DEF Turns, ClientSecond, ClientDone, ClientKeyed

\* Whose turn it is while the client reads the server's flight.
LEMMA FlightTurns ==
    ASSUME TlsInv, EarlyInv, FlowInv, s' = s, conf' = conf,
           c.state \in ClientKeyed, c'.hrr = c.hrr,
           \/ Heard' = Heard /\ Len(Heard) <= Len(s.tr)
           \/ (\E m : Heard' = Append(Heard, m)) /\ Len(Heard) + 1 <= Len(s.tr),
           \/ c'.state \in ClientKeyed
           \/ c'.state \in ClientSecond /\ Len(Heard') = FlightEnd,
           c'.state = "SERVER_CERTIFICATE" => s.state # "CERTIFICATE_REQUEST"
    PROVE  Turns'
<1>1. Len(Heard) \in Nat /\ Len(s.tr) \in Nat /\ IsSeq(Heard)
  BY TranscriptsAre
<1>2. c.state \notin ClientSecond
  BY DEF ClientKeyed, ClientSecond, ClientDone
<1>3. /\ s.state \in ServerKeyed \cup ServerSecond /\ Len(s.tr) <= FlightEnd /\ ~HashedAlone
  BY <1>2 DEF FlowInv, Places, Turns, ClientPlace
<1>4. ~(Len(s'.tr) < Len(Heard'))
  <2>1. CASE Heard' = Heard /\ Len(Heard) <= Len(s.tr)
    BY <1>1, <2>1
  <2>2. CASE (\E m : Heard' = Append(Heard, m)) /\ Len(Heard) + 1 <= Len(s.tr)
    <3>1. Len(Heard') = Len(Heard) + 1
      BY <1>1, <2>2, AppendIs
    <3> QED
      BY <1>1, <2>2, <3>1
  <2> QED
    BY <2>1, <2>2
<1>5. HashedAlone' = HashedAlone /\ FlightEnd' = FlightEnd /\ FlightEnd \in Nat
  BY ClientStepTerms, PlacesAre DEF HashedAlone
<1>6. Len(Heard') < Len(s'.tr) => c'.state \in ClientListens
  <2>1. CASE c'.state \in ClientKeyed
    BY <2>1 DEF ClientListens
  <2>2. CASE Len(Heard') = FlightEnd
    BY <1>1, <1>3, <1>5, <2>2
  <2> QED
    BY <2>1, <2>2
<1>7. Len(s'.tr) <= FlightEnd'
  BY <1>3, <1>5
<1> QED
  BY <1>3, <1>4, <1>5, <1>6, <1>7 DEF Turns

\* The parameters of a client with its keys.
LEMMA KeyedParameters ==
    ASSUME TlsInv, FlowInv, s' = s, conf' = conf,
           c.state \in ClientKeyed \cup ClientSecond,
           c'.state \in (ClientKeyed \ {"ENCRYPTED_EXTENSIONS"}) \cup ClientSecond,
           c'.state \in ClientKeyed => c.state \in ClientKeyed /\ c.handshake_key = s.handshake_key,
           c'.hrr = c.hrr, c'.early_key = c.early_key, c'.mode = c.mode, c'.selected = c.selected,
           c'.handshake_key = c.handshake_key,
           c'.tr = c.tr \/ \E m : c'.tr = Append(c.tr, m),
           c'.early = "NO_IND_SENT" <=> c.early = "NO_IND_SENT",
           c'.early = "REJECTED" \/ ~c.hrr \/ c'.early = c.early,
           c'.early \in {"CAN_WRITE", "ACCEPTED", "IND_SENT"} =>
               c'.early = "ACCEPTED" /\ s.early_accepted /\ c'.state \in ClientKeyed
    PROVE  ClientParameters'
<1>1. /\ OffersEarlyData' = OffersEarlyData /\ Ephemeral' = Ephemeral
      /\ SecondPskAfterEarlyData' = SecondPskAfterEarlyData
  BY ClientStepTerms
<1>2. HelloSent /\ HelloSent' /\ c'.state \notin ClientBegins
  BY DEF HelloSent, ClientBegins, ClientKeyed, ClientSecond, ClientDone
<1>3. c'.tr[1] = c.tr[1]
  <2>1. IsSeq(c.tr) /\ Len(c.tr) \in Nat /\ Len(c.tr) >= 1
    BY TranscriptsAre, HelloIsHashed DEF ClientKeyed, ClientSecond, ClientDone
  <2>2. 1 \in 1 .. Len(c.tr)
    BY <2>1
  <2> QED
    BY <2>1, <2>2, AppendIs
<1>4. s.early_accepted => ~c.hrr /\ OffersEarlyData
  BY DEF FlowInv, ServerParameters, Places, ClientPlace
<1>5. c.hrr => c'.early \in {"NO_IND_SENT", "REJECTED"}
  BY DEF FlowInv, ClientParameters
<1> QED
  BY <1>1, <1>2, <1>3, <1>4, <1>5 DEF FlowInv, ClientParameters, ClientBegins
-----------------------------------------------------------------------------
(* The second flight of the client.                                        *)

\* What a client with its keys keeps.
KeyedStays ==
    /\ c'.hrr = c.hrr /\ c'.early_key = c.early_key /\ c'.mode = c.mode
    /\ c'.selected = c.selected /\ c'.handshake_key = c.handshake_key /\ c'.total = c.total

SecondStays ==
    /\ ClientIsAlone /\ KeyedStays /\ c'.early = c.early /\ c'.client_auth = c.client_auth
    /\ c.state \in ClientSecond /\ c'.state \in ClientSecond

\* The frame of the steps of the second flight.
LEMMA SecondFlightFrame ==
    ASSUME TlsInv, EarlyInv, FlowInv, SecondStays,
           Streams', TranscriptsAgree', MessagesAreRight', ClientPlace', ClientKeys',
           Heard' = Heard \/ (c.state \notin ClientDone /\ \E m : Heard' = Append(Heard, m)),
           c'.tr = c.tr \/ \E m : c'.tr = Append(c.tr, m),
           ToClient' = ToClient \/ (ToClient # <<>> /\ ToClient' = Tail(ToClient)),
           ToServer' = ToServer \/ \E r : ClientSends(r)
    PROVE  FlowInv'
<1>1. s' = s /\ conf' = conf
  BY DEF SecondStays, ClientIsAlone
<1>2. c.state \notin ClientKeyed /\ c'.state \notin ClientKeyed \cup {"SERVER_HELLO"}
  BY DEF SecondStays, ClientSecond, ClientDone, ClientKeyed
<1>3. c.early \notin {"CAN_WRITE", "ACCEPTED", "IND_SENT"}
  <2>1. c.state \notin {"SERVER_HELLO", "CLIENT_CCS_AFTER_CLIENT_HELLO"}
    BY DEF SecondStays, ClientSecond, ClientDone
  <2> QED
    BY <1>2, <2>1 DEF FlowInv, ClientParameters
<1>4. c'.state \notin ClientKeyed /\ c'.state # "ENCRYPTED_EXTENSIONS"
  BY <1>2 DEF ClientKeyed
<1>5. ClientParameters'
  BY <1>1, <1>3, <1>4, KeyedParameters DEF SecondStays, KeyedStays
<1>6. Turns'
  BY <1>1, SecondFlightTurns DEF SecondStays, KeyedStays
<1>7. ValuesAreKnown'
  BY <1>1, ValuesStayKnown DEF SecondStays, KeyedStays
<1>8. ClientKeepsKeys
  <2>1. HelloSent /\ HelloSent'
    BY DEF SecondStays, HelloSent, ClientSecond, ClientDone
  <2> QED
    BY <1>1, <2>1 DEF ClientKeepsKeys, SecondStays, KeyedStays
<1>9. RecordsHaveKeys' /\ EarlyComesFirst' /\ EarlyIsAwaited'
  BY <1>8, ClientQueues DEF SecondStays
<1> QED
  BY <1>5, <1>6, <1>7, <1>9, ClientFrame DEF SecondStays, KeyedStays

\* The client writes a message of its second flight.
LEMMA SecondFlightSays ==
    ASSUME TlsInv, EarlyInv, FlowInv, SecondStays, c.state \notin ClientDone,
           ClientPlace', ClientKeys',
           NEW m, NEW key, ClientSays(m, key),
           MessageIsRight(Len(c.tr) + 1, m),
           \/ m.t \in {"certificate", "certificate_verify", "finished"} /\ key = c.handshake_key
           \/ m.t = "end_of_early_data" /\ key = c.early_key
    PROVE  FlowInv'
<1>1. s' = s /\ conf' = conf /\ failed' = failed
  BY DEF SecondStays, ClientIsAlone
<1>2. c.state \notin ClientListens
  BY DEF SecondStays, ClientSecond, ClientDone, ClientListens, ClientKeyed
<1>3. Heard = c.tr
  BY <1>2, ClientHasHeardAll
<1>4. m.t # "new_session_ticket"
  OBVIOUS
<1>5. Streams' /\ TranscriptsAgree' /\ Said(m)
  BY <1>1, <1>2, <1>4, ClientSaysStreams DEF SecondStays, KeyedStays
<1>6. MessagesAreRight'
  <2>1. TermsStay
    BY <1>1, ClientStepTerms
  <2> QED
    BY <1>3, <1>5, <2>1, MessagesStayRight DEF Said
<1>7. PICK r : IsMessage(r, m, key, c.tr) /\ ToServer' = Append(ToServer, r)
  BY DEF ClientSays
<1>8. ClientSends(r)
  <2>1. ClientRecordHasKey(r)'
    BY <1>4, <1>7 DEF IsMessage, ClientRecordHasKey, IsEarlyRecord, IsHs, Carries, SecondStays, KeyedStays
  <2>2. IsHs(r) /\ ~IsEarlyRecord(r)
    BY <1>4, <1>7 DEF IsMessage, IsHs, IsEarlyRecord
  <2> QED
    BY <1>7, <2>1, <2>2 DEF ClientSends
<1> QED
  BY <1>5, <1>6, <1>7, <1>8, SecondFlightFrame DEF Said, ClientSays

\* The client does something else in its second flight.
LEMMA SecondFlightPads ==
    ASSUME TlsInv, EarlyInv, FlowInv, SecondStays, ClientPlace', ClientKeys', c'.tr = c.tr,
           \/ ToClient' = ToClient
           \/ ToClient # <<>> /\ ~IsHs(ToClient[1]) /\ ToClient' = Tail(ToClient),
           \/ ToServer' = ToServer
           \/ \E r : ~IsHs(r) /\ ClientSends(r)
    PROVE  FlowInv'
<1>1. s' = s /\ conf' = conf /\ failed' = failed
  BY DEF SecondStays, ClientIsAlone
<1>2. Heard' = Heard
  BY <1>1 DEF SecondStays, KeyedStays, Heard, HashedAlone, TranscriptForHrr
<1>3. Streams' /\ TranscriptsAgree'
  BY <1>1, <1>2, PaddedStreams DEF PadsClient, PadsServer, ClientSends
<1>4. MessagesAreRight'
  <2>1. TermsStay
    BY <1>1, ClientStepTerms
  <2> QED
    BY <1>1, <1>2, <2>1, MessagesStayRight
<1> QED
  BY <1>2, <1>3, <1>4, SecondFlightFrame

\* Where a client of the second flight is, in numbers.
LEMMA SecondFlightPlace ==
    ASSUME TlsInv, FlowInv, SecondStays, c'.tr = c.tr \/ \E m : c'.tr = Append(c.tr, m)
    PROVE  /\ Len(c.tr) \in Nat
           /\ c'.tr = c.tr => Len(c'.tr) = Len(c.tr)
           /\ \A m : c'.tr = Append(c.tr, m) => Len(c'.tr) = Len(c.tr) + 1
           /\ HelloPlace' = HelloPlace /\ FlightEnd' = FlightEnd /\ CertificateEnd' = CertificateEnd
           /\ FlightEnd \in Nat /\ CertificateEnd \in Nat
           /\ s' = s /\ conf' = conf /\ OffersEarlyData' = OffersEarlyData
           /\ HashedAlone' = HashedAlone /\ ~HashedAlone /\ (c'.hrr => s'.hrr)
           /\ c'.client_auth <=> s'.certificate_request_sent
<1>1. s' = s /\ conf' = conf
  BY DEF SecondStays, ClientIsAlone
<1>2. ~HashedAlone /\ (c.hrr => s.hrr) /\ (c.client_auth <=> s.certificate_request_sent)
  BY DEF SecondStays, FlowInv, Places, ClientPlace
<1>3. IsSeq(c.tr) /\ Len(c.tr) \in Nat
  BY TranscriptsAre
<1>4. HashedAlone' = HashedAlone
  BY <1>1 DEF SecondStays, KeyedStays, HashedAlone
<1>5. \A m : c'.tr = Append(c.tr, m) => Len(c'.tr) = Len(c.tr) + 1
  BY <1>3, AppendIs
<1> QED
  BY <1>1, <1>2, <1>3, <1>4, <1>5, ClientStepTerms, PlacesAre DEF SecondStays, KeyedStays

\* What the client's second flight is made of.
LEMMA SecondFlightIs ==
    ASSUME EarlyInv, FlowInv, s.state \in ServerSecond
    PROVE  /\ s.early_accepted => ~s.certificate_request_sent /\ CertificateEnd = FlightEnd + 1
           /\ s.certificate_request_sent =>
                  ~s.early_accepted /\ CertificateEnd = FlightEnd + IF conf.c_cert = "none" THEN 1 ELSE 2
           /\ ~s.early_accepted /\ ~s.certificate_request_sent => CertificateEnd = FlightEnd
<1>1. /\ s.early_accepted => s.mode \in PskModes
      /\ s.mode \in PskModes => ~s.certificate_request_sent
      /\ s.early_accepted => ~s.certificate_request_sent
      /\ FlightEnd \in Nat
  BY PlacesAre DEF EarlyInv, AcceptanceIsRight, FlowInv, Places, ServerPlace
<1> DEFINE accepted == s.early_accepted = TRUE
           asked == s.certificate_request_sent = TRUE
<1>2. /\ s.early_accepted \in BOOLEAN => (s.early_accepted <=> accepted)
      /\ s.certificate_request_sent \in BOOLEAN => (s.certificate_request_sent <=> asked)
  OBVIOUS
<1> QED
  BY <1>1 DEF CertificateEnd

\* A message behind the server's flight.
LEMMA SecondMessageIsRight ==
    ASSUME FlowInv, NEW i \in Nat, i > FlightEnd, NEW m,
           i = FlightEnd + 1 /\ s.early_accepted => m.t = "end_of_early_data",
           i = FlightEnd + 1 /\ s.certificate_request_sent =>
               m.t = "certificate" /\ m.cert = conf.c_cert,
           i = FlightEnd + 2 /\ s.certificate_request_sent /\ conf.c_cert # "none" =>
               m.t = "certificate_verify",
           i = CertificateEnd + 1 => m.t = "finished"
    PROVE  MessageIsRight(i, m)
<1>1. /\ HelloPlace \in {1, 3} /\ Asked \in {0, 1}
      /\ FlightEnd \in Nat /\ FlightEnd >= HelloPlace + 3
  BY PlacesAre
<1>2. s.mode \notin PskModes => FlightEnd = HelloPlace + 5 + Asked
  BY DEF FlightEnd
<1>3. /\ i # 2 /\ i # HelloPlace /\ i # HelloPlace + 1 /\ i # HelloPlace + 2 /\ i # HelloPlace + 3
      /\ i # FlightEnd
  BY <1>1
<1>4. s.mode \notin PskModes => i # HelloPlace + 3 + Asked /\ i # HelloPlace + 4 + Asked
  BY <1>1, <1>2
<1> QED
  BY <1>3, <1>4 DEF MessageIsRight

\* The client says that its early data ends.
LEMMA WriteEndOfEarlyDataFlow ==
    ASSUME TlsInv, EarlyInv, FlowInv, WriteEndOfEarlyData
    PROVE  FlowInv'
<1> DEFINE m == [t |-> "end_of_early_data"]
<1>1. /\ c.state = "END_OF_EARLY_DATA" /\ c'.state = "CLIENT_CERTIFICATE"
      /\ ClientIsAlone /\ ClientSays(m, c.tout)
      /\ ClientChanges({"state", "tr"})
  BY WriteEndOfEarlyDataDoes
<1>2. SecondStays /\ c'.tout = c.tout
  BY <1>1 DEF ClientChanges, ClientFields, SecondStays, KeyedStays, ClientSecond
<1>3. c'.tr = Append(c.tr, m)
  BY <1>1 DEF ClientSays
<1>4. Len(c.tr) = FlightEnd /\ s.early_accepted
  BY <1>1 DEF FlowInv, Places, ClientPlace
<1>5. c.tout = c.early_key
  <2>1. OffersEarlyData /\ ~c.hrr
    BY <1>4 DEF FlowInv, ServerParameters, Places, ClientPlace
  <2> QED
    BY <1>1, <2>1 DEF FlowInv, ClientKeys
<1> HIDE DEF m
<1>6. ClientPlace'
  BY <1>1, <1>2, <1>3, <1>4, SecondFlightPlace DEF ClientPlace, ClientDone, ClientSecond
<1>7. ClientKeys'
  BY <1>1 DEF ClientKeys, ClientBegins, ClientKeyed
<1>8. MessageIsRight(Len(c.tr) + 1, m)
  <2>1. s.state \in ServerSecond
    BY <1>2, SecondFlightIsHeard DEF SecondStays
  <2>2. ~s.certificate_request_sent /\ CertificateEnd = FlightEnd + 1 /\ m.t = "end_of_early_data"
    BY <1>4, <2>1, SecondFlightIs DEF m
  <2>3. FlightEnd \in Nat /\ FlightEnd + 1 \in Nat /\ FlightEnd + 1 > FlightEnd
    BY PlacesAre
  <2>4. CertificateEnd + 1 # FlightEnd + 1
    BY <2>2, <2>3
  <2>5. MessageIsRight(FlightEnd + 1, m)
    BY <2>2, <2>3, <2>4, SecondMessageIsRight
  <2> QED
    BY <1>4, <2>5
<1> QED
  BY <1>1, <1>2, <1>5, <1>6, <1>7, <1>8, SecondFlightSays DEF m, ClientDone

\* A server that listens to the client's second flight has said all of its own.
LEMMA ServerSecondPlace ==
    ASSUME TlsInv, FlowInv, s.state \in ServerSecond
    PROVE  FlightEnd <= Len(s.tr)
<1>1. Len(s.tr) \in Nat /\ FlightEnd \in Nat /\ CertificateEnd \in Nat /\ CertificateEnd >= FlightEnd
  BY TranscriptsAre, PlacesAre
<1>2. s.state \in {"END_OF_EARLY_DATA", "CLIENT_CERTIFICATE", "CLIENT_CERTIFICATE_VERIFY",
                   "CLIENT_FINISHED"} \cup ServerDone
  BY DEF ServerSecond
<1>3. \/ Len(s.tr) = FlightEnd \/ Len(s.tr) = FlightEnd + 1
      \/ Len(s.tr) = CertificateEnd \/ Len(s.tr) = CertificateEnd + 1
  BY <1>2 DEF FlowInv, Places, ServerPlace
<1> QED
  BY <1>1, <1>3

\* The dummy record of the client, behind early data that was rejected.
LEMMA ClientCcsAfterServerFinishedFlow ==
    ASSUME TlsInv, EarlyInv, FlowInv, ClientCcsAfterServerFinished
    PROVE  FlowInv'
<1>1. /\ c.state = "CLIENT_CCS_AFTER_SERVER_FINISHED" /\ c'.state = "CLIENT_CERTIFICATE"
      /\ ClientIsAlone /\ ClientPads
      /\ ClientChanges({"state", "ccs_sent"})
  BY ClientCcsAfterServerFinishedDoes
<1>2. SecondStays /\ c'.tr = c.tr
  BY <1>1 DEF ClientChanges, ClientFields, SecondStays, KeyedStays, ClientSecond
<1>3. Len(c.tr) = FlightEnd /\ ~s.early_accepted /\ (s.hrr => c.hrr)
  BY <1>1 DEF FlowInv, Places, ClientPlace, HashedAlone, ClientSecond
<1>4. ClientPlace'
  <2>1. s'.early_accepted = s.early_accepted /\ FlightEnd + 0 = FlightEnd
    BY <1>2, SecondFlightPlace
  <2> QED
    BY <1>1, <1>2, <1>3, <2>1, SecondFlightPlace DEF ClientPlace, ClientDone, ClientSecond
<1>5. ClientKeys'
  BY <1>1 DEF ClientKeys, ClientBegins, ClientKeyed
<1>6. s.state \in ServerSecond /\ ~HelloUnread
  BY <1>2, SecondFlightIsHeard DEF SecondStays
<1>7. ASSUME NEW r, IsPadding(r, c.tout), ToServer' = Append(ToServer, r)
      PROVE  ~IsHs(r) /\ ClientSends(r)
  <2>1. c.tout = IF OffersEarlyData /\ ~c.hrr THEN c.early_key ELSE NoKey
    BY <1>1 DEF FlowInv, ClientKeys
  <2>2. ~IsHs(r) /\ (IsEarlyRecord(r) => OffersEarlyData /\ ~c.hrr /\ r.key = c.early_key)
    BY <1>7, <2>1 DEF IsPadding, IsHs, IsEarlyRecord
  <2>3. ClientRecordHasKey(r)'
    <3>1. c'.state \in ClientSecond /\ HelloSent' /\ s'.early_accepted = s.early_accepted
          /\ c'.early_key = c.early_key /\ OffersEarlyData' = OffersEarlyData
      BY <1>1, <1>2, SecondFlightPlace DEF SecondStays, KeyedStays, HelloSent
    <3> QED
      BY <1>3, <1>7, <2>2, <3>1 DEF IsPadding, ClientRecordHasKey, IsEarlyRecord, IsHs, Carries
  <2>4. ASSUME failed.server = "no", IsEarlyRecord(r)
        PROVE  OnlyFirstHello /\ ServerIsReady
    <3>1. Heard = c.tr /\ Len(s.tr) <= Len(Heard)
      BY <1>1, ClientHasHeardAll DEF ClientListens, ClientKeyed
    <3>2. FlightEnd <= Len(s.tr)
      BY <1>6, ServerSecondPlace
    <3>3. Len(Heard) <= Len(s.tr) /\ Len(s.tr) <= FlightEnd
      BY <1>3, <3>1, <3>2
    <3>4. NoHs(ToServer)
      BY <2>4, <3>3, QueuesAreIdle
    <3>5. s.discard # "NO_DISCARD"
      BY <1>3, <1>6, <2>2, <2>4, <3>3 DEF FlowInv, DiscardIsRight
    <3> QED
      BY <1>3, <3>4, <3>5 DEF OnlyFirstHello, NoHs, ServerIsReady
  <2> QED
    BY <1>6, <1>7, <2>2, <2>3, <2>4 DEF ClientSends
<1> QED
  BY <1>1, <1>2, <1>4, <1>5, <1>7, SecondFlightPads DEF ClientPads

\* The client's certificate, if the server asked for one.
LEMMA WriteClientCertificateFlow ==
    ASSUME TlsInv, EarlyInv, FlowInv, WriteClientCertificate
    PROVE  FlowInv'
<1> DEFINE m == [t |-> "certificate", cert |-> conf.c_cert]
<1>1. /\ c.state = "CLIENT_CERTIFICATE" /\ ClientIsAlone
      /\ c'.state = IF c.client_auth /\ conf.c_cert # "none" THEN "CLIENT_CERTIFICATE_VERIFY"
                    ELSE "CLIENT_FINISHED"
      /\ IF c.client_auth THEN ClientSays(m, c.handshake_key) ELSE QueuesStay /\ c'.tr = c.tr
      /\ ClientChanges({"state", "tr", "tout"}) /\ c'.tout = c.handshake_key
  BY WriteClientCertificateDoes
<1> HIDE DEF m
<1>2. SecondStays
  BY <1>1 DEF ClientChanges, ClientFields, SecondStays, KeyedStays, ClientSecond
<1>3. /\ Len(c.tr) = FlightEnd + (IF s.early_accepted THEN 1 ELSE 0)
      /\ c.client_auth <=> s.certificate_request_sent
  BY <1>1 DEF FlowInv, Places, ClientPlace, ClientSecond
<1>4. /\ s.early_accepted => ~s.certificate_request_sent /\ CertificateEnd = FlightEnd + 1
      /\ s.certificate_request_sent =>
             ~s.early_accepted /\ CertificateEnd = FlightEnd + IF conf.c_cert = "none" THEN 1 ELSE 2
      /\ ~s.early_accepted /\ ~s.certificate_request_sent => CertificateEnd = FlightEnd
  BY <1>2, SecondFlightIsHeard, SecondFlightIs DEF SecondStays
<1>5. FlightEnd \in Nat /\ FlightEnd + 0 = FlightEnd /\ FlightEnd + 1 \in Nat /\ FlightEnd + 1 > FlightEnd
      /\ FlightEnd + 2 + 1 # FlightEnd + 1 /\ FlightEnd + 1 + 1 # FlightEnd + 1
      /\ FlightEnd + 2 # FlightEnd + 1
  BY PlacesAre
<1>6. ClientKeys'
  <2>1. c'.state \in {"CLIENT_CERTIFICATE_VERIFY", "CLIENT_FINISHED"} /\ c'.handshake_key = c.handshake_key
    BY <1>1, <1>2 DEF SecondStays, KeyedStays
  <2> QED
    BY <1>1, <2>1 DEF ClientKeys, ClientBegins, ClientKeyed
<1>7. CASE c.client_auth
  <2>1. ClientSays(m, c.handshake_key) /\ s.certificate_request_sent /\ c'.tr = Append(c.tr, m)
    BY <1>1, <1>3, <1>7 DEF ClientSays
  <2>2. Len(c.tr) = FlightEnd
    BY <1>3, <1>4, <1>5, <2>1
  <2>3. m.t = "certificate" /\ m.cert = conf.c_cert
    BY DEF m
  <2>4. MessageIsRight(FlightEnd + 1, m)
    BY <1>4, <1>5, <2>1, <2>3, SecondMessageIsRight
  <2>5. Len(c'.tr) = FlightEnd + 1
    BY <1>2, <2>1, <2>2, SecondFlightPlace
  <2>6. ClientPlace'
    BY <1>1, <1>2, <1>4, <1>7, <2>1, <2>5, SecondFlightPlace DEF ClientPlace, ClientDone, ClientSecond
  <2>7. MessageIsRight(Len(c.tr) + 1, m) /\ c.state \notin ClientDone
    BY <1>1, <2>2, <2>4 DEF ClientDone
  <2> QED
    BY <1>2, <1>6, <2>1, <2>3, <2>6, <2>7, SecondFlightSays
<1>8. CASE ~c.client_auth
  <2>1. QueuesStay /\ c'.tr = c.tr /\ ~s.certificate_request_sent /\ c'.state = "CLIENT_FINISHED"
    BY <1>1, <1>3, <1>8
  <2>2. Len(c.tr) = CertificateEnd
    BY <1>3, <1>4, <1>5, <2>1
  <2>3. ClientPlace'
    BY <1>1, <1>2, <2>1, <2>2, SecondFlightPlace DEF ClientPlace, ClientDone, ClientSecond
  <2> QED
    BY <1>2, <1>6, <2>1, <2>3, SecondFlightPads DEF QueuesStay
<1> QED
  BY <1>7, <1>8

\* The signature of the client.
LEMMA WriteClientCertificateVerifyFlow ==
    ASSUME TlsInv, EarlyInv, FlowInv, WriteClientCertificateVerify
    PROVE  FlowInv'
<1> DEFINE m == [t |-> "certificate_verify"]
<1>1. /\ c.state = "CLIENT_CERTIFICATE_VERIFY" /\ c'.state = "CLIENT_FINISHED"
      /\ ClientIsAlone /\ ClientSays(m, c.tout)
      /\ ClientChanges({"state", "tr"})
  BY WriteClientCertificateVerifyDoes
<1> HIDE DEF m
<1>2. SecondStays /\ c'.tout = c.tout
  BY <1>1 DEF ClientChanges, ClientFields, SecondStays, KeyedStays, ClientSecond
<1>3. Len(c.tr) = FlightEnd + 1 /\ conf.c_cert # "none" /\ s.certificate_request_sent
  BY <1>1 DEF FlowInv, Places, ClientPlace
<1>4. ~s.early_accepted /\ CertificateEnd = FlightEnd + 2
  BY <1>2, <1>3, SecondFlightIsHeard, SecondFlightIs DEF SecondStays
<1>5. FlightEnd \in Nat /\ FlightEnd + 1 + 1 = FlightEnd + 2 /\ FlightEnd + 2 \in Nat
      /\ FlightEnd + 2 > FlightEnd /\ FlightEnd + 2 # FlightEnd + 1 /\ FlightEnd + 2 + 1 # FlightEnd + 2
  BY PlacesAre
<1>6. c'.tr = Append(c.tr, m) /\ m.t = "certificate_verify"
  BY <1>1 DEF ClientSays, m
<1>7. Len(c'.tr) = CertificateEnd
  BY <1>2, <1>3, <1>4, <1>5, <1>6, SecondFlightPlace
<1>8. ClientPlace'
  BY <1>1, <1>2, <1>6, <1>7, SecondFlightPlace DEF ClientPlace, ClientDone, ClientSecond
<1>9. c.tout = c.handshake_key /\ ClientKeys'
  <2>1. c.tout = c.handshake_key
    BY <1>1 DEF FlowInv, ClientKeys
  <2> QED
    BY <1>1, <1>2, <2>1 DEF ClientKeys, ClientBegins, ClientKeyed, SecondStays, KeyedStays
<1>10. MessageIsRight(FlightEnd + 2, m)
  BY <1>4, <1>5, <1>6, SecondMessageIsRight
<1>11. MessageIsRight(Len(c.tr) + 1, m) /\ c.state \notin ClientDone
  <2>1. Len(c.tr) + 1 = FlightEnd + 2
    BY <1>3, <1>5
  <2> QED
    BY <1>1, <1>10, <2>1 DEF ClientDone
<1> QED
  BY <1>1, <1>2, <1>6, <1>8, <1>9, <1>11, SecondFlightSays

\* The client's Finished.
LEMMA WriteClientFinishedFlow ==
    ASSUME TlsInv, EarlyInv, FlowInv, WriteClientFinished
    PROVE  FlowInv'
<1> DEFINE m == [t |-> "finished"]
<1>1. /\ c.state = "CLIENT_FINISHED" /\ c'.state = "FLUSH_BUFFERS"
      /\ ClientIsAlone /\ ClientSays(m, c.tout)
      /\ ClientChanges({"state", "resumption", "tr"})
  BY WriteClientFinishedDoes
<1> HIDE DEF m
<1>2. SecondStays /\ c'.tout = c.tout
  BY <1>1 DEF ClientChanges, ClientFields, SecondStays, KeyedStays, ClientSecond, ClientDone
<1>3. Len(c.tr) = CertificateEnd /\ c.tout = c.handshake_key
  BY <1>1 DEF FlowInv, Places, ClientPlace, ClientKeys
<1>4. /\ s.early_accepted => ~s.certificate_request_sent /\ CertificateEnd = FlightEnd + 1
      /\ s.certificate_request_sent =>
             ~s.early_accepted /\ CertificateEnd = FlightEnd + IF conf.c_cert = "none" THEN 1 ELSE 2
      /\ ~s.early_accepted /\ ~s.certificate_request_sent => CertificateEnd = FlightEnd
  BY <1>2, SecondFlightIsHeard, SecondFlightIs DEF SecondStays
<1>5. FlightEnd \in Nat /\ CertificateEnd + 1 \in Nat /\ CertificateEnd + 1 > FlightEnd
  BY PlacesAre
<1>6. /\ s.early_accepted => CertificateEnd + 1 # FlightEnd + 1
      /\ s.certificate_request_sent => CertificateEnd + 1 # FlightEnd + 1
      /\ s.certificate_request_sent /\ conf.c_cert # "none" => CertificateEnd + 1 # FlightEnd + 2
  <2>1. CertificateEnd = FlightEnd + 1 => CertificateEnd + 1 # FlightEnd + 1
    BY <1>5
  <2>2. CertificateEnd = FlightEnd + 2 =>
            CertificateEnd + 1 # FlightEnd + 1 /\ CertificateEnd + 1 # FlightEnd + 2
    BY <1>5
  <2> QED
    BY <1>4, <2>1, <2>2
<1>7. c'.tr = Append(c.tr, m) /\ m.t = "finished"
  BY <1>1 DEF ClientSays, m
<1>8. MessageIsRight(CertificateEnd + 1, m)
  BY <1>5, <1>6, <1>7, SecondMessageIsRight
<1>9. Len(c'.tr) = CertificateEnd + 1
  BY <1>2, <1>3, <1>7, SecondFlightPlace
<1>10. ClientPlace'
  BY <1>1, <1>2, <1>7, <1>9, SecondFlightPlace DEF ClientPlace, ClientDone, ClientSecond
<1>11. ClientKeys'
  BY <1>1 DEF ClientKeys, ClientBegins, ClientKeyed
<1>12. MessageIsRight(Len(c.tr) + 1, m) /\ c.state \notin ClientDone
  BY <1>1, <1>3, <1>8 DEF ClientDone
<1> QED
  BY <1>1, <1>2, <1>3, <1>7, <1>10, <1>11, <1>12, SecondFlightSays

\* The client's handshake comes to its end, or a ticket comes after it.
LEMMA ClientWrapupFlow ==
    ASSUME TlsInv, EarlyInv, FlowInv,
           ClientFlushBuffers \/ ClientHandshakeWrapup \/ ProcessNewSessionTicket
    PROVE  FlowInv'
<1>1. /\ c.state \in ClientDone /\ c'.state \in ClientDone /\ ClientIsAlone
      /\ ClientChanges({"state", "tin", "tout", "tickets"})
      /\ ToServer' = ToServer
      /\ \/ ToClient' = ToClient
         \/ ToClient # <<>> /\ ~IsHs(ToClient[1]) /\ ToClient' = Tail(ToClient)
  <2>1. CASE ClientFlushBuffers \/ ClientHandshakeWrapup
    BY <2>1, ClientWrapupDoes DEF ClientChanges, ClientFields, ClientDone, QueuesStay
  <2>2. CASE ProcessNewSessionTicket
    BY <2>2, ProcessNewSessionTicketDoes DEF ClientChanges, ClientFields, ClientDone
  <2> QED
    BY <2>1, <2>2
<1>2. SecondStays /\ c'.tr = c.tr
  BY <1>1 DEF ClientChanges, ClientFields, SecondStays, KeyedStays, ClientSecond
<1>3. Len(c.tr) = CertificateEnd + 1
  BY <1>1 DEF FlowInv, Places, ClientPlace
<1>4. ClientPlace'
  BY <1>1, <1>2, <1>3, SecondFlightPlace DEF ClientPlace, ClientDone, ClientSecond
<1>5. ClientKeys'
  BY <1>1 DEF ClientKeys, ClientBegins, ClientKeyed, ClientDone
<1> QED
  BY <1>1, <1>2, <1>4, <1>5, SecondFlightPads
-----------------------------------------------------------------------------
(* The client reads the flight of the server.                              *)

\* What early data is for a client in the flight of the server.
LEMMA EarlyInFlight ==
    ASSUME TlsInv, FlowInv, c.state \in ClientKeyed
    PROVE  /\ c.early \in {"CAN_WRITE", "ACCEPTED"} => ~c.hrr /\ c.early # "NO_IND_SENT"
           /\ c.early = "ACCEPTED" => s.early_accepted
           /\ c.early # "IND_SENT"
           /\ c.state # "ENCRYPTED_EXTENSIONS" => c.early # "CAN_WRITE"
           /\ s.early_accepted => c.early # "NO_IND_SENT" /\ ~c.hrr
<1>1. HelloSent
  BY DEF HelloSent, ClientKeyed
<1>2. c.state \notin {"CLIENT_CCS_AFTER_CLIENT_HELLO", "SERVER_HELLO"}
  BY DEF ClientKeyed
<1>3. s.early_accepted => ~s.hrr /\ OffersEarlyData
  BY DEF FlowInv, ServerParameters
<1> QED
  BY <1>1, <1>2, <1>3 DEF FlowInv, ClientParameters, Places, ClientPlace

\* The frame of the client's steps that read the flight of the server.
LEMMA FlightFrame ==
    ASSUME TlsInv, EarlyInv, FlowInv, ClientIsAlone, KeyedStays,
           c.state \in ClientKeyed, c.handshake_key = s.handshake_key,
           c'.state \in (ClientKeyed \ {"ENCRYPTED_EXTENSIONS"}) \cup ClientSecond,
           c'.state = "SERVER_CERTIFICATE" => s.state # "CERTIFICATE_REQUEST",
           c'.state \in ClientSecond => Len(c'.tr) = FlightEnd,
           c'.early = "NO_IND_SENT" <=> c.early = "NO_IND_SENT",
           c'.early = "REJECTED" \/ ~c.hrr \/ c'.early = c.early,
           c'.early \in {"CAN_WRITE", "ACCEPTED", "IND_SENT"} =>
               c'.early = "ACCEPTED" /\ s.early_accepted /\ c'.state \in ClientKeyed,
           ClientHears(c.tr) \/ (QueuesStay /\ c'.tr = c.tr /\ Len(c.tr) < Len(s.tr)),
           c'.client_auth \in {c.client_auth, TRUE, FALSE},
           ClientPlace', ClientKeys'
    PROVE  FlowInv'
<1>1. s' = s /\ conf' = conf /\ failed' = failed /\ failed.client = "no"
  BY DEF ClientIsAlone
<1>2. ~HashedAlone /\ c'.hrr = c.hrr
  BY DEF FlowInv, Places, ClientPlace, KeyedStays
<1>3. Heard = c.tr /\ Heard' = c'.tr
  BY <1>1, <1>2, TranscriptsAre DEF Heard, HashedAlone
<1>4. TermsStay
  BY <1>1, ClientStepTerms
<1>5. /\ Streams' /\ TranscriptsAgree' /\ MessagesAreRight'
      /\ \/ Heard' = Heard /\ Len(Heard) <= Len(s.tr)
         \/ (\E m : Heard' = Append(Heard, m)) /\ Len(Heard) + 1 <= Len(s.tr)
  <2>1. CASE ClientHears(c.tr)
    <3> DEFINE m == ToClient[1].msg
    <3>1. ClientHears(Heard)
      BY <1>3, <2>1
    <3>2. /\ Streams' /\ TranscriptsAgree' /\ Said(m)
          /\ Len(Heard) + 1 <= Len(s.tr) /\ m = s.tr[Len(Heard) + 1]
      BY <1>1, <1>3, <3>1, ClientHearsStreams
    <3>3. MessageIsRight(Len(Heard) + 1, m)
      <4>1. Len(Heard) + 1 \in 1 .. Len(s.tr)
        BY <3>2, TranscriptsAre
      <4> QED
        BY <3>2, <4>1 DEF FlowInv, MessagesAreRight
    <3>4. MessagesAreRight'
      BY <1>4, <3>2, <3>3, MessagesStayRight DEF Said
    <3> QED
      BY <3>2, <3>4 DEF Said
  <2>2. CASE QueuesStay /\ c'.tr = c.tr /\ Len(c.tr) < Len(s.tr)
    <3>1. Heard' = Heard
      BY <1>3, <2>2
    <3>2. Streams' /\ TranscriptsAgree'
      BY <1>1, <2>2, <3>1, PaddedStreams DEF PadsClient, PadsServer, QueuesStay
    <3>3. MessagesAreRight'
      BY <1>1, <1>4, <3>1, MessagesStayRight
    <3>4. Len(Heard) <= Len(s.tr)
      BY <1>3, <2>2, TranscriptsAre
    <3> QED
      BY <3>1, <3>2, <3>3, <3>4
  <2> QED
    BY <2>1, <2>2
<1>6. ClientParameters'
  <2>1. c'.tr = c.tr \/ \E m : c'.tr = Append(c.tr, m)
    BY DEF ClientHears
  <2> QED
    BY <1>1, <2>1, KeyedParameters DEF KeyedStays
<1>7. Turns'
  <2>1. c'.state \in ClientKeyed \/ (c'.state \in ClientSecond /\ Len(Heard') = FlightEnd)
    BY <1>3
  <2> QED
    BY <1>1, <1>2, <1>5, <2>1, FlightTurns
<1>8. ValuesAreKnown'
  BY <1>1, <1>2, ValuesStayKnown
<1>9. ClientKeepsKeys
  <2>1. HelloSent' /\ c.state \notin ClientSecond
    BY DEF HelloSent, ClientSecond, ClientDone, ClientKeyed
  <2> QED
    BY <1>1, <2>1 DEF ClientKeepsKeys, KeyedStays
<1>10. /\ ToServer' = ToServer
       /\ ToClient' = ToClient \/ (ToClient # <<>> /\ ToClient' = Tail(ToClient))
  BY DEF ClientHears, QueuesStay
<1>11. RecordsHaveKeys' /\ EarlyComesFirst' /\ EarlyIsAwaited'
  BY <1>9, <1>10, ClientQueues
<1> QED
  BY <1>5, <1>6, <1>7, <1>8, <1>11, ClientFrame DEF KeyedStays

\* What a client in the flight of the server keeps from the server.
LEMMA FlightPlace ==
    ASSUME TlsInv, FlowInv, ClientIsAlone, KeyedStays, c.state \in ClientKeyed,
           c'.tr = c.tr \/ \E m : c'.tr = Append(c.tr, m)
    PROVE  /\ Len(c.tr) \in Nat
           /\ c'.tr = c.tr => Len(c'.tr) = Len(c.tr)
           /\ \A m : c'.tr = Append(c.tr, m) => Len(c'.tr) = Len(c.tr) + 1
           /\ HelloPlace' = HelloPlace /\ FlightEnd' = FlightEnd /\ Asked' = Asked
           /\ s' = s /\ conf' = conf /\ OffersEarlyData' = OffersEarlyData
           /\ ~HashedAlone' /\ (c'.hrr => s'.hrr)
           /\ HelloPlace \in {1, 3} /\ Asked \in {0, 1}
<1>1. s' = s /\ conf' = conf
  BY DEF ClientIsAlone
<1>2. ~HashedAlone /\ (c.hrr => s.hrr)
  BY DEF FlowInv, Places, ClientPlace
<1>3. IsSeq(c.tr) /\ Len(c.tr) \in Nat
  BY TranscriptsAre
<1>4. HashedAlone' = HashedAlone
  BY <1>1 DEF KeyedStays, HashedAlone
<1>5. \A m : c'.tr = Append(c.tr, m) => Len(c'.tr) = Len(c.tr) + 1
  BY <1>3, AppendIs
<1> QED
  BY <1>1, <1>2, <1>3, <1>4, <1>5, ClientStepTerms, PlacesAre DEF KeyedStays

\* The keys of a client in the flight of the server, or behind it.
LEMMA FlightKeys ==
    ASSUME FlowInv, ClientIsAlone, KeyedStays, c.state \in ClientKeyed, c'.tout = c.tout,
           c'.state \in ClientKeyed \cup {"END_OF_EARLY_DATA", "CLIENT_CCS_AFTER_SERVER_FINISHED",
                                          "CLIENT_CERTIFICATE"}
    PROVE  ClientKeys'
<1>1. c'.state \notin ClientBegins \cup {"CLIENT_CERTIFICATE_VERIFY", "CLIENT_FINISHED"}
  BY DEF ClientKeyed, ClientBegins
<1>2. c.tout = IF OffersEarlyData /\ ~c.hrr THEN c.early_key ELSE NoKey
  BY DEF FlowInv, ClientKeys
<1>3. OffersEarlyData' = OffersEarlyData
  BY ClientStepTerms DEF ClientIsAlone
<1> QED
  BY <1>1, <1>2, <1>3 DEF ClientKeys, KeyedStays

\* The client learns whether its early data is accepted.
LEMMA ProcessEncryptedExtensionsFlow ==
    ASSUME TlsInv, EarlyInv, FlowInv, ProcessEncryptedExtensions
    PROVE  FlowInv'
<1>1. /\ c.state = "ENCRYPTED_EXTENSIONS"
      /\ c'.state = IF c.mode \in PskModes THEN "SERVER_FINISHED" ELSE "CERTIFICATE_REQUEST"
      /\ ClientIsAlone /\ ClientHears(c.tr)
      /\ ClientChanges({"state", "tr", "early"})
      /\ c'.early = IF s.early_accepted THEN "ACCEPTED"
                    ELSE IF c.early = "NO_IND_SENT" THEN c.early ELSE "REJECTED"
  BY ProcessEncryptedExtensionsDoes
<1>2. /\ KeyedStays /\ c'.tout = c.tout /\ c'.client_auth = c.client_auth
      /\ c.state \in ClientKeyed /\ c'.state \in ClientKeyed \ {"ENCRYPTED_EXTENSIONS"}
  BY <1>1 DEF ClientChanges, ClientFields, KeyedStays, ClientKeyed
<1>3. c.handshake_key = s.handshake_key /\ c.mode = s.mode
  <2>1. Receives("client", "encrypted_extensions")
    BY DEF ProcessEncryptedExtensions
  <2> QED
    BY <1>2, <2>1, ClientInFlight
<1>4. Len(c.tr) = HelloPlace + 1 /\ ~c.client_auth
  BY <1>1 DEF FlowInv, Places, ClientPlace, ClientSecond, ClientDone
<1>5. \E m : c'.tr = Append(c.tr, m)
  BY <1>1 DEF ClientHears
<1>6. Len(c'.tr) = HelloPlace + 2
  <2>1. Len(c'.tr) = Len(c.tr) + 1 /\ HelloPlace \in Nat
    BY <1>1, <1>2, <1>5, FlightPlace
  <2> QED
    BY <1>4, <2>1
<1>7. s.mode \in PskModes => FlightEnd - 1 = HelloPlace + 2
  <2>1. s.mode \in PskModes => FlightEnd = HelloPlace + 3
    BY DEF FlightEnd
  <2> QED
    BY <2>1, PlacesAre
<1>8. ClientPlace'
  <2>1. CASE s.mode \in PskModes
    <3>1. c'.state = "SERVER_FINISHED" /\ (c.client_auth <=> s.certificate_request_sent)
          /\ Len(c'.tr) = FlightEnd - 1
      BY <1>1, <1>3, <1>4, <1>6, <1>7, <2>1 DEF FlowInv, Places, ServerPlace
    <3> QED
      BY <1>1, <1>2, <1>4, <1>5, <3>1, FlightPlace DEF ClientPlace, ClientDone, ClientSecond, ClientKeyed
  <2>2. CASE s.mode \notin PskModes
    <3>1. c'.state = "CERTIFICATE_REQUEST"
      BY <1>1, <1>3, <2>2
    <3> QED
      BY <1>1, <1>2, <1>4, <1>5, <1>6, <2>2, <3>1, FlightPlace DEF ClientPlace, ClientDone, ClientSecond, ClientKeyed
  <2> QED
    BY <2>1, <2>2
<1>9. ClientKeys'
  BY <1>1, <1>2, FlightKeys
<1>10. c'.state \notin ClientSecond \cup {"SERVER_CERTIFICATE"}
  BY <1>1 DEF ClientSecond, ClientDone
<1> QED
  BY <1>1, <1>2, <1>3, <1>8, <1>9, <1>10, EarlyInFlight, FlightFrame

\* The client learns whether it has to show a certificate.
LEMMA ProcessCertificateRequestFlow ==
    ASSUME TlsInv, EarlyInv, FlowInv, ProcessCertificateRequest
    PROVE  FlowInv'
<1>1. /\ c.state = "CERTIFICATE_REQUEST" /\ c'.state = "SERVER_CERTIFICATE"
      /\ ClientIsAlone
      /\ \/ /\ s.certificate_request_sent /\ c'.client_auth = TRUE
            /\ ClientHears(c.tr) /\ ClientChanges({"state", "tr", "client_auth"})
         \/ /\ ~s.certificate_request_sent /\ c'.client_auth = FALSE
            /\ QueuesStay /\ ClientChanges({"state", "client_auth"})
            /\ Len(c.tr) < Len(s.tr)
  BY ProcessCertificateRequestDoes
<1>2. /\ KeyedStays /\ c'.tout = c.tout /\ c'.early = c.early
      /\ c.state \in ClientKeyed /\ c'.state \in ClientKeyed \ {"ENCRYPTED_EXTENSIONS"}
  BY <1>1 DEF ClientChanges, ClientFields, KeyedStays, ClientKeyed
<1>3. c.handshake_key = s.handshake_key
  BY <1>1, <1>2 DEF FlowInv, ClientParameters
<1>4. Len(c.tr) = HelloPlace + 2 /\ s.mode \notin PskModes
  BY <1>1 DEF FlowInv, Places, ClientPlace
<1>5. /\ ClientHears(c.tr) => \E m : c'.tr = Append(c.tr, m)
      /\ ClientChanges({"state", "client_auth"}) => c'.tr = c.tr
  BY DEF ClientHears, ClientChanges, ClientFields
<1>6. c'.tr = c.tr \/ \E m : c'.tr = Append(c.tr, m)
  BY <1>1, <1>5
<1>7. Len(c'.tr) = HelloPlace + 2 + Asked
  <2>1. HelloPlace + 2 + 0 = HelloPlace + 2 /\ HelloPlace + 2 + 1 = (HelloPlace + 2) + 1
    BY PlacesAre
  <2>2. CASE s.certificate_request_sent /\ ClientHears(c.tr)
    BY <1>1, <1>2, <1>4, <1>5, <2>1, <2>2, FlightPlace DEF Asked
  <2>3. CASE ~s.certificate_request_sent /\ c'.tr = c.tr
    BY <1>1, <1>2, <1>4, <1>6, <2>1, <2>3, FlightPlace DEF Asked
  <2> QED
    BY <1>1, <1>5, <2>2, <2>3
<1>8. c'.client_auth <=> s.certificate_request_sent
  BY <1>1
<1>9. ClientPlace'
  BY <1>1, <1>2, <1>4, <1>6, <1>7, <1>8, FlightPlace DEF ClientPlace, ClientDone, ClientSecond, ClientKeyed
<1>10. ClientKeys'
  BY <1>1, <1>2, FlightKeys
<1>11. c'.state \notin ClientSecond
  BY <1>1 DEF ClientSecond, ClientDone
<1>12. s.state # "CERTIFICATE_REQUEST"
  <2>1. Len(c.tr) < Len(s.tr)
    <3>1. CASE ClientHears(c.tr)
      <4>1. Heard = c.tr
        BY <1>2, TranscriptsAre DEF FlowInv, Places, ClientPlace
      <4>2. Heard' = c'.tr
        BY <1>1, <1>2, <1>6, FlightPlace DEF Heard
      <4>3. Len(Heard) + 1 <= Len(s.tr)
        BY <1>1, <3>1, <4>1, <4>2, ClientHearsStreams DEF ClientIsAlone
      <4> QED
        BY <4>1, <4>3, TranscriptsAre
    <3> QED
      BY <1>1, <3>1
  <2>2. s.state = "CERTIFICATE_REQUEST" => Len(s.tr) = HelloPlace + 2
    BY DEF FlowInv, Places, ServerPlace
  <2> QED
    BY <1>4, <2>1, <2>2, PlacesAre
<1>13. \/ ClientHears(c.tr)
       \/ QueuesStay /\ c'.tr = c.tr /\ Len(c.tr) < Len(s.tr)
  BY <1>1, <1>5
<1> QED
  BY <1>1, <1>2, <1>3, <1>9, <1>10, <1>11, <1>12, <1>13, EarlyInFlight, FlightFrame

\* The client reads the server's certificate and its signature.
LEMMA ReadServerCertificateFlow ==
    ASSUME TlsInv, EarlyInv, FlowInv,
           ClientIsAlone, ClientHears(c.tr), ClientChanges({"state", "tr", "peer_cert"}),
           \/ c.state = "SERVER_CERTIFICATE" /\ c'.state = "CERTIFICATE_VERIFY"
           \/ c.state = "CERTIFICATE_VERIFY" /\ c'.state = "SERVER_FINISHED"
    PROVE  FlowInv'
<1>2. /\ KeyedStays /\ c'.tout = c.tout /\ c'.early = c.early /\ c'.client_auth = c.client_auth
      /\ c.state \in ClientKeyed /\ c'.state \in ClientKeyed \ {"ENCRYPTED_EXTENSIONS"}
  BY DEF ClientChanges, ClientFields, KeyedStays, ClientKeyed
<1>3. c.handshake_key = s.handshake_key
  BY <1>2 DEF FlowInv, ClientParameters
<1>4. /\ c.state = "SERVER_CERTIFICATE" => Len(c.tr) = HelloPlace + 2 + Asked
      /\ c.state = "CERTIFICATE_VERIFY" => Len(c.tr) = HelloPlace + 3 + Asked
      /\ s.mode \notin PskModes /\ (c.client_auth <=> s.certificate_request_sent)
  BY DEF FlowInv, Places, ClientPlace
<1>5. \E m : c'.tr = Append(c.tr, m)
  BY DEF ClientHears
<1>6. FlightEnd - 1 = HelloPlace + 4 + Asked /\ HelloPlace + 2 + Asked + 1 = HelloPlace + 3 + Asked
      /\ HelloPlace + 3 + Asked + 1 = HelloPlace + 4 + Asked
  <2>1. FlightEnd = HelloPlace + 5 + Asked
    BY <1>4 DEF FlightEnd
  <2> QED
    BY <2>1, PlacesAre
<1>7. /\ c'.state = "CERTIFICATE_VERIFY" => Len(c'.tr) = HelloPlace + 3 + Asked
      /\ c'.state = "SERVER_FINISHED" => Len(c'.tr) = FlightEnd - 1
  <2>1. Len(c'.tr) = Len(c.tr) + 1
    BY <1>2, <1>5, FlightPlace
  <2> QED
    BY <1>4, <1>6, <2>1
<1>9. ClientPlace'
  BY <1>2, <1>4, <1>5, <1>7, FlightPlace DEF ClientPlace, ClientDone, ClientSecond, ClientKeyed
<1>10. ClientKeys'
  BY <1>2, FlightKeys
<1>11. c'.state \notin ClientSecond \cup {"SERVER_CERTIFICATE"}
  BY DEF ClientSecond, ClientDone
<1> QED
  BY <1>2, <1>3, <1>9, <1>10, <1>11, EarlyInFlight, FlightFrame

\* The client reads the server's Finished.
LEMMA ProcessServerFinishedFlow ==
    ASSUME TlsInv, TlsInv', EarlyInv, FlowInv, ProcessServerFinished
    PROVE  FlowInv'
<1>1. /\ c.state = "SERVER_FINISHED" /\ ClientIsAlone /\ ClientHears(c.tr)
      /\ ClientChanges({"state", "tr", "early", "application_key"})
      /\ IF c.early = "ACCEPTED"
         THEN c'.state = "END_OF_EARLY_DATA" /\ c'.early = "SERVER_FINISHED_RECEIVED"
         ELSE /\ c'.state \in {"CLIENT_CCS_AFTER_SERVER_FINISHED", "CLIENT_CERTIFICATE"}
              /\ c'.early = c.early
  BY ProcessServerFinishedDoes
<1>2. /\ KeyedStays /\ c'.tout = c.tout /\ c'.client_auth = c.client_auth
      /\ c.state \in ClientKeyed /\ c'.state \in ClientSecond
      /\ c'.state \notin ClientKeyed \cup {"SERVER_CERTIFICATE"}
  BY <1>1 DEF ClientChanges, ClientFields, KeyedStays, ClientKeyed, ClientSecond
<1>3. c.handshake_key = s.handshake_key
  BY <1>1, <1>2 DEF FlowInv, ClientParameters
<1>4. Len(c.tr) = FlightEnd - 1 /\ (c.client_auth <=> s.certificate_request_sent)
  BY <1>1 DEF FlowInv, Places, ClientPlace
<1>5. \E m : c'.tr = Append(c.tr, m)
  BY <1>1 DEF ClientHears
<1>6. Len(c'.tr) = FlightEnd /\ FlightEnd + 0 = FlightEnd
  <2>1. Len(c'.tr) = Len(c.tr) + 1
    BY <1>1, <1>2, <1>5, FlightPlace
  <2> QED
    BY <1>4, <2>1, PlacesAre
<1>7. c.early = "ACCEPTED" <=> s.early_accepted
  <2>1. (c'.early = "SERVER_FINISHED_RECEIVED") = s'.early_accepted
    BY <1>2 DEF TlsInv, Joint, PeersAgree
  <2>2. c.early # "SERVER_FINISHED_RECEIVED"
    BY <1>1 DEF TlsInv, ClientSide, ClientInFirstFlight, ClientSecond, ClientDone
  <2> QED
    BY <1>1, <2>1, <2>2 DEF ClientIsAlone
<1>8. c'.early \notin {"CAN_WRITE", "ACCEPTED", "IND_SENT"}
  BY <1>1, <1>2, EarlyInFlight
<1>9. ClientPlace'
  <2>1. c'.state = "END_OF_EARLY_DATA" <=> s.early_accepted
    BY <1>1, <1>7
  <2>2. c'.state \in {"END_OF_EARLY_DATA", "CLIENT_CCS_AFTER_SERVER_FINISHED", "CLIENT_CERTIFICATE"}
    BY <1>1
  <2>3. c'.state = "CLIENT_CERTIFICATE" =>
            Len(c'.tr) = FlightEnd + IF s.early_accepted THEN 1 ELSE 0
    BY <1>6, <2>1
  <2> QED
    BY <1>1, <1>2, <1>4, <1>5, <1>6, <2>1, <2>2, <2>3, FlightPlace DEF ClientPlace, ClientDone, ClientSecond, ClientKeyed
<1>10. ClientKeys'
  BY <1>1, <1>2, FlightKeys
<1> QED
  BY <1>1, <1>2, <1>3, <1>6, <1>8, <1>9, <1>10, EarlyInFlight, FlightFrame
-----------------------------------------------------------------------------
(* The first flight of the client.                                         *)

\* A message that is to be heard is in the queue.
LEMMA StreamIsThere ==
    ASSUME NEW q, IsSeq(q), NEW n \in Nat, NEW t, IsSeq(t), Stream(q, n, t), n < Len(t)
    PROVE  q # <<>>
<1>1. Len(t) \in Nat /\ IsSeq(<<>>) /\ NoHs(<<>>) /\ Len(<<>>) = 0
  BY DEF IsSeq, NoHs
<1>2. PICK p \in [0 .. Len(q) -> Nat] :
          p[0] = n /\ p[Len(q)] = IF n <= Len(t) THEN Len(t) ELSE n
  BY DEF Stream
<1> QED
  BY <1>1, <1>2

\* The frame of the client's steps before it has its keys.
LEMMA BeginFrame ==
    ASSUME TlsInv, FlowInv, ClientIsAlone, c'.total = c.total, ClientKeepsKeys,
           c'.state \in ClientBegins \cup ClientKeyed, c'.hrr \in {c.hrr, TRUE},
           c'.client_auth = c.client_auth,
           ToClient' = ToClient \/ (ToClient # <<>> /\ ToClient' = Tail(ToClient)),
           ToServer' = ToServer \/ \E r : ClientSends(r),
           Streams', TranscriptsAgree',
           Heard' = Heard \/ \E m : Heard' = Append(Heard, m) /\ MessageIsRight(Len(Heard) + 1, m),
           ClientPlace', Turns', ClientParameters', ClientKeys'
    PROVE  FlowInv'
<1>1. s' = s /\ conf' = conf /\ TermsStay
  BY ClientStepTerms DEF ClientIsAlone
<1>2. MessagesAreRight'
  BY <1>1, MessagesStayRight
<1>3. ValuesAreKnown'
  BY <1>1, ValuesStayKnown
<1>4. RecordsHaveKeys' /\ EarlyComesFirst' /\ EarlyIsAwaited'
  BY ClientQueues
<1> QED
  BY <1>2, <1>3, <1>4, ClientFrame

\* What a client keeps from the server before it has its keys.
LEMMA BeginPlace ==
    ASSUME TlsInv, FlowInv, ClientIsAlone
    PROVE  /\ Len(c.tr) \in Nat /\ IsSeq(c.tr)
           /\ HelloPlace' = HelloPlace /\ FlightEnd' = FlightEnd
           /\ s' = s /\ conf' = conf /\ OffersEarlyData' = OffersEarlyData
           /\ Ephemeral' = Ephemeral
           /\ HelloPlace \in {1, 3}
           /\ c'.hrr = c.hrr => HashedAlone' = HashedAlone
           /\ c.hrr => s.hrr
           /\ c.state \in ClientBegins => ~c.client_auth
<1>1. s' = s /\ conf' = conf
  BY DEF ClientIsAlone
<1>2. IsSeq(c.tr) /\ Len(c.tr) \in Nat
  BY TranscriptsAre
<1>3. c'.hrr = c.hrr => HashedAlone' = HashedAlone
  BY <1>1 DEF HashedAlone
<1>4. (c.hrr => s.hrr) /\ (c.state \in ClientBegins => ~c.client_auth)
  BY DEF FlowInv, Places, ClientPlace, ClientBegins, ClientSecond, ClientDone
<1> QED
  BY <1>1, <1>2, <1>3, <1>4, ClientStepTerms, PlacesAre

\* Whose turn it is stays when nothing is said.
LEMMA BeginTurns ==
    ASSUME TlsInv, FlowInv, ClientIsAlone, c.state \in ClientBegins, c'.state \in ClientBegins,
           Heard' = Heard, c'.hrr = c.hrr,
           c.state \in ClientListens => c'.state \in ClientListens
    PROVE  Turns'
<1>1. /\ c.state \notin ClientKeyed \cup ClientSecond /\ c'.state \notin ClientKeyed \cup ClientSecond
      /\ c'.state # "SERVER_CERTIFICATE"
  BY DEF ClientBegins, ClientKeyed, ClientSecond, ClientDone
<1> QED
  BY <1>1, BeginPlace DEF FlowInv, Places, Turns

\* What the client heard stays as long as it hashes nothing.
LEMMA HeardStays ==
    ASSUME s' = s, c'.tr = c.tr, c'.hrr = c.hrr
    PROVE  Heard' = Heard
BY DEF Heard, HashedAlone, TranscriptForHrr

\* The client begins.
LEMMA ClientHelloRequestFlow ==
    ASSUME TlsInv, FlowInv, ClientIsAlone, QueuesStay, ClientChanges({"state"}),
           c.state = "HELLO_REQUEST", c'.state = "CLIENT_HELLO"
    PROVE  FlowInv'
<1>1. \A f \in ClientFields \ {"state"} : c'[f] = c[f]
  BY DEF ClientChanges
<1>2. /\ c'.hrr = c.hrr /\ c'.tr = c.tr /\ c'.total = c.total /\ c'.early = c.early
      /\ c'.client_auth = c.client_auth /\ c'.tin = c.tin /\ c'.tout = c.tout
  BY <1>1 DEF ClientFields
<1>3. Heard' = Heard /\ s' = s /\ conf' = conf /\ failed' = failed
  BY <1>2, HeardStays DEF ClientIsAlone
<1>4. Streams' /\ TranscriptsAgree'
  BY <1>3, PaddedStreams DEF PadsClient, PadsServer, QueuesStay
<1>5. Len(c.tr) = 0 /\ ~c.hrr
  BY DEF FlowInv, Places, ClientPlace
<1>6. ClientPlace'
  <2>1. ~c.client_auth
    BY BeginPlace DEF ClientBegins
  <2> QED
    BY <1>2, <1>5, <2>1 DEF ClientPlace, ClientDone, ClientSecond, ClientKeyed
<1>7. Turns'
  BY <1>2, <1>3, BeginTurns DEF ClientBegins, ClientListens, ClientKeyed
<1>8. ClientParameters'
  <2>1. c.early \notin {"IND_SENT", "CAN_WRITE", "ACCEPTED"}
    BY DEF FlowInv, ClientParameters, ClientKeyed
  <2>2. ~HelloSent'
    BY <1>2, <1>5 DEF HelloSent
  <2> QED
    BY <1>2, <1>5, <2>1, <2>2 DEF ClientParameters, ClientKeyed
<1>9. ClientKeys'
  BY <1>2 DEF FlowInv, ClientKeys, ClientBegins, ClientKeyed
<1>10. ClientKeepsKeys
  BY <1>3, <1>5 DEF ClientKeepsKeys, HelloSent, ClientSecond, ClientDone
<1> QED
  BY <1>2, <1>3, <1>4, <1>6, <1>7, <1>8, <1>9, <1>10, BeginFrame DEF ClientBegins, QueuesStay

\* A dummy record in the clear.
LEMMA BeginPads ==
    ASSUME TlsInv, FlowInv, ClientIsAlone, ClientPads, c.tout = NoKey,
           Heard' = Heard,
           failed.server = "no" /\ HelloUnread => ToServer # <<>>
    PROVE  /\ Streams' /\ TranscriptsAgree' /\ ToClient' = ToClient
           /\ ToServer' = ToServer \/ \E r : ClientSends(r)
<1>1. s' = s /\ conf' = conf /\ failed' = failed
  BY DEF ClientIsAlone
<1>2. ToServer' = ToServer \/ \E r : ~IsHs(r) /\ ClientSends(r)
  <2>1. ASSUME NEW r, IsPadding(r, c.tout), ToServer' = Append(ToServer, r)
        PROVE  ~IsHs(r) /\ ClientSends(r)
    <3>1. ~IsHs(r) /\ ~IsEarlyRecord(r) /\ r.type = "change_cipher_spec" /\ r.key = NoKey
      BY <2>1 DEF IsPadding, IsHs, IsEarlyRecord
    <3>2. ClientRecordHasKey(r)'
      BY <3>1 DEF ClientRecordHasKey, IsEarlyRecord, IsHs, Carries
    <3> QED
      BY <2>1, <3>1, <3>2 DEF ClientSends
  <2> QED
    BY <2>1 DEF ClientPads
<1>3. PadsClient /\ PadsServer
  BY <1>2 DEF PadsClient, PadsServer, ClientPads, ClientSends
<1> QED
  BY <1>1, <1>2, <1>3, PaddedStreams DEF ClientPads

\* The dummy record behind the first ClientHello.
LEMMA ClientCcsAfterClientHelloFlow ==
    ASSUME TlsInv, EarlyInv, FlowInv, ClientCcsAfterClientHello
    PROVE  FlowInv'
<1>1. /\ c.state = "CLIENT_CCS_AFTER_CLIENT_HELLO" /\ c'.state = "SERVER_HELLO"
      /\ ClientIsAlone /\ ClientPads
      /\ ClientChanges({"state", "tout", "early", "ccs_sent"})
      /\ c'.tout = c.early_key /\ c'.early = "CAN_WRITE"
  BY ClientCcsAfterClientHelloDoes
<1>2. /\ c'.hrr = c.hrr /\ c'.tr = c.tr /\ c'.total = c.total /\ c'.early_key = c.early_key
      /\ c'.client_auth = c.client_auth /\ c'.tin = c.tin /\ c'.share = c.share /\ c'.psk = c.psk
  BY <1>1 DEF ClientChanges, ClientFields
<1>3. Heard' = Heard
  BY <1>1, <1>2, HeardStays DEF ClientIsAlone
<1>4. Len(c.tr) = 1 /\ ~c.hrr /\ OffersEarlyData /\ c.tout = NoKey /\ c.tin = NoKey
  BY <1>1 DEF FlowInv, Places, ClientPlace, ClientParameters, ClientKeys, ClientBegins
<1>5. failed.server = "no" /\ HelloUnread => ToServer # <<>>
  <2>1. HelloUnread => Len(s.tr) = 0
    BY DEF FlowInv, Places, ServerPlace, HelloUnread, HelloPlace
  <2>2. Len(Heard) = 1 /\ IsSeq(Heard) /\ IsSeq(s.tr)
    BY <1>4, TranscriptsAre
  <2>3. failed.server = "no" => Stream(ToServer, Len(s.tr), Heard)
    BY DEF FlowInv, Streams
  <2>4. IsSeq(ToServer)
    BY QueuesAre DEF TlsInv
  <2> QED
    BY <2>1, <2>2, <2>3, <2>4, StreamIsThere, SMTT(30)
<1>6. /\ Streams' /\ TranscriptsAgree' /\ ToClient' = ToClient
      /\ ToServer' = ToServer \/ \E r : ClientSends(r)
  BY <1>1, <1>3, <1>4, <1>5, BeginPads
<1>7. ~c.client_auth /\ OffersEarlyData' = OffersEarlyData /\ Ephemeral' = Ephemeral /\ conf' = conf
  BY <1>1, BeginPlace DEF ClientBegins
<1>8. ClientPlace'
  BY <1>1, <1>2, <1>4, <1>7 DEF ClientPlace, ClientDone, ClientSecond, ClientKeyed
<1>9. Turns'
  BY <1>1, <1>2, <1>3, BeginTurns DEF ClientBegins, ClientListens, ClientKeyed
<1>10. HelloSent /\ HelloSent' /\ c.state \in ClientBegins
  BY <1>1 DEF HelloSent, ClientBegins
<1>11. ClientParameters'
  <2>1. /\ c.early_key.stage = "early" /\ c.psk = "ticket"
        /\ c.early_key = Key("early", "ticket", "none", <<c.tr[1]>>)
        /\ c.share = c.tr[1].share /\ c.share = IF Ephemeral THEN Head(conf.c_groups) ELSE "none"
    BY <1>1, <1>4, <1>10 DEF FlowInv, ClientParameters
  <2> QED
    BY <1>1, <1>2, <1>4, <1>7, <1>10, <2>1 DEF ClientParameters, ClientKeyed
<1>12. ClientKeys'
  BY <1>1, <1>2, <1>4, <1>7 DEF ClientKeys, ClientBegins, ClientKeyed
<1>13. ClientKeepsKeys
  BY <1>1, <1>2, <1>7, <1>10 DEF ClientKeepsKeys, ClientSecond, ClientDone
<1> QED
  BY <1>1, <1>2, <1>3, <1>6, <1>8, <1>9, <1>11, <1>12, <1>13, BeginFrame DEF ClientBegins

\* The dummy record before the second ClientHello.
LEMMA ClientCcsBefore2ndClientHelloFlow ==
    ASSUME TlsInv, EarlyInv, FlowInv, ClientCcsBefore2ndClientHello
    PROVE  FlowInv'
<1>1. /\ c.state = "CLIENT_CCS_BEFORE_2ND_CLIENT_HELLO" /\ c'.state = "CLIENT_HELLO"
      /\ ClientIsAlone /\ ClientPads
      /\ ClientChanges({"state", "ccs_sent"})
  BY ClientCcsBefore2ndClientHelloDoes
<1>2. /\ c'.hrr = c.hrr /\ c'.tr = c.tr /\ c'.total = c.total /\ c'.early_key = c.early_key
      /\ c'.client_auth = c.client_auth /\ c'.tin = c.tin /\ c'.tout = c.tout /\ c'.share = c.share
      /\ c'.psk = c.psk /\ c'.early = c.early
  BY <1>1 DEF ClientChanges, ClientFields
<1>3. Heard' = Heard
  BY <1>1, <1>2, HeardStays DEF ClientIsAlone
<1>4. Len(c.tr) = 2 /\ c.hrr /\ s.hrr /\ c.tout = NoKey /\ c.tin = NoKey
  BY <1>1 DEF FlowInv, Places, ClientPlace, ClientKeys, ClientBegins
<1>5. ~HelloUnread
  BY <1>4 DEF HelloUnread
<1>6. /\ Streams' /\ TranscriptsAgree' /\ ToClient' = ToClient
      /\ ToServer' = ToServer \/ \E r : ClientSends(r)
  BY <1>1, <1>3, <1>4, <1>5, BeginPads
<1>7. ~c.client_auth /\ OffersEarlyData' = OffersEarlyData /\ conf' = conf /\ s' = s
  BY <1>1, BeginPlace DEF ClientBegins
<1>8. ClientPlace'
  BY <1>1, <1>2, <1>4, <1>7 DEF ClientPlace, ClientDone, ClientSecond, ClientKeyed
<1>9. Turns'
  BY <1>1, <1>2, <1>3, BeginTurns DEF ClientBegins, ClientListens, ClientKeyed
<1>10. HelloSent /\ HelloSent' /\ c.state \in ClientBegins
  BY <1>1, <1>2, <1>4 DEF HelloSent, ClientBegins
<1>11. ClientParameters'
  BY <1>1, <1>2, <1>4, <1>7, <1>10 DEF FlowInv, ClientParameters, ClientKeyed
<1>12. ClientKeys'
  BY <1>1, <1>2, <1>4, <1>7 DEF ClientKeys, ClientBegins, ClientKeyed
<1>13. ClientKeepsKeys
  BY <1>1, <1>2, <1>7, <1>10 DEF ClientKeepsKeys, ClientSecond, ClientDone
<1> QED
  BY <1>1, <1>2, <1>3, <1>6, <1>8, <1>9, <1>11, <1>12, <1>13, BeginFrame DEF ClientBegins

\* The groups of a client that offers some.
LEMMA GroupsAre ==
    ASSUME FlowInv
    PROVE  Ephemeral => Head(conf.c_groups) # "none"
<1> SUFFICES ASSUME Ephemeral PROVE Head(conf.c_groups) # "none"
  OBVIOUS
<1>1. /\ conf.c_groups \in Seq(STRING) /\ conf.c_groups # <<>>
      /\ "none" \notin ToSet(conf.c_groups)
  BY GroupsAreListed DEF FlowInv, ValuesAreKnown, Ephemeral
<1>2. Head(conf.c_groups) = conf.c_groups[1] /\ 1 \in DOMAIN conf.c_groups
  BY <1>1
<1> QED
  BY <1>1, <1>2 DEF ToSet

\* The ClientHello says what the configuration and the retry ask for.
LEMMA ClientHelloIsRight ==
    ASSUME TlsInv, FlowInv, c.state = "CLIENT_HELLO", s.hrr = c.hrr, Heard = c.tr
    PROVE  HelloIsRight(ClientHelloMessage)
<1> DEFINE m == ClientHelloMessage
<1>1. /\ m.t = "client_hello" /\ m.groups = (IF Ephemeral THEN conf.c_groups ELSE <<>>)
      /\ m.share = IF ~Ephemeral THEN "none" ELSE IF c.hrr THEN c.share ELSE Head(conf.c_groups)
      /\ m.sig_alg = ("ephemeral" \in conf.c_modes)
      /\ m.psk_modes = conf.c_modes \cap PskModes /\ m.psks = ClientPsks
      /\ m.early = (~c.hrr /\ OffersEarlyData)
  BY DEF ClientHelloMessage, Ephemeral
<1>2. c.hrr => /\ Ephemeral /\ c.share \in conf.s_groups /\ c.share # "none"
  <2>1. ASSUME c.hrr
        PROVE  RetryIsRight(c.tr[2]) /\ c.share = c.tr[2].share
    <3>1. Len(c.tr) = 2
      BY <2>1 DEF FlowInv, Places, ClientPlace
    <3>2. MessageIsRight(2, c.tr[2])
      BY <3>1 DEF FlowInv, MessagesAreRight
    <3> QED
      BY <2>1, <3>2 DEF MessageIsRight, FlowInv, ClientParameters
  <2>2. "none" \notin ToSet(conf.c_groups)
    BY GroupsAreListed DEF FlowInv, ValuesAreKnown
  <2> QED
    BY <2>1, <2>2 DEF RetryIsRight
<1>3. Ephemeral => Head(conf.c_groups) # "none"
  BY GroupsAre
<1> HIDE DEF m
<1>4. HelloIsRight(m)
  <2>1. CASE c.hrr
    BY <1>1, <1>2, <2>1 DEF HelloIsRight
  <2>2. CASE ~c.hrr
    BY <1>1, <1>3, <2>2 DEF HelloIsRight
  <2> QED
    BY <2>1, <2>2
<1> QED
  BY <1>4 DEF m

\* A message at the place of the ClientHello.
LEMMA HelloMessageIsRight ==
    ASSUME FlowInv, NEW m, HelloIsRight(m)
    PROVE  MessageIsRight(HelloPlace, m)
<1>1. /\ HelloPlace \in {1, 3} /\ HelloPlace \in Nat /\ HelloPlace # 2 /\ Asked \in Nat
      /\ FlightEnd \in Nat /\ FlightEnd >= HelloPlace + 3
      /\ CertificateEnd \in Nat /\ CertificateEnd >= FlightEnd
  BY PlacesAre
<1> HIDE DEF HelloPlace
<1>2. /\ HelloPlace # HelloPlace + 1 /\ HelloPlace # HelloPlace + 2 /\ HelloPlace # HelloPlace + 3
      /\ HelloPlace # HelloPlace + 3 + Asked
      /\ HelloPlace # HelloPlace + 4 + Asked /\ HelloPlace # FlightEnd
      /\ HelloPlace # FlightEnd + 1 /\ HelloPlace # FlightEnd + 2 /\ HelloPlace # CertificateEnd + 1
  BY <1>1, LaterPlaces
<1> QED
  BY <1>1, <1>2 DEF MessageIsRight

\* The ClientHello, the first or the second.
LEMMA WriteClientHelloFlow ==
    ASSUME TlsInv, EarlyInv, FlowInv, WriteClientHello
    PROVE  FlowInv'
<1> DEFINE m == ClientHelloMessage
<1>1. /\ c.state = "CLIENT_HELLO" /\ ClientIsAlone
      /\ ClientSays(m, c.tout)
      /\ ClientChanges({"state", "tr", "share", "early", "psk", "early_key", "tout"})
      /\ c'.share = m.share
      /\ IF c.hrr \/ ~m.early
         THEN /\ c'.state = "SERVER_HELLO"
              /\ c'.early = IF c.hrr THEN c.early ELSE "NO_IND_SENT"
              /\ c'.psk = c.psk /\ c'.early_key = c.early_key /\ c'.tout = c.tout
         ELSE /\ c'.psk = "ticket"
              /\ c'.early_key = Key("early", "ticket", "none", Append(c.tr, m))
              /\ \/ /\ c'.state = "CLIENT_CCS_AFTER_CLIENT_HELLO"
                    /\ c'.early = "IND_SENT" /\ c'.tout = c.tout
                 \/ /\ c'.state = "SERVER_HELLO"
                    /\ c'.early = "CAN_WRITE" /\ c'.tout = c'.early_key
  <2>1. c.hrr => c.early # "IND_SENT"
    BY DEF FlowInv, ClientParameters
  <2> QED
    BY <2>1, WriteClientHelloDoes
<1>2. c'.hrr = c.hrr /\ c'.total = c.total /\ c'.client_auth = c.client_auth /\ c'.tin = c.tin
  BY <1>1 DEF ClientChanges, ClientFields
<1>3. c.state \notin ClientListens /\ c.state \in ClientBegins
  BY <1>1 DEF ClientListens, ClientKeyed, ClientBegins
<1>4. ~HashedAlone /\ Heard = c.tr /\ Len(s.tr) <= Len(c.tr)
  BY <1>3, ClientHasHeardAll
<1>5. c.hrr \in BOOLEAN /\ s.hrr \in BOOLEAN /\ (c.hrr => s.hrr) /\ s.hrr = c.hrr
  BY <1>4 DEF FlowInv, ValuesAreKnown, Places, ClientPlace, HashedAlone
<1>6. /\ c.hrr => Len(c.tr) = 2 /\ HelloPlace = 3
      /\ ~c.hrr => Len(c.tr) = 0 /\ HelloPlace = 1
      /\ Len(c.tr) + 1 = HelloPlace
  <2>1. /\ c.hrr => Len(c.tr) = 2 /\ HelloPlace = 3
        /\ ~c.hrr => Len(c.tr) = 0 /\ HelloPlace = 1
    BY <1>1, <1>5 DEF FlowInv, Places, ClientPlace, HelloPlace
  <2>2. (Len(c.tr) = 2 /\ HelloPlace = 3) \/ (Len(c.tr) = 0 /\ HelloPlace = 1)
    BY <2>1
  <2>3. Len(c.tr) + 1 = HelloPlace
    <3>1. CASE Len(c.tr) = 2 /\ HelloPlace = 3
      BY <3>1
    <3>2. CASE Len(c.tr) = 0 /\ HelloPlace = 1
      BY <3>2
    <3> QED
      BY <2>2, <3>1, <3>2
  <2> QED
    BY <2>1, <2>3
<1>7. HelloIsRight(m)
  BY <1>1, <1>4, <1>5, ClientHelloIsRight
<1>8. m.t = "client_hello" /\ m.early = (~c.hrr /\ OffersEarlyData)
  BY DEF ClientHelloMessage
<1> HIDE DEF m
<1>9. s' = s /\ conf' = conf /\ failed' = failed
  BY <1>1 DEF ClientIsAlone
<1>10. Streams' /\ TranscriptsAgree' /\ Said(m)
  <2>1. m.t # "new_session_ticket"
    BY <1>8
  <2> QED
    BY <1>1, <1>2, <1>3, <1>9, <2>1, ClientSaysStreams
<1>11. MessageIsRight(Len(Heard) + 1, m)
  <2>1. MessageIsRight(HelloPlace, m)
    BY <1>7, HelloMessageIsRight
  <2> QED
    BY <1>4, <1>6, <2>1
<1>12. /\ c'.tr = Append(c.tr, m) /\ Len(c'.tr) = HelloPlace /\ c'.tr[HelloPlace] = m
       /\ ~c.hrr => c'.tr = <<m>>
  <2>1. c'.tr = Append(c.tr, m) /\ IsSeq(c.tr)
    BY <1>1, BeginPlace DEF ClientSays
  <2>2. Len(c'.tr) = Len(c.tr) + 1 /\ c'.tr[Len(c.tr) + 1] = m
    BY <2>1, AppendIs
  <2>3. ASSUME Len(c.tr) = 0
        PROVE  Append(c.tr, m) = <<m>>
    <3>1. IsSeq(<<>>) /\ Len(<<>>) = 0 /\ \A i \in 1 .. 0 : c.tr[i] = <<>>[i]
      BY DEF IsSeq
    <3>2. c.tr = <<>>
      BY <2>1, <2>3, <3>1, SeqsAreEqual
    <3> QED
      BY <3>2
  <2>4. Len(c'.tr) = HelloPlace /\ c'.tr[HelloPlace] = m
    BY <1>6, <2>2
  <2> QED
    BY <1>6, <2>1, <2>3, <2>4
<1>13. /\ HelloPlace' = HelloPlace /\ OffersEarlyData' = OffersEarlyData /\ Ephemeral' = Ephemeral
       /\ HashedAlone' = HashedAlone /\ ~c.client_auth
       /\ c'.state \in {"SERVER_HELLO", "CLIENT_CCS_AFTER_CLIENT_HELLO"}
  BY <1>1, <1>2, <1>3, BeginPlace
<1>14. ClientPlace'
  <2>1. c'.state = "CLIENT_CCS_AFTER_CLIENT_HELLO" => ~c.hrr
    BY <1>1
  <2>2. /\ c.hrr => Len(c'.tr) = 3
        /\ ~c.hrr => Len(c'.tr) = 1
    BY <1>6, <1>12
  <2> QED
    BY <1>2, <1>4, <1>5, <1>9, <1>13, <2>1, <2>2 DEF ClientPlace, ClientDone, ClientSecond, ClientKeyed
<1>15. Turns'
  <2>1. /\ c'.state \in ClientListens /\ c'.state \notin ClientKeyed \cup ClientSecond
        /\ c'.state # "SERVER_CERTIFICATE" /\ c.state \notin ClientSecond
    BY <1>1, <1>13 DEF ClientListens, ClientKeyed, ClientSecond, ClientDone
  <2>2. s.state \in ServerListens
    <3>1. Len(s.tr) < HelloPlace
      BY <1>4, <1>6, TranscriptsAre
    <3>2. s.state \notin {"HELLO_REQUEST", "CLIENT_HELLO", "SERVER_CCS_AFTER_HELLO_RETRY_REQUEST"} =>
              Len(s.tr) >= HelloPlace
      BY ServerIsInPlace
    <3> QED
      BY <3>1, <3>2, TranscriptsAre, PlacesAre DEF ServerListens
  <2>3. Len(s.tr) <= FlightEnd /\ FlightEnd' = FlightEnd
    BY <1>1, <2>1, BeginPlace DEF FlowInv, Places, Turns
  <2> QED
    BY <1>4, <1>9, <1>13, <2>1, <2>2, <2>3 DEF Turns
<1>16. ClientParameters'
  <2>1. HelloSent' /\ c'.state \notin ClientKeyed \cup {"CLIENT_HELLO", "CLIENT_CCS_BEFORE_2ND_CLIENT_HELLO"}
    BY <1>13 DEF HelloSent, ClientKeyed
  <2>2. c'.share = c'.tr[Len(c'.tr)].share
    BY <1>1, <1>12
  <2>3. CASE c.hrr
    <3>1. HelloSent
      BY <2>3 DEF HelloSent
    <3> QED
      BY <1>1, <1>2, <1>3, <1>13, <2>1, <2>2, <2>3, <3>1 DEF FlowInv, ClientParameters
  <2>4. CASE ~c.hrr
    <3>1. c'.tr[1] = m /\ c'.tr = <<m>> /\ HelloPlace = 1 /\ c'.share = c'.tr[1].share
      BY <1>1, <1>6, <1>12, <2>4
    <3>2. c'.share = IF Ephemeral THEN Head(conf.c_groups) ELSE "none"
      BY <1>1, <1>7, <2>4, <1>5 DEF HelloIsRight
    <3>3. CASE ~OffersEarlyData
      <4>1. c'.early = "NO_IND_SENT" /\ c'.state = "SERVER_HELLO"
        BY <1>1, <1>8, <2>4, <3>3
      <4> QED
        BY <1>2, <1>9, <1>13, <2>1, <2>2, <2>4, <3>1, <3>2, <3>3, <4>1 DEF ClientParameters
    <3>4. CASE OffersEarlyData
      <4>1. /\ c'.psk = "ticket" /\ c'.early_key = Key("early", "ticket", "none", <<c'.tr[1]>>)
            /\ \/ c'.state = "CLIENT_CCS_AFTER_CLIENT_HELLO" /\ c'.early = "IND_SENT"
               \/ c'.state = "SERVER_HELLO" /\ c'.early = "CAN_WRITE"
        BY <1>1, <1>8, <1>12, <2>4, <3>1, <3>4
      <4>2. c'.early_key.stage = "early"
        BY <4>1 DEF Key
      <4> QED
        BY <1>2, <1>9, <1>13, <2>1, <2>2, <2>4, <3>1, <3>2, <3>4, <4>1, <4>2 DEF ClientParameters
    <3> QED
      BY <3>3, <3>4
  <2> QED
    BY <2>3, <2>4
<1>17. c.tout = NoKey /\ c.tin = NoKey
  BY <1>1, <1>3 DEF FlowInv, ClientKeys
<1>18. ClientKeys'
  BY <1>1, <1>2, <1>8, <1>13, <1>17 DEF ClientKeys, ClientBegins, ClientKeyed
<1>19. ClientKeepsKeys
  <2>1. HelloSent => c.hrr
    BY <1>1 DEF HelloSent
  <2>2. HelloSent' /\ c.state \notin ClientSecond
    BY <1>1, <1>13 DEF HelloSent, ClientSecond, ClientDone
  <2> QED
    BY <1>1, <1>9, <2>1, <2>2 DEF ClientKeepsKeys
<1>20. \E r : ClientSends(r)
  <2>1. PICK r : IsMessage(r, m, c.tout, c.tr) /\ ToServer' = Append(ToServer, r)
    BY <1>1 DEF ClientSays
  <2>2. IsHs(r) /\ ~IsEarlyRecord(r) /\ ClientRecordHasKey(r)'
    BY <1>8, <1>17, <2>1 DEF IsMessage, ClientRecordHasKey, IsEarlyRecord, IsHs, Carries
  <2> QED
    BY <2>1, <2>2 DEF ClientSends
<1>21. /\ ToClient' = ToClient /\ c'.state \in ClientBegins
       /\ \E n : Heard' = Append(Heard, n) /\ MessageIsRight(Len(Heard) + 1, n)
  BY <1>1, <1>10, <1>11, <1>13 DEF ClientSays, ClientBegins, Said
<1> QED
  BY <1>1, <1>2, <1>10, <1>14, <1>15, <1>16, <1>18, <1>19, <1>20, <1>21, BeginFrame

\* The client reads a HelloRetryRequest.
LEMMA ProcessHelloRetryRequestFlow ==
    ASSUME TlsInv, EarlyInv, FlowInv, ProcessHelloRetryRequest
    PROVE  FlowInv'
<1> DEFINE m == ToClient[1].msg
<1>1. /\ c.state = "SERVER_HELLO" /\ HashedAlone /\ Len(c.tr) = 1
      /\ c'.state \in {"CLIENT_CCS_BEFORE_2ND_CLIENT_HELLO", "CLIENT_HELLO"}
      /\ ClientIsAlone /\ ClientHears(TranscriptForHrr(c.tr))
      /\ ClientChanges({"state", "tr", "hrr", "share", "tin", "tout", "early"})
      /\ c'.hrr = TRUE /\ c'.share = m.share /\ c'.tin = NoKey /\ c'.tout = NoKey
      /\ c'.early = IF c.early = "NO_IND_SENT" THEN c.early ELSE "REJECTED"
  BY ProcessHelloRetryRequestDoes
<1>2. /\ c'.total = c.total /\ c'.client_auth = c.client_auth /\ c'.early_key = c.early_key
      /\ c'.psk = c.psk
  BY <1>1 DEF ClientChanges, ClientFields
<1>3. s' = s /\ conf' = conf /\ failed' = failed /\ failed.client = "no" /\ s.hrr
  BY <1>1 DEF ClientIsAlone, HashedAlone
<1>4. Heard = TranscriptForHrr(c.tr) /\ ~HashedAlone' /\ Heard' = c'.tr
  BY <1>1 DEF Heard, HashedAlone
<1>5. /\ Streams' /\ TranscriptsAgree' /\ Said(m)
      /\ Len(Heard) + 1 <= Len(s.tr) /\ m = s.tr[Len(Heard) + 1]
  <2>1. ClientHears(Heard)
    BY <1>1, <1>4
  <2> QED
    BY <1>3, <1>4, <2>1, ClientHearsStreams
<1>6. Heard' = Append(Heard, m) /\ MessageIsRight(Len(Heard) + 1, m)
  <2>1. Len(Heard) + 1 \in 1 .. Len(s.tr)
    BY <1>5, TranscriptsAre
  <2> QED
    BY <1>5, <2>1 DEF FlowInv, MessagesAreRight, Said
<1> HIDE DEF m
<1>7. Len(c'.tr) = 2 /\ c'.tr[2] = m
  <2>1. IsSeq(Heard) /\ Len(Heard) = 1
    BY <1>1, TranscriptsAre
  <2> QED
    BY <1>4, <1>6, <2>1, TwoAre
<1>8. /\ OffersEarlyData' = OffersEarlyData /\ HelloPlace' = HelloPlace /\ FlightEnd' = FlightEnd
      /\ c.state \in ClientBegins /\ ~c.client_auth
  BY <1>1, BeginPlace DEF ClientBegins
<1>9. ClientPlace'
  <2>1. c'.state \notin ClientSecond \cup ClientKeyed
    BY <1>1 DEF ClientSecond, ClientDone, ClientKeyed
  <2> QED
    BY <1>1, <1>2, <1>3, <1>4, <1>7, <1>8, <2>1 DEF ClientPlace, ClientDone, ClientSecond, ClientKeyed
<1>10. Turns'
  <2>1. /\ c'.state \notin ClientKeyed \cup ClientSecond /\ c.state \notin ClientSecond
        /\ c'.state # "SERVER_CERTIFICATE"
    BY <1>1 DEF ClientKeyed, ClientSecond, ClientDone
  <2>2. Len(s.tr) = 2 /\ Len(Heard') = 2 /\ Len(s.tr) <= FlightEnd
    BY <1>1, <1>4, <1>7, <2>1 DEF FlowInv, Places, Turns
  <2> QED
    BY <1>3, <1>4, <1>8, <2>1, <2>2 DEF Turns
<1>11. ClientParameters'
  <2>1. HelloSent /\ HelloSent' /\ c'.state \notin ClientKeyed \cup {"SERVER_HELLO", "CLIENT_CCS_AFTER_CLIENT_HELLO"}
    BY <1>1 DEF HelloSent, ClientKeyed
  <2>2. c'.early \in {"NO_IND_SENT", "REJECTED"} /\ (c'.early = "NO_IND_SENT" <=> c.early = "NO_IND_SENT")
    BY <1>1
  <2> QED
    BY <1>1, <1>2, <1>7, <1>8, <2>1, <2>2 DEF FlowInv, ClientParameters
<1>12. ClientKeys'
  BY <1>1 DEF ClientKeys, ClientBegins, ClientKeyed
<1>13. ClientKeepsKeys
  BY <1>1, <1>2, <1>3 DEF ClientKeepsKeys, HelloSent, ClientSecond, ClientDone
<1>14. /\ ToServer' = ToServer /\ ToClient # <<>> /\ ToClient' = Tail(ToClient)
       /\ c'.state \in ClientBegins
  BY <1>1 DEF ClientHears, ClientBegins
<1> QED
  BY <1>1, <1>2, <1>5, <1>6, <1>9, <1>10, <1>11, <1>12, <1>13, <1>14, BeginFrame

\* The client reads the ServerHello.
LEMMA ProcessServerHelloFlow ==
    ASSUME TlsInv, EarlyInv, FlowInv, ProcessServerHello
    PROVE  FlowInv'
<1> DEFINE m == ToClient[1].msg
<1>1. /\ c.state = "SERVER_HELLO" /\ c'.state = "ENCRYPTED_EXTENSIONS"
      /\ ClientIsAlone /\ ClientHears(c.tr) /\ ~HashedAlone /\ Len(c.tr) = HelloPlace
      /\ c.hrr = s.hrr /\ s.state \in ServerKeyed \cup ServerSecond
      /\ ClientChanges({"state", "tr", "mode", "selected", "psk", "share", "handshake_key", "tin"})
      /\ c'.mode = s.mode /\ c'.selected = IF s.mode \in PskModes THEN s.selected ELSE 0
      /\ c'.handshake_key = s.handshake_key \/ SecondPskAfterEarlyData
  BY ProcessServerHelloDoes
<1>2. /\ c'.total = c.total /\ c'.client_auth = c.client_auth /\ c'.early_key = c.early_key
      /\ c'.hrr = c.hrr /\ c'.early = c.early /\ c'.tout = c.tout
  BY <1>1 DEF ClientChanges, ClientFields
<1>3. s' = s /\ conf' = conf /\ failed' = failed /\ failed.client = "no"
  BY <1>1 DEF ClientIsAlone
<1>4. Heard = c.tr /\ ~HashedAlone' /\ Heard' = c'.tr
  BY <1>1, <1>2, <1>3, TranscriptsAre DEF Heard, HashedAlone
<1>5. /\ Streams' /\ TranscriptsAgree' /\ Said(m)
      /\ Len(Heard) + 1 <= Len(s.tr) /\ m = s.tr[Len(Heard) + 1]
  <2>1. ClientHears(Heard)
    BY <1>1, <1>4
  <2> QED
    BY <1>3, <1>4, <2>1, ClientHearsStreams
<1>6. Heard' = Append(Heard, m) /\ MessageIsRight(Len(Heard) + 1, m)
  <2>1. Len(Heard) + 1 \in 1 .. Len(s.tr)
    BY <1>5, TranscriptsAre
  <2> QED
    BY <1>5, <2>1 DEF FlowInv, MessagesAreRight, Said
<1> HIDE DEF m
<1>7. Len(c'.tr) = HelloPlace + 1 /\ Len(Heard') <= Len(s.tr)
  <2>1. Len(c'.tr) = Len(c.tr) + 1
    BY <1>4, <1>6, TranscriptsAre, AppendIs
  <2> QED
    BY <1>1, <1>4, <1>5, <2>1
<1>8. /\ OffersEarlyData' = OffersEarlyData /\ HelloPlace' = HelloPlace /\ FlightEnd' = FlightEnd
      /\ SecondPskAfterEarlyData' = SecondPskAfterEarlyData
      /\ c.state \in ClientBegins /\ ~c.client_auth /\ HelloPlace \in Nat
  BY <1>1, <1>3, BeginPlace, ClientStepTerms DEF ClientBegins
<1>9. c'.state \notin ClientSecond \cup ClientBegins /\ c'.state \in ClientKeyed /\ c.state \notin ClientSecond
  BY <1>1 DEF ClientSecond, ClientDone, ClientKeyed, ClientBegins
<1>10. ClientPlace'
  BY <1>1, <1>2, <1>3, <1>4, <1>7, <1>8, <1>9 DEF ClientPlace, ClientDone
<1>11. Turns'
  <2>1. c'.state \in ClientListens /\ c'.state # "SERVER_CERTIFICATE"
    BY <1>1, <1>9 DEF ClientListens
  <2>2. ~(Len(s.tr) < Len(Heard')) /\ Len(s.tr) <= FlightEnd
    BY <1>4, <1>7, <1>8, <1>9, TranscriptsAre DEF FlowInv, Places, Turns
  <2> QED
    BY <1>1, <1>3, <1>4, <1>8, <2>1, <2>2 DEF Turns
<1>12. ClientParameters'
  <2>1. HelloSent /\ HelloSent'
    BY <1>1 DEF HelloSent
  <2>2. c.early # "IND_SENT" /\ (c.early \in {"CAN_WRITE", "ACCEPTED"} => ~c.hrr /\ OffersEarlyData)
        /\ (c.early = "ACCEPTED" => s.early_accepted)
    BY <1>1 DEF FlowInv, ClientParameters
  <2>3. OffersEarlyData /\ ~c.hrr => c'.tr[1] = c.tr[1]
    <3>1. IsSeq(c.tr) /\ 1 \in 1 .. Len(c.tr) /\ c'.tr = Append(c.tr, m)
      BY <1>1, <1>4, <1>6, TranscriptsAre, PlacesAre
    <3> QED
      BY <3>1, AppendIs
  <2> QED
    BY <1>1, <1>2, <1>3, <1>8, <1>9, <2>1, <2>2, <2>3 DEF FlowInv, ClientParameters
<1>13. ClientKeys'
  BY <1>1, <1>2, <1>8, <1>9 DEF FlowInv, ClientKeys
<1>14. ClientKeepsKeys
  BY <1>1, <1>2, <1>3, <1>9 DEF ClientKeepsKeys, HelloSent
<1>15. /\ ToServer' = ToServer /\ ToClient # <<>> /\ ToClient' = Tail(ToClient)
  BY <1>1 DEF ClientHears
<1> QED
  BY <1>1, <1>2, <1>5, <1>6, <1>9, <1>10, <1>11, <1>12, <1>13, <1>14, <1>15, BeginFrame
-----------------------------------------------------------------------------
(* The client writes early data.                                           *)

\* Every message of a stream stands behind what was hashed.
LEMMA StreamStands ==
    ASSUME NEW q, IsSeq(q), NEW n \in Nat, NEW t, IsSeq(t), Stream(q, n, t),
           NEW k \in 1 .. Len(q), IsHs(q[k])
    PROVE  \E i \in Nat : i > n /\ Stands(q[k], t, i)
<1>1. PICK p \in [0 .. Len(q) -> Nat] :
          /\ p[0] = n
          /\ \A j, l \in 0 .. Len(q) : j <= l => p[j] <= p[l]
          /\ \A l \in 1 .. Len(q) :
                 IF IsHs(q[l]) THEN p[l] = p[l - 1] + 1 /\ Stands(q[l], t, p[l])
                 ELSE p[l] = p[l - 1]
  BY DEF Stream
<1>2. Len(q) \in Nat
  OBVIOUS
<1>3. k - 1 \in 0 .. Len(q) /\ k \in 0 .. Len(q) /\ 0 \in 0 .. Len(q) /\ 0 <= k - 1
  BY <1>2
<1>4. p[k] \in Nat /\ p[k - 1] \in Nat /\ p[0] <= p[k - 1]
  BY <1>1, <1>3
<1>5. p[k] = p[k - 1] + 1 /\ Stands(q[k], t, p[k])
  BY <1>1
<1>6. p[k] > n
  BY <1>1, <1>4, <1>5
<1> QED
  BY <1>4, <1>5, <1>6

\* A client in the flight of the server has not heard its end.
LEMMA FlightIsNotOver ==
    ASSUME TlsInv, FlowInv, c.state \in ClientKeyed
    PROVE  Len(c.tr) < FlightEnd
<1>1. /\ HelloPlace \in {1, 3} /\ Asked \in {0, 1} /\ FlightEnd \in Nat /\ FlightEnd >= HelloPlace + 3
  BY PlacesAre
<1>2. c.state \in {"CERTIFICATE_REQUEST", "SERVER_CERTIFICATE", "CERTIFICATE_VERIFY"} =>
          FlightEnd = HelloPlace + 5 + Asked
  BY DEF FlowInv, Places, ClientPlace, FlightEnd
<1>3. \/ Len(c.tr) = HelloPlace + 1 \/ Len(c.tr) = FlightEnd - 1
      \/ /\ FlightEnd = HelloPlace + 5 + Asked
         /\ \/ Len(c.tr) = HelloPlace + 2 \/ Len(c.tr) = HelloPlace + 2 + Asked
            \/ Len(c.tr) = HelloPlace + 3 + Asked
  BY <1>2 DEF FlowInv, Places, ClientPlace, ClientKeyed
<1> QED
  BY <1>1, <1>3

\* In the flight of the server everything the client said is read.
LEMMA FlightIsListened ==
    ASSUME TlsInv, FlowInv, c.state \in ClientKeyed
    PROVE  /\ ~HelloUnread /\ ~HashedAlone
           /\ failed.server = "no" => NoHs(ToServer)
<1>1. s.state \in ServerKeyed \cup ServerSecond /\ ~HashedAlone
  BY DEF FlowInv, Places, Turns, ClientPlace
<1>2. ~HelloUnread
  BY <1>1 DEF HelloUnread, ServerKeyed, ServerSecond, ServerDone, ServerTickets
<1>3. Heard = c.tr /\ Len(c.tr) \in Nat /\ Len(s.tr) \in Nat /\ FlightEnd \in Nat
  BY <1>1, TranscriptsAre, PlacesAre
<1>4. Len(Heard) <= Len(s.tr)
  <2>1. CASE s.state \in ServerKeyed
    BY <2>1, ServerHasHeardAll DEF ServerKeyed, ServerListens
  <2>2. CASE s.state \in ServerSecond
    <3>1. FlightEnd <= Len(s.tr) /\ Len(c.tr) < FlightEnd
      BY <2>2, ServerSecondPlace, FlightIsNotOver
    <3> QED
      BY <1>3, <3>1
  <2> QED
    BY <1>1, <2>1, <2>2
<1> QED
  BY <1>1, <1>2, <1>4, QueuesAreIdle

\* While early data may be written, only first ClientHellos are on their way.
LEMMA EarlyDataIsFirst ==
    ASSUME TlsInv, EarlyInv, FlowInv, failed.server = "no", ~c.hrr,
           c.state \in {"SERVER_HELLO"} \cup ClientKeyed
    PROVE  OnlyFirstHello /\ (HelloUnread => ToServer # <<>>)
<1>1. CASE c.state \in ClientKeyed
  BY <1>1, FlightIsListened DEF OnlyFirstHello, NoHs
<1>2. CASE c.state = "SERVER_HELLO"
  <2>1. Len(c.tr) = 1
    BY <1>2 DEF FlowInv, Places, ClientPlace
  <2>2. Len(Heard) = 1 /\ IsSeq(Heard) /\ IsSeq(s.tr) /\ Len(s.tr) \in Nat
    BY <2>1, TranscriptsAre
  <2>3. IsSeq(ToServer) /\ Stream(ToServer, Len(s.tr), Heard)
    BY QueuesAre DEF TlsInv, FlowInv, Streams
  <2>4. HelloUnread => ToServer # <<>>
    <3>1. HelloUnread => Len(s.tr) = 0
      BY DEF FlowInv, Places, ServerPlace, HelloUnread, HelloPlace
    <3>2. ASSUME HelloUnread
          PROVE  Len(s.tr) \in Nat /\ Len(s.tr) < Len(Heard)
      BY <2>2, <3>1, <3>2
    <3> QED
      BY <2>2, <2>3, <3>2, StreamIsThere
  <2>5. CASE s.hrr
    <3>1. Len(s.tr) = 2
      BY <2>5 DEF FlowInv, Places, Turns, HashedAlone
    <3>2. NoHs(ToServer)
      BY <2>2, <3>1, QueuesAreIdle
    <3> QED
      BY <2>4, <3>2 DEF OnlyFirstHello, NoHs
  <2>6. CASE ~s.hrr
    <3>1. HelloPlace = 1
      BY <2>6 DEF HelloPlace
    <3>2. MessageIsRight(1, Heard[1])
      BY <2>2 DEF FlowInv, MessagesAreRight
    <3>3. Heard[1].t = "client_hello"
      BY <3>1, <3>2 DEF MessageIsRight, HelloIsRight
    <3>4. ASSUME NEW j \in 1 .. Len(ToServer), IsHs(ToServer[j])
          PROVE  Carries(ToServer[j], "client_hello") /\ ToServer[j].over = <<>>
      <4>1. PICK i \in Nat : Stands(ToServer[j], Heard, i)
        BY <2>2, <2>3, <3>4, StreamStands
      <4>2. i = 1
        BY <2>2, <4>1 DEF Stands
      <4>3. ToServer[j].msg = Heard[1] /\ (ToServer[j].msg.t \in Bound => ToServer[j].over = SubSeq(Heard, 1, 0))
        BY <4>1, <4>2 DEF Stands
      <4>4. SubSeq(Heard, 1, 0) = <<>>
        <5>1. IsSeq(SubSeq(Heard, 1, 0)) /\ Len(SubSeq(Heard, 1, 0)) = 0
          BY <2>2, PrefixIs
        <5>2. IsSeq(<<>>) /\ Len(<<>>) = 0
          BY DEF IsSeq
        <5> QED
          BY <5>1, <5>2, SeqsAreEqual
      <4> QED
        BY <3>3, <3>4, <4>3, <4>4 DEF Carries, IsHs, Bound
    <3> QED
      BY <2>4, <3>4 DEF OnlyFirstHello
  <2> QED
    BY <2>5, <2>6
<1> QED
  BY <1>1, <1>2

\* The client's application writes an item, or writes one again.
LEMMA WriteEarlyDataFlow ==
    ASSUME TlsInv, EarlyInv, FlowInv, NEW taken \in BOOLEAN, WriteEarlyData(taken)
    PROVE  FlowInv'
<1>0. PICK r : r = DataRecord(c, app.next)
  OBVIOUS
<1>1. /\ failed.client = "no" /\ c.early \in {"CAN_WRITE", "ACCEPTED"}
      /\ ToClient' = ToClient /\ ToServer' = Append(ToServer, r)
      /\ UNCHANGED <<conf, s, failed>>
      /\ ClientChanges({"total"}) /\ app'.received = app.received
      /\ \/ c'.total = c.total /\ app'.next = app.next /\ app'.retried # {}
         \/ /\ c'.total = c.total + 1 /\ app'.next = app.next + 1 /\ c.total < MaxEarly
            /\ app'.retried = app.retried
  BY <1>0, WriteEarlyDataDoes
<1>2. r.type = "application_data" /\ r.key = c.tout
  BY <1>0 DEF DataRecord
<1>3. \A f \in ClientFields \ {"total"} : c'[f] = c[f]
  BY <1>1 DEF ClientChanges
<1>4. /\ c'.hrr = c.hrr /\ c'.tr = c.tr /\ c'.early = c.early /\ c'.state = c.state
      /\ c'.client_auth = c.client_auth /\ c'.tin = c.tin /\ c'.tout = c.tout
      /\ c'.share = c.share /\ c'.psk = c.psk /\ c'.early_key = c.early_key
      /\ c'.mode = c.mode /\ c'.selected = c.selected /\ c'.handshake_key = c.handshake_key
  BY <1>3 DEF ClientFields
<1>5. /\ s' = s /\ conf' = conf /\ failed' = failed /\ TermsStay
      /\ HelloPlace' = HelloPlace /\ Asked' = Asked /\ FlightEnd' = FlightEnd
      /\ CertificateEnd' = CertificateEnd
      /\ OffersEarlyData' = OffersEarlyData /\ Ephemeral' = Ephemeral
      /\ SecondPskAfterEarlyData' = SecondPskAfterEarlyData
      /\ HelloUnread' = HelloUnread /\ ServerIsReady' = ServerIsReady
  BY <1>1, ClientStepTerms
<1>6. Heard' = Heard /\ HashedAlone' = HashedAlone /\ HelloSent' = HelloSent
  BY <1>4, <1>5, HeardStays DEF HashedAlone, HelloSent
<1>7. /\ c.state \in {"SERVER_HELLO"} \cup ClientKeyed /\ ~c.hrr /\ OffersEarlyData
      /\ HelloSent /\ c.early_key.stage = "early"
  <2>1. c.state \in {"SERVER_HELLO"} \cup ClientKeyed /\ ~c.hrr /\ OffersEarlyData
    BY <1>1 DEF FlowInv, ClientParameters
  <2>2. HelloSent
    BY <2>1 DEF HelloSent, ClientKeyed
  <2> QED
    BY <2>1, <2>2 DEF FlowInv, ClientParameters
<1>8. r.key = c.early_key /\ r.key # NoKey /\ ~IsHs(r) /\ IsEarlyRecord(r)
  <2>1. c.tout = c.early_key
    BY <1>7 DEF FlowInv, ClientKeys
  <2>2. c.early_key # NoKey
    BY <1>7 DEF NoKey
  <2> QED
    BY <1>2, <2>1, <2>2 DEF IsHs, IsEarlyRecord
<1>9. Streams' /\ TranscriptsAgree' /\ MessagesAreRight'
  <2>1. PadsClient /\ PadsServer
    BY <1>1, <1>8 DEF PadsClient, PadsServer
  <2> QED
    BY <1>5, <1>6, <2>1, PaddedStreams, MessagesStayRight
<1>10. ServerPlace' /\ ServerParameters' /\ ServerKeys' /\ DiscardIsRight'
  BY <1>5, ServerPartsStay
<1>11. ClientPlace' /\ Turns'
  BY <1>4, <1>5, <1>6 DEF FlowInv, Places, ClientPlace, Turns
<1>12. ClientParameters' /\ ClientKeys'
  BY <1>4, <1>5, <1>6 DEF FlowInv, ClientParameters, ClientKeys
<1>13. ValuesAreKnown'
  BY <1>4, <1>5 DEF FlowInv, ValuesAreKnown
<1>14. FailuresAreKnown' /\ BadMacIsExpected'
  BY <1>1, <1>4, <1>5, FailuresStay
<1>15. EarlyIsCounted'
  <2>1. c.total = app.next - 1 /\ c.total <= MaxEarly /\ app.next \in Nat /\ MaxEarly \in Nat
    BY BoundsAreNatural DEF FlowInv, EarlyIsCounted, EarlyInv, ItemsAreNumbers
  <2>2. c'.total = app'.next - 1 /\ c'.total <= MaxEarly
    BY <1>1, <2>1
  <2> QED
    BY <1>1, <1>5, <2>2 DEF FlowInv, EarlyIsCounted
<1>16. RecordsHaveKeys'
  <2>1. ClientRecordHasKey(r)'
    BY <1>2, <1>4, <1>5, <1>6, <1>7, <1>8 DEF ClientRecordHasKey, IsEarlyRecord, IsHs, Carries
  <2>2. ClientKeepsKeys /\ ServerKeepsKeys
    BY <1>4, <1>5, <1>6 DEF ClientKeepsKeys, ServerKeepsKeys
  <2> QED
    BY <1>1, <2>1, <2>2, RecordsStillHaveKeys
<1>17. failed.server = "no" => OnlyFirstHello /\ (HelloUnread => ToServer # <<>>)
  BY <1>7, EarlyDataIsFirst
<1>18. ServerIsReady
  <2>1. CASE s.early_accepted
    BY <1>1, <2>1 DEF EarlyInv, AcceptedIsRead, ServerIsReady
  <2>2. CASE ~s.early_accepted /\ ~HelloUnread
    <3>1. s.hrr => Len(s.tr) = 2
      BY <1>7 DEF FlowInv, Places, Turns, HashedAlone
    <3>2. Len(s.tr) <= FlightEnd
      BY <1>7 DEF FlowInv, Places, Turns, ClientSecond, ClientKeyed, ClientDone
    <3> QED
      BY <1>7, <2>2, <3>1, <3>2 DEF FlowInv, DiscardIsRight, ServerIsReady
  <2> QED
    BY <2>1, <2>2 DEF ServerIsReady
<1>19. EarlyComesFirst'
  BY <1>1, <1>5, <1>17, EarlyStaysFirst
<1>20. EarlyIsAwaited'
  BY <1>1, <1>5, <1>18, EarlyStaysAwaited
<1> QED
  BY <1>9, <1>10, <1>11, <1>12, <1>13, <1>14, <1>15, <1>16, <1>19, <1>20 DEF FlowInv, Places
-----------------------------------------------------------------------------
(* The steps of the server behind the ClientHello.                         *)

\* What depends on the terms only.
LEMMA ServerStepTerms ==
    ASSUME c' = c, TermsStay
    PROVE  /\ HelloPlace' = HelloPlace /\ Asked' = Asked /\ FlightEnd' = FlightEnd
           /\ CertificateEnd' = CertificateEnd
           /\ Heard' = Heard /\ HashedAlone' = HashedAlone
           /\ OffersEarlyData' = OffersEarlyData /\ Ephemeral' = Ephemeral
           /\ ClientPsks' = ClientPsks /\ HelloSent' = HelloSent
<1>1. HashedAlone' = HashedAlone
  BY DEF TermsStay, HashedAlone
<1>2. Heard' = Heard
  BY <1>1 DEF Heard, TranscriptForHrr
<1> QED
  BY <1>1, <1>2, PlacesStay DEF TermsStay, OffersEarlyData, Ephemeral, ClientPsks, TicketModes, HelloSent

\* The server that answers keeps what it decided.
KnownStays ==
    /\ ServerIsAlone /\ TermsStay /\ s'.psk = s.psk /\ s'.limit = s.limit
    /\ s'.early_key = s.early_key /\ s'.total = s.total

Answering == {"SERVER_HELLO"} \cup ServerKeyed \cup ServerSecond

\* A server that answers has read the ClientHello.
LEMMA AnsweringPlace ==
    ASSUME TlsInv, EarlyInv, FlowInv, s.state \in Answering
    PROVE  /\ Len(s.tr) >= HelloPlace /\ ~HashedAlone /\ Heard = c.tr
           /\ ~HelloUnread /\ s.state \notin ServerBegins
<1>1. s.state \notin {"HELLO_REQUEST", "CLIENT_HELLO", "HELLO_RETRY_REQUEST",
                      "SERVER_CCS_AFTER_HELLO_RETRY_REQUEST"}
  BY DEF Answering, ServerKeyed, ServerSecond, ServerDone, ServerTickets
<1>2. Len(s.tr) >= HelloPlace
  BY <1>1, ServerIsInPlace
<1>3. ~HashedAlone
  <2>1. HashedAlone => HelloPlace = 3 /\ Len(s.tr) = 2
    BY DEF HashedAlone, HelloPlace, FlowInv, Places, Turns
  <2> QED
    BY <1>2, <2>1
<1> QED
  BY <1>1, <1>2, <1>3, TranscriptsAre DEF HelloUnread, ServerBegins

\* The client listens to a server that speaks.
LEMMA ClientListensToFlight ==
    ASSUME TlsInv, EarlyInv, FlowInv, s.state \in {"SERVER_HELLO"} \cup ServerKeyed
    PROVE  c.state \in ClientListens
<1>1. s.state \in Answering /\ s.state \notin ServerSecond
  BY DEF Answering, ServerKeyed, ServerSecond, ServerDone, ServerTickets
<1>2. c.state \notin ClientSecond
  BY <1>1 DEF TlsInv, Joint, PeersAgree
<1>3. ASSUME c.state \notin ClientListens
      PROVE  FALSE
  <2>1. c.state \in {"HELLO_REQUEST", "CLIENT_HELLO", "CLIENT_CCS_BEFORE_2ND_CLIENT_HELLO"}
    BY <1>2, <1>3 DEF FlowInv, ValuesAreKnown, ClientBegins, ClientListens
  <2>2. Len(s.tr) <= Len(c.tr) /\ Len(s.tr) >= HelloPlace
    BY <1>1, <1>3, ClientHasHeardAll, AnsweringPlace
  <2>3. (c.hrr => s.hrr) /\ (s.hrr => HelloPlace = 3) /\ HelloPlace \in {1, 3}
    BY PlacesAre DEF HelloPlace, FlowInv, Places, ClientPlace
  <2>4. Len(c.tr) = 0 \/ (Len(c.tr) = 2 /\ HelloPlace = 3)
    BY <2>1, <2>3 DEF FlowInv, Places, ClientPlace
  <2>5. Len(s.tr) \in Nat /\ Len(c.tr) \in Nat /\ HelloPlace \in {1, 3}
    BY TranscriptsAre, PlacesAre
  <2>6. CASE Len(c.tr) = 0
    BY <2>2, <2>5, <2>6
  <2>7. CASE Len(c.tr) = 2 /\ HelloPlace = 3
    BY <2>2, <2>5, <2>7
  <2> QED
    BY <2>4, <2>6, <2>7
<1> QED
  BY <1>3

\* A server with its keys has written the ServerHello.
LEMMA KeyedPlace ==
    ASSUME TlsInv, FlowInv, s.state \in ServerKeyed \cup ServerSecond
    PROVE  Len(s.tr) >= HelloPlace + 1
<1>1. /\ HelloPlace \in {1, 3} /\ Asked \in {0, 1} /\ Len(s.tr) \in Nat
      /\ FlightEnd \in Nat /\ FlightEnd >= HelloPlace + 3
  BY PlacesAre, TranscriptsAre
<1>2. CASE s.state \in ServerSecond
  <2>1. FlightEnd <= Len(s.tr)
    BY <1>2, ServerSecondPlace
  <2> QED
    BY <1>1, <2>1
<1>3. CASE s.state \in ServerKeyed
  <2>1. \/ Len(s.tr) = HelloPlace + 1 \/ Len(s.tr) = HelloPlace + 2
        \/ Len(s.tr) = HelloPlace + 2 + Asked \/ Len(s.tr) = HelloPlace + 3 + Asked
        \/ Len(s.tr) = FlightEnd - 1
    BY <1>3 DEF FlowInv, Places, ServerPlace, ServerKeyed
  <2> QED
    BY <1>1, <2>1
<1> QED
  BY <1>2, <1>3

\* The parameters of a server that answers.
LEMMA AnsweringParameters ==
    ASSUME TlsInv, EarlyInv, FlowInv, KnownStays,
           s.state \in Answering, s'.state \in ServerKeyed \cup ServerSecond,
           s'.tr = s.tr \/ \E m : s'.tr = Append(s.tr, m),
           \/ s.state \in ServerKeyed \cup ServerSecond /\ s'.handshake_key = s.handshake_key
           \/ s'.handshake_key.tr = SubSeq(s'.tr, 1, HelloPlace + 1)
    PROVE  ServerParameters'
<1>1. c' = c /\ TermsStay /\ conf' = conf
  BY DEF KnownStays, ServerIsAlone
<1>2. IsSeq(s.tr) /\ Len(s.tr) \in Nat /\ HelloPlace \in Nat /\ HelloPlace >= 1
  BY TranscriptsAre, PlacesAre
<1>3. Len(s.tr) >= HelloPlace
  BY AnsweringPlace
<1>4. s'.tr[HelloPlace] = s.tr[HelloPlace] /\ s'.tr[1] = s.tr[1]
  <2>1. HelloPlace \in 1 .. Len(s.tr) /\ 1 \in 1 .. Len(s.tr)
    BY <1>2, <1>3
  <2> QED
    BY <1>2, <2>1, AppendIs
<1>5. s'.handshake_key.tr = SubSeq(s'.tr, 1, HelloPlace + 1)
  <2>1. CASE s.state \in ServerKeyed \cup ServerSecond /\ s'.handshake_key = s.handshake_key
    <3>1. s.handshake_key.tr = SubSeq(s.tr, 1, HelloPlace + 1)
      BY <2>1 DEF FlowInv, ServerParameters
    <3>2. HelloPlace + 1 \in 0 .. Len(s.tr)
      <4>1. s.state \notin {"HELLO_REQUEST", "CLIENT_HELLO", "HELLO_RETRY_REQUEST", "SERVER_HELLO",
                            "SERVER_CCS_AFTER_HELLO_RETRY_REQUEST"}
        BY <2>1 DEF ServerKeyed, ServerSecond, ServerDone, ServerTickets
      <4>2. Len(s.tr) >= HelloPlace + 1
        BY <2>1, KeyedPlace
      <4> QED
        BY <1>2, <4>2
    <3> QED
      BY <1>2, <2>1, <3>1, <3>2, PrefixStays
  <2> QED
    BY <2>1
<1>6. s'.state \notin {"HELLO_REQUEST", "CLIENT_HELLO", "HELLO_RETRY_REQUEST"}
  BY DEF ServerKeyed, ServerSecond, ServerDone, ServerTickets
<1>7. /\ s.share \in {"none", s.tr[HelloPlace].share}
      /\ s.mode \in conf.c_modes
      /\ s.mode \in PskModes => s.selected \in DOMAIN ClientPsks /\ s.psk = ClientPsks[s.selected]
      /\ s.mode \notin PskModes => s.psk = "zero"
      /\ s.early_accepted =>
           /\ s.selected = 1 /\ s.psk = "ticket" /\ s.limit = MaxEarly
           /\ s.early_key = Key("early", "ticket", "none", <<s.tr[1]>>)
           /\ ~s.hrr /\ OffersEarlyData
  BY DEF FlowInv, ServerParameters, Answering
<1>8. /\ HelloPlace' = HelloPlace /\ ClientPsks' = ClientPsks /\ OffersEarlyData' = OffersEarlyData
  BY <1>1, ServerStepTerms
<1>9. ~HelloUnread'
  BY <1>6 DEF HelloUnread
<1> QED
  BY <1>1, <1>4, <1>5, <1>6, <1>7, <1>8, <1>9 DEF ServerParameters, KnownStays, TermsStay

\* What is longer than two is not two.
LEMMA LongerThanTwo ==
    ASSUME NEW n, n \in Nat, n >= 3, NEW k, k \in Nat, k >= n
    PROVE  k # 2 /\ n # 2
OBVIOUS

\* What is skipped by a server that answers.
LEMMA AnsweringDiscard ==
    ASSUME TlsInv, EarlyInv, FlowInv, KnownStays,
           s.state \in Answering, s'.state \in ServerKeyed \cup ServerSecond,
           s'.tr = s.tr \/ \E m : s'.tr = Append(s.tr, m),
           s'.discard = s.discard \/ (s'.discard = "NO_DISCARD" /\ Len(s'.tr) > FlightEnd)
    PROVE  DiscardIsRight'
<1>1. c' = c /\ TermsStay /\ conf' = conf
  BY DEF KnownStays, ServerIsAlone
<1>2. Len(s.tr) >= HelloPlace /\ ~HelloUnread /\ s.state \notin ServerBegins
  BY AnsweringPlace
<1>3. s'.state \notin ServerBegins
  BY DEF ServerBegins, ServerKeyed, ServerSecond, ServerDone, ServerTickets
<1>4. /\ IsSeq(s.tr) /\ Len(s.tr) \in Nat /\ Len(s'.tr) \in Nat /\ Len(s'.tr) >= Len(s.tr)
      /\ FlightEnd \in Nat
  <2>1. IsSeq(s.tr) /\ Len(s.tr) \in Nat /\ FlightEnd \in Nat
    BY TranscriptsAre, PlacesAre
  <2>2. \A m : Len(Append(s.tr, m)) = Len(s.tr) + 1
    BY <2>1, AppendIs
  <2> QED
    BY <2>1, <2>2
<1>5. FlightEnd' = FlightEnd /\ OffersEarlyData' = OffersEarlyData
  BY <1>1, ServerStepTerms
<1>6. s.hrr => Len(s'.tr) # 2 /\ Len(s.tr) # 2
  <2>1. s.hrr => HelloPlace = 3
    BY DEF HelloPlace
  <2>2. Len(s.tr) >= HelloPlace
    BY <1>2
  <2>3. ASSUME HelloPlace = 3
        PROVE  Len(s'.tr) # 2 /\ Len(s.tr) # 2
    <3>1. Len(s.tr) >= 3
      BY <2>2, <2>3
    <3>2. Len(s.tr) \in Nat /\ Len(s'.tr) \in Nat /\ Len(s'.tr) >= Len(s.tr)
      BY <1>4
    <3> QED
      BY <3>1, <3>2, LongerThanTwo
  <2> QED
    BY <2>1, <2>3
<1>7. s.discard \in {"NO_DISCARD", "TRY_TO_DEPROTECT_AND_DISCARD"}
  BY <1>2 DEF FlowInv, DiscardIsRight
<1>8. Len(s'.tr) <= FlightEnd => Len(s.tr) <= FlightEnd /\ s'.discard = s.discard
  BY <1>4
<1>9. OffersEarlyData /\ ~s.early_accepted /\ ~s.hrr /\ Len(s.tr) <= FlightEnd => s.discard # "NO_DISCARD"
  BY <1>2 DEF FlowInv, DiscardIsRight
<1> QED
  BY <1>1, <1>3, <1>5, <1>6, <1>7, <1>8, <1>9 DEF DiscardIsRight, TermsStay

\* Whose turn it is while the server answers.
LEMMA AnsweringTurns ==
    ASSUME TlsInv, EarlyInv, FlowInv, KnownStays,
           s.state \in Answering, s'.state \in ServerKeyed \cup ServerSecond,
           \/ s'.tr = s.tr
           \/ \E m : s'.tr = Append(s.tr, m),
           \/ s'.tr = s.tr /\ (s.state \in ServerListens => s'.state \in ServerListens)
           \/ s.state \in {"SERVER_HELLO"} \cup ServerKeyed /\ Len(s'.tr) <= FlightEnd
           \/ s.state \in ServerSecond /\ s'.state \in ServerListens /\ Len(s.tr) < Len(Heard)
           \/ s'.tr = c.tr /\ c.state \in ClientSecond,
           s'.state = "CERTIFICATE_REQUEST" => Len(Heard) < HelloPlace + 2
    PROVE  Turns'
<1>1. c' = c /\ TermsStay /\ conf' = conf
  BY DEF KnownStays, ServerIsAlone
<1>2. Len(s.tr) >= HelloPlace /\ ~HashedAlone /\ Heard = c.tr
  BY AnsweringPlace
<1>3. /\ IsSeq(s.tr) /\ Len(s.tr) \in Nat /\ Len(c.tr) \in Nat /\ FlightEnd \in Nat
      /\ \A m : Len(Append(s.tr, m)) = Len(s.tr) + 1
  <2>1. IsSeq(s.tr) /\ Len(s.tr) \in Nat /\ Len(c.tr) \in Nat /\ FlightEnd \in Nat
    BY TranscriptsAre, PlacesAre
  <2> QED
    BY <2>1, AppendIs
<1>4. FlightEnd' = FlightEnd /\ Heard' = c.tr /\ ~HashedAlone' /\ c'.state = c.state
  BY <1>1, <1>2, ServerStepTerms
<1>5. /\ Len(c.tr) < Len(s.tr) => c.state \in ClientListens
      /\ Len(s.tr) < Len(c.tr) => s.state \in ServerListens
      /\ c.state \notin ClientSecond => Len(s.tr) <= FlightEnd
  BY <1>2 DEF FlowInv, Places, Turns
<1>6. c.state = "SERVER_CERTIFICATE" => s'.state # "CERTIFICATE_REQUEST"
  <2>1. c.state = "SERVER_CERTIFICATE" => Len(c.tr) = HelloPlace + 2 + Asked
    BY DEF FlowInv, Places, ClientPlace
  <2>2. HelloPlace + 2 + Asked >= HelloPlace + 2 /\ HelloPlace + 2 + Asked \in Nat /\ HelloPlace + 2 \in Nat
    BY PlacesAre
  <2>3. Len(c.tr) = HelloPlace + 2 + Asked => ~(Len(c.tr) < HelloPlace + 2)
    BY <2>2
  <2> QED
    BY <1>2, <2>1, <2>3
<1>7. /\ Len(c.tr) < Len(s'.tr) => c.state \in ClientListens
      /\ Len(s'.tr) < Len(c.tr) => s'.state \in ServerListens
      /\ c.state \notin ClientSecond => Len(s'.tr) <= FlightEnd
  <2>1. CASE s'.tr = s.tr /\ (s.state \in ServerListens => s'.state \in ServerListens)
    BY <1>5, <2>1
  <2>2. CASE s.state \in {"SERVER_HELLO"} \cup ServerKeyed /\ Len(s'.tr) <= FlightEnd
    <3>1. c.state \in ClientListens
      BY <2>2, ClientListensToFlight
    <3>2. Len(c.tr) <= Len(s.tr)
      BY <1>2, <2>2, ServerHasHeardAll DEF ServerKeyed, ServerListens
    <3>3. ~(Len(s'.tr) < Len(c.tr))
      BY <1>3, <3>2
    <3> QED
      BY <2>2, <3>1, <3>3
  <2>3. CASE s.state \in ServerSecond /\ s'.state \in ServerListens /\ Len(s.tr) < Len(Heard)
    <3>1. FlightEnd <= Len(s.tr)
      BY <2>3, ServerSecondPlace
    <3>2. FlightEnd < Len(c.tr)
      BY <1>2, <1>3, <2>3, <3>1
    <3>3. c.state \in ClientSecond
      <4>1. c.state \notin ClientKeyed
        BY <1>3, <3>2, FlightIsNotOver
      <4>2. ~(Len(Heard) <= HelloPlace)
        <5>1. FlightEnd >= HelloPlace + 3 /\ HelloPlace \in {1, 3}
          BY PlacesAre
        <5> QED
          BY <1>2, <1>3, <3>2, <5>1
      <4> QED
        BY <4>1, <4>2, HeardBeforeKeys
    <3>4. ~(Len(c.tr) < Len(s'.tr))
      BY <1>2, <1>3, <2>3
    <3> QED
      BY <2>3, <3>3, <3>4
  <2>4. CASE s'.tr = c.tr /\ c.state \in ClientSecond
    BY <1>3, <2>4
  <2> QED
    BY <2>1, <2>2, <2>3, <2>4
<1> QED
  BY <1>4, <1>6, <1>7 DEF Turns

\* The frame of a server's step that keeps the terms.
LEMMA ServerFrame ==
    ASSUME FlowInv, ServerIsAlone, TermsStay, s.early_accepted => s'.total = s.total,
           c.state \in ClientKeyed => s'.handshake_key = s.handshake_key,
           Streams', TranscriptsAgree', MessagesAreRight',
           ServerPlace', Turns', ServerParameters', ServerKeys', DiscardIsRight',
           RecordsHaveKeys', EarlyComesFirst', EarlyIsAwaited'
    PROVE  FlowInv'
<1>1. c' = c /\ conf' = conf /\ app' = app /\ failed' = failed
  BY DEF ServerIsAlone
<1>2. ClientPlace' /\ ClientParameters' /\ ClientKeys'
  BY <1>1, ClientPartsStay
<1>3. ValuesAreKnown'
  BY <1>1 DEF FlowInv, ValuesAreKnown, TermsStay
<1>4. FailuresAreKnown' /\ BadMacIsExpected'
  BY <1>1, FailuresStay
<1>5. EarlyIsCounted'
  BY <1>1 DEF FlowInv, EarlyIsCounted, TermsStay
<1> QED
  BY <1>2, <1>3, <1>4, <1>5 DEF FlowInv, Places

\* The frame of the server's steps behind the ClientHello.
LEMMA AnsweringFrame ==
    ASSUME TlsInv, EarlyInv, FlowInv, KnownStays,
           s.state \in Answering, s'.state \in ServerKeyed \cup ServerSecond,
           s'.tr = s.tr \/ \E m : s'.tr = Append(s.tr, m),
           \/ s.state \in ServerKeyed \cup ServerSecond /\ s'.handshake_key = s.handshake_key
           \/ s.state = "SERVER_HELLO" /\ s'.handshake_key.tr = SubSeq(s'.tr, 1, HelloPlace + 1),
           s.state \in ServerTickets =>
               s'.state \in ServerTickets /\ s'.application_key = s.application_key,
           s'.discard = s.discard \/ (s'.discard = "NO_DISCARD" /\ Len(s'.tr) > FlightEnd),
           \/ ToClient' = ToClient
           \/ ToClient # <<>> /\ ToClient' = Tail(ToClient)
           \/ \E r : ToClient' = Append(ToClient, r) /\ ServerRecordHasKey(r)',
           \/ ToServer' = ToServer /\ (ServerIsReady => ServerIsReady')
           \/ ToServer # <<>> /\ ToServer' = Tail(ToServer) /\ (ServerIsReady => ServerIsReady' \/ NoneIsEarly),
           Streams', TranscriptsAgree', MessagesAreRight', ServerPlace', Turns', ServerKeys'
    PROVE  FlowInv'
<1>1. c' = c /\ TermsStay /\ conf' = conf /\ failed' = failed /\ s'.total = s.total
  BY DEF KnownStays, ServerIsAlone
<1>2. ServerParameters'
  BY AnsweringParameters
<1>3. DiscardIsRight'
  BY AnsweringDiscard
<1>4. ~HelloUnread'
  BY DEF HelloUnread, ServerKeyed, ServerSecond, ServerDone, ServerTickets
<1>5. EarlyComesFirst' /\ EarlyIsAwaited'
  BY <1>1, <1>4, EarlyStaysFirst, EarlyStaysAwaited
<1>6. s.state = "SERVER_HELLO" => s.state \notin ServerKeyed \cup ServerSecond
  BY DEF ServerKeyed, ServerSecond, ServerDone, ServerTickets
<1>7. ClientKeepsKeys /\ ServerKeepsKeys
  <2>1. HelloSent' = HelloSent
    BY <1>1, ServerStepTerms
  <2> QED
    BY <1>1, <1>6, <2>1 DEF ClientKeepsKeys, ServerKeepsKeys, TermsStay
<1>8. RecordsHaveKeys'
  BY <1>7, RecordsStillHaveKeys
<1>9. c.state \in ClientKeyed => s'.handshake_key = s.handshake_key
  <2>1. c.state \in ClientKeyed => s.state \in ServerKeyed \cup ServerSecond
    BY DEF FlowInv, Places, Turns
  <2> QED
    BY <1>6, <2>1
<1> QED
  BY <1>1, <1>2, <1>3, <1>5, <1>8, <1>9, ServerFrame DEF KnownStays

\* The server is as ready as before.
LEMMA AnsweringIsReady ==
    ASSUME TlsInv, EarlyInv, FlowInv, KnownStays, s.state \in Answering, s'.discard = s.discard,
           PastEarlyData' => PastEarlyData
    PROVE  ServerIsReady => ServerIsReady'
<1>1. ~HelloUnread
  BY AnsweringPlace
<1> QED
  BY <1>1 DEF ServerIsReady, KnownStays, TermsStay

\* The server writes a message of its flight.
LEMMA AnsweringSays ==
    ASSUME TlsInv, EarlyInv, FlowInv, KnownStays,
           s.state \in {"SERVER_HELLO"} \cup ServerKeyed, s'.state \in ServerKeyed \cup ServerSecond,
           \/ s.state \in ServerKeyed /\ s'.handshake_key = s.handshake_key
           \/ s.state = "SERVER_HELLO" /\ s'.handshake_key.tr = SubSeq(s'.tr, 1, HelloPlace + 1),
           s'.discard = s.discard, s'.state \in ServerSecond /\ s.early_accepted => s'.state = "END_OF_EARLY_DATA",
           NEW m, NEW key, ServerSays(m, key), MessageIsRight(Len(s.tr) + 1, m),
           m.t # "new_session_ticket",
           m.t = "server_hello" => key = NoKey,
           m.t # "server_hello" => key = s'.handshake_key,
           Len(s.tr) + 1 <= FlightEnd,
           s'.state = "CERTIFICATE_REQUEST" => Len(s.tr) < HelloPlace + 2,
           ServerPlace', ServerKeys'
    PROVE  FlowInv'
<1>1. c' = c /\ TermsStay /\ conf' = conf /\ failed' = failed
  BY DEF KnownStays, ServerIsAlone
<1>2. s.state \in Answering /\ s.state \notin ServerListens \cup ServerTickets
  BY DEF Answering, ServerKeyed, ServerListens, ServerTickets
<1>3. Heard' = Heard /\ FlightEnd' = FlightEnd
  BY <1>1, ServerStepTerms
<1>4. Streams' /\ TranscriptsAgree' /\ Answered(m)
  BY <1>1, <1>2, <1>3, ServerSaysStreams
<1>5. MessagesAreRight'
  BY <1>1, <1>3, <1>4, MessagesStayRight DEF Answered
<1>6. s'.tr = Append(s.tr, m) /\ Len(s'.tr) <= FlightEnd
  <2>1. s'.tr = Append(s.tr, m) /\ IsSeq(s.tr)
    BY TranscriptsAre DEF ServerSays
  <2>2. Len(s'.tr) = Len(s.tr) + 1
    BY <2>1, AppendIs
  <2> QED
    BY <2>1, <2>2
<1>7. Turns'
  <2>1. s'.state = "CERTIFICATE_REQUEST" => Len(Heard) < HelloPlace + 2
    <3>1. Len(Heard) <= Len(s.tr) /\ Len(Heard) \in Nat /\ Len(s.tr) \in Nat
      BY <1>2, ServerHasHeardAll, TranscriptsAre
    <3>2. Len(s.tr) < HelloPlace + 2 => Len(Heard) < HelloPlace + 2
      BY <3>1, PlacesAre
    <3> QED
      BY <3>2
  <2> QED
    BY <1>2, <1>6, <2>1, AnsweringTurns
<1>8. ToServer' = ToServer /\ \E r : ToClient' = Append(ToClient, r) /\ ServerRecordHasKey(r)'
  <2>1. PICK r : IsMessage(r, m, key, s.tr) /\ ToClient' = Append(ToClient, r)
    BY DEF ServerSays
  <2>2. r.type = "handshake" /\ r.msg = m /\ r.key = key
    BY <2>1 DEF IsMessage
  <2>3. ServerRecordHasKey(r)'
    BY <2>2 DEF ServerRecordHasKey, IsHs, Carries
  <2> QED
    BY <2>1, <2>3 DEF ServerSays
<1>9. ServerIsReady => ServerIsReady'
  <2>1. ~PastEarlyData'
    BY <1>1 DEF PastEarlyData, TermsStay
  <2> QED
    BY <1>2, <2>1, AnsweringIsReady
<1> QED
  BY <1>2, <1>4, <1>5, <1>6, <1>7, <1>8, <1>9, AnsweringFrame

\* The server writes no message.
LEMMA AnsweringPads ==
    ASSUME TlsInv, EarlyInv, FlowInv, KnownStays,
           s.state \in Answering, s'.state \in ServerKeyed \cup ServerSecond,
           s'.tr = s.tr, s.state \in ServerKeyed \cup ServerSecond, s'.handshake_key = s.handshake_key,
           s.state \in ServerTickets =>
               s'.state \in ServerTickets /\ s'.application_key = s.application_key,
           s'.discard = s.discard, s'.state \in ServerSecond => s.state \in ServerDone /\ s'.state \in ServerDone,
           s.state \in ServerListens => s'.state \in ServerListens,
           s'.state # "CERTIFICATE_REQUEST",
           \/ ToClient' = ToClient
           \/ \E r : ~IsHs(r) /\ ToClient' = Append(ToClient, r) /\ ServerRecordHasKey(r)',
           ToServer' = ToServer,
           ServerPlace', ServerKeys'
    PROVE  FlowInv'
<1>1. c' = c /\ TermsStay /\ conf' = conf /\ failed' = failed
  BY DEF KnownStays, ServerIsAlone
<1>2. Heard' = Heard
  BY <1>1, ServerStepTerms
<1>3. Streams' /\ TranscriptsAgree'
  BY <1>1, <1>2, PaddedStreams DEF PadsClient, PadsServer
<1>4. MessagesAreRight'
  BY <1>1, <1>2, MessagesStayRight
<1>5. Turns'
  BY AnsweringTurns
<1>6. ServerIsReady => ServerIsReady'
  <2>1. PastEarlyData' => PastEarlyData
    BY <1>1 DEF PastEarlyData, TermsStay, ServerSecond, ServerDone, ServerTickets
  <2> QED
    BY <2>1, AnsweringIsReady
<1> QED
  BY <1>3, <1>4, <1>5, <1>6, AnsweringFrame

\* The server reads a message of the client's second flight.
LEMMA AnsweringHears ==
    ASSUME TlsInv, EarlyInv, FlowInv, KnownStays,
           s.state \in ServerSecond \ ServerTickets, s'.state \in ServerSecond, ServerHears,
           s'.handshake_key = s.handshake_key,
           s'.discard = s.discard \/ s'.discard = "NO_DISCARD",
           ~Carries(ToServer[1], "client_hello"),
           s'.state \in ServerListens \/ (s'.tr = c.tr /\ c.state \in ClientSecond),
           ServerPlace', ServerKeys'
    PROVE  FlowInv'
<1> DEFINE m == ToServer[1].msg
<1>1. c' = c /\ TermsStay /\ conf' = conf /\ failed' = failed /\ failed.server = "no"
  BY DEF KnownStays, ServerIsAlone
<1>2. s.state \in Answering
  BY DEF Answering
<1>3. Heard' = Heard
  BY <1>1, ServerStepTerms
<1>4. Streams' /\ TranscriptsAgree' /\ Answered(m) /\ Len(s.tr) + 1 <= Len(Heard) /\ m = Heard[Len(s.tr) + 1]
  BY <1>1, <1>3, ServerHearsStreams
<1>5. MessagesAreRight'
  <2>1. Len(s.tr) + 1 \in 1 .. Len(Heard)
    BY <1>4, TranscriptsAre
  <2>2. MessageIsRight(Len(s.tr) + 1, m)
    BY <1>4, <2>1 DEF FlowInv, MessagesAreRight
  <2> QED
    BY <1>1, <1>3, <1>4, <2>2, MessagesStayRight DEF Answered
<1>6. s'.tr = Append(s.tr, m) /\ Len(s'.tr) > FlightEnd /\ Len(s.tr) < Len(Heard)
  <2>1. s'.tr = Append(s.tr, m) /\ IsSeq(s.tr) /\ Len(s.tr) \in Nat /\ Len(Heard) \in Nat /\ FlightEnd \in Nat
    BY <1>4, TranscriptsAre, PlacesAre DEF Answered
  <2>2. Len(s'.tr) = Len(s.tr) + 1
    BY <2>1, AppendIs
  <2>3. FlightEnd <= Len(s.tr)
    BY ServerSecondPlace
  <2>4. Len(s.tr) + 1 <= Len(Heard)
    BY <1>4
  <2> QED
    BY <2>1, <2>2, <2>3, <2>4
<1>7. Turns'
  <2>1. s'.state # "CERTIFICATE_REQUEST"
    BY DEF ServerSecond, ServerDone, ServerTickets
  <2> QED
    BY <1>2, <1>6, <2>1, AnsweringTurns
<1>8. /\ ToServer # <<>> /\ IsHs(ToServer[1]) /\ ToServer' = Tail(ToServer) /\ ToClient' = ToClient
  BY DEF ServerHears
<1>9. NoneIsEarly
  BY <1>1, <1>8, NoneIsEarlyBehind
<1> HIDE DEF m
<1> QED
  BY <1>2, <1>4, <1>5, <1>6, <1>7, <1>8, <1>9, AnsweringFrame
-----------------------------------------------------------------------------
(* The flight of the server.                                               *)

\* The server waits for a ClientHello, the first or the second.
LEMMA ServerBeginFlow ==
    ASSUME TlsInv, EarlyInv, FlowInv, ServerIsAlone, ServerPads, ServerChanges({"state", "ccs_sent"}),
           s.state \in {"HELLO_REQUEST", "SERVER_CCS_AFTER_HELLO_RETRY_REQUEST"},
           s'.state = "CLIENT_HELLO"
    PROVE  FlowInv'
<1>1. \A f \in ServerFields \ {"state", "ccs_sent"} : s'[f] = s[f]
  BY DEF ServerChanges
<1>2. /\ s'.tr = s.tr /\ s'.hrr = s.hrr /\ s'.total = s.total /\ s'.discard = s.discard
      /\ s'.tin = s.tin /\ s'.tout = s.tout /\ s'.mode = s.mode /\ s'.share = s.share
      /\ s'.selected = s.selected /\ s'.early_accepted = s.early_accepted
      /\ s'.certificate_request_sent = s.certificate_request_sent
  BY <1>1 DEF ServerFields
<1>3. c' = c /\ TermsStay /\ conf' = conf /\ failed' = failed
  BY <1>2 DEF ServerIsAlone, TermsStay
<1>4. /\ Heard' = Heard /\ HashedAlone' = HashedAlone /\ HelloPlace' = HelloPlace
      /\ FlightEnd' = FlightEnd /\ OffersEarlyData' = OffersEarlyData /\ HelloSent' = HelloSent
  BY <1>3, ServerStepTerms
<1>5. s.state \in ServerBegins /\ s'.state \in ServerBegins /\ ~s.early_accepted
      /\ (HelloUnread' <=> HelloUnread)
  <2>1. s.state = "SERVER_CCS_AFTER_HELLO_RETRY_REQUEST" => s.hrr
    BY DEF EarlyInv, AcceptanceIsRight
  <2> QED
    BY <1>2, <2>1 DEF ServerBegins, HelloUnread, EarlyInv, AcceptanceIsRight
<1>6. s.tout = NoKey /\ s.tin = NoKey
  BY <1>5 DEF FlowInv, ServerKeys, ServerBegins, ServerSecond, ServerDone, ServerTickets
<1>7. /\ \/ ToClient' = ToClient
         \/ \E r : ~IsHs(r) /\ ToClient' = Append(ToClient, r) /\ ServerRecordHasKey(r)'
      /\ ToServer' = ToServer
  <2>1. ASSUME NEW r, IsPadding(r, s.tout)
        PROVE  ~IsHs(r) /\ ServerRecordHasKey(r)'
    BY <1>6, <2>1 DEF IsPadding, IsHs, ServerRecordHasKey, Carries
  <2> QED
    BY <2>1 DEF ServerPads
<1>8. Streams' /\ TranscriptsAgree'
  BY <1>2, <1>3, <1>4, <1>7, PaddedStreams DEF PadsClient, PadsServer
<1>9. MessagesAreRight'
  BY <1>2, <1>3, <1>4, MessagesStayRight
<1>10. s.state \notin ServerKeyed \cup ServerSecond /\ s.state \in ServerListens
       /\ s'.state \in ServerListens
  BY DEF ServerKeyed, ServerSecond, ServerDone, ServerTickets, ServerListens
<1>11. c.state \notin ClientKeyed
  BY <1>10 DEF FlowInv, Places, Turns
<1>12. ServerPlace'
  BY <1>2, <1>4 DEF FlowInv, Places, ServerPlace, ServerDone, ServerTickets
<1>13. Turns'
  BY <1>2, <1>3, <1>4, <1>10, <1>11 DEF FlowInv, Places, Turns
<1>14. ServerParameters'
  <2>1. s'.state \notin ServerKeyed \cup ServerSecond
    BY DEF ServerKeyed, ServerSecond, ServerDone, ServerTickets
  <2> QED
    BY <1>2, <1>5, <2>1 DEF FlowInv, ServerParameters
<1>15. ServerKeys'
  BY <1>2, <1>6 DEF ServerKeys
<1>16. DiscardIsRight'
  BY <1>2, <1>4, <1>5 DEF FlowInv, DiscardIsRight
<1>17. RecordsHaveKeys'
  <2>1. ClientKeepsKeys /\ ServerKeepsKeys
    <3>1. s.state \notin ServerTickets
      BY DEF ServerTickets
    <3> QED
      BY <1>2, <1>3, <1>4, <1>10, <3>1 DEF ClientKeepsKeys, ServerKeepsKeys
  <2> QED
    BY <1>7, <2>1, RecordsStillHaveKeys
<1>18. EarlyComesFirst' /\ EarlyIsAwaited'
  <2>1. ServerIsReady => ServerIsReady'
    BY <1>2, <1>5 DEF ServerIsReady, PastEarlyData
  <2> QED
    BY <1>3, <1>5, <1>7, <2>1, EarlyStaysFirst, EarlyStaysAwaited
<1> QED
  BY <1>2, <1>3, <1>8, <1>9, <1>11, <1>12, <1>13, <1>14, <1>15, <1>16, <1>17, <1>18, ServerFrame

\* What the steps of the server's flight keep.
LEMMA FlightStays ==
    ASSUME ServerIsAlone, NEW F \in SUBSET {"state", "tr", "tout", "tin", "handshake_key",
               "application_key", "ccs_sent", "tickets", "count", "discard", "peer_cert", "resumption"},
           ServerChanges(F)
    PROVE  /\ KnownStays
           /\ "handshake_key" \notin F => s'.handshake_key = s.handshake_key
           /\ "application_key" \notin F => s'.application_key = s.application_key
           /\ "tin" \notin F => s'.tin = s.tin
           /\ "tout" \notin F => s'.tout = s.tout
           /\ "tr" \notin F => s'.tr = s.tr
           /\ "discard" \notin F => s'.discard = s.discard
<1>1. \A f \in ServerFields \ F : s'[f] = s[f]
  BY DEF ServerChanges
<1>2. /\ s'.hrr = s.hrr /\ s'.mode = s.mode /\ s'.share = s.share
      /\ s'.selected = s.selected /\ s'.early_accepted = s.early_accepted
      /\ s'.certificate_request_sent = s.certificate_request_sent
      /\ s'.psk = s.psk /\ s'.limit = s.limit /\ s'.early_key = s.early_key /\ s'.total = s.total
  BY <1>1 DEF ServerFields
<1>3. /\ "handshake_key" \notin F => s'.handshake_key = s.handshake_key
      /\ "application_key" \notin F => s'.application_key = s.application_key
      /\ "tin" \notin F => s'.tin = s.tin
      /\ "tout" \notin F => s'.tout = s.tout
      /\ "tr" \notin F => s'.tr = s.tr
      /\ "discard" \notin F => s'.discard = s.discard
  BY <1>1 DEF ServerFields
<1> QED
  BY <1>2, <1>3 DEF KnownStays, TermsStay, ServerIsAlone

\* Where the server is in its flight, in numbers.
LEMMA FlightIs ==
    ASSUME TlsInv, FlowInv, KnownStays
    PROVE  /\ HelloPlace \in {1, 3} /\ Asked \in {0, 1}
           /\ FlightEnd \in Nat /\ CertificateEnd \in Nat
           /\ FlightEnd >= HelloPlace + 3 /\ CertificateEnd >= FlightEnd
           /\ s.mode \in PskModes => FlightEnd = HelloPlace + 3
           /\ s.mode \notin PskModes => FlightEnd = HelloPlace + 5 + Asked
           /\ IsSeq(s.tr) /\ Len(s.tr) \in Nat
           /\ \A m : Len(Append(s.tr, m)) = Len(s.tr) + 1
           /\ HelloPlace' = HelloPlace /\ Asked' = Asked /\ FlightEnd' = FlightEnd
           /\ CertificateEnd' = CertificateEnd
           /\ s.mode \in PskModes => ~s.certificate_request_sent
<1>1. c' = c /\ TermsStay
  BY DEF KnownStays, ServerIsAlone
<1>2. IsSeq(s.tr) /\ Len(s.tr) \in Nat
  BY TranscriptsAre
<1>3. /\ s.mode \in PskModes => FlightEnd = HelloPlace + 3
      /\ s.mode \notin PskModes => FlightEnd = HelloPlace + 5 + Asked
  BY DEF FlightEnd
<1>4. s.mode \in PskModes => ~s.certificate_request_sent
  BY DEF FlowInv, Places, ServerPlace
<1>5. \A m : Len(Append(s.tr, m)) = Len(s.tr) + 1
  BY <1>2, AppendIs
<1> QED
  BY <1>1, <1>2, <1>3, <1>4, <1>5, PlacesAre, ServerStepTerms

\* A message of the server's flight.
LEMMA FlightMessageIsRight ==
    ASSUME FlowInv, NEW i \in Nat, i > HelloPlace, i <= FlightEnd, NEW m,
           i = HelloPlace + 1 => /\ m.t = "server_hello" /\ ~m.hrr /\ m.share = s.share
                                 /\ m.psk = IF s.mode \in PskModes THEN s.selected ELSE 0,
           i = HelloPlace + 2 => m.t = "encrypted_extensions" /\ (m.early <=> s.early_accepted),
           i = HelloPlace + 3 /\ s.mode \notin PskModes /\ s.certificate_request_sent =>
               m.t = "certificate_request",
           i = HelloPlace + 3 + Asked /\ s.mode \notin PskModes => m.t = "certificate" /\ m.cert # "none",
           i = HelloPlace + 4 + Asked /\ s.mode \notin PskModes => m.t = "certificate_verify",
           i = FlightEnd => m.t = "finished",
           i = 2 => HelloPlace = 1
    PROVE  MessageIsRight(i, m)
<1>1. HelloPlace \in {1, 3} /\ FlightEnd \in Nat /\ CertificateEnd \in Nat /\ CertificateEnd >= FlightEnd
  BY PlacesAre
<1>2. i # HelloPlace /\ i # FlightEnd + 1 /\ i # FlightEnd + 2 /\ i # CertificateEnd + 1
  BY <1>1
<1>3. i = 2 => ~s.hrr
  BY DEF HelloPlace
<1> QED
  BY <1>2, <1>3 DEF MessageIsRight

\* The dummy record behind the ServerHello.
LEMMA ServerCcsAfterServerHelloFlow ==
    ASSUME TlsInv, EarlyInv, FlowInv, ServerCcsAfterServerHello
    PROVE  FlowInv'
<1>1. /\ s.state = "SERVER_CCS_AFTER_SERVER_HELLO" /\ s'.state = "ENCRYPTED_EXTENSIONS"
      /\ ServerIsAlone /\ ServerPads
      /\ ServerChanges({"state", "ccs_sent"})
  BY ServerCcsAfterServerHelloDoes
<1>2. /\ KnownStays /\ s'.tr = s.tr /\ s'.handshake_key = s.handshake_key /\ s'.discard = s.discard
      /\ s'.tin = s.tin /\ s'.tout = s.tout
  BY <1>1, FlightStays
<1>3. /\ s.state \in ServerKeyed /\ s'.state \in ServerKeyed
      /\ s.state \notin ServerSecond \cup ServerTickets \cup ServerListens
      /\ s'.state \notin ServerSecond \cup ServerTickets \cup ServerListens
  BY <1>1 DEF ServerKeyed, ServerSecond, ServerDone, ServerTickets, ServerListens
<1>4. s.tin = NoKey /\ s.tout = NoKey
  BY <1>1, <1>3 DEF FlowInv, ServerKeys
<1>5. /\ \/ ToClient' = ToClient
         \/ \E r : ~IsHs(r) /\ ToClient' = Append(ToClient, r) /\ ServerRecordHasKey(r)'
      /\ ToServer' = ToServer
  <2>1. ASSUME NEW r, IsPadding(r, s.tout)
        PROVE  ~IsHs(r) /\ ServerRecordHasKey(r)'
    BY <1>4, <2>1 DEF IsPadding, IsHs, ServerRecordHasKey, Carries
  <2> QED
    BY <1>1, <2>1 DEF ServerPads
<1>6. Len(s.tr) = HelloPlace + 1
  BY <1>1 DEF FlowInv, Places, ServerPlace
<1>7. ServerPlace'
  <2>1. s'.mode = s.mode /\ s'.certificate_request_sent = s.certificate_request_sent
    BY <1>2 DEF KnownStays, TermsStay
  <2> QED
    BY <1>1, <1>2, <1>6, <2>1, FlightIs DEF ServerPlace, ServerDone, ServerTickets
<1>8. ServerKeys'
  BY <1>1, <1>2, <1>4 DEF ServerKeys
<1> QED
  BY <1>1, <1>2, <1>3, <1>5, <1>7, <1>8, AnsweringPads DEF Answering

\* The ServerHello.
LEMMA WriteServerHelloFlow ==
    ASSUME TlsInv, EarlyInv, FlowInv, WriteServerHello
    PROVE  FlowInv'
<1>1. /\ s.state = "SERVER_HELLO" /\ s'.state \in {"SERVER_CCS_AFTER_SERVER_HELLO", "ENCRYPTED_EXTENSIONS"}
      /\ ServerIsAlone /\ ServerSays(ServerHelloMessage, s.tout)
      /\ ServerChanges({"state", "handshake_key", "tr"})
      /\ s'.handshake_key = Key("handshake", s.psk, s.share, Append(s.tr, ServerHelloMessage))
  BY WriteServerHelloDoes
<1>0. PICK m : m = ServerHelloMessage
  OBVIOUS
<1>2. KnownStays /\ s'.discard = s.discard /\ s'.tin = s.tin /\ s'.tout = s.tout
  BY <1>1, FlightStays
<1>3. /\ s'.state \in ServerKeyed /\ s.state \notin ServerSecond
      /\ s'.state \notin ServerSecond \cup {"CERTIFICATE_REQUEST"}
  BY <1>1 DEF ServerKeyed, ServerSecond, ServerDone, ServerTickets
<1>4. s.tin = NoKey /\ s.tout = NoKey
  BY <1>1, <1>3 DEF FlowInv, ServerKeys
<1>5. Len(s.tr) = HelloPlace
  BY <1>1 DEF FlowInv, Places, ServerPlace
<1>6. ServerSays(m, NoKey) /\ s'.tr = Append(s.tr, m) /\ s'.handshake_key.tr = s'.tr
  BY <1>0, <1>1, <1>4 DEF ServerSays, Key
<1>7. Len(s'.tr) = HelloPlace + 1
  BY <1>2, <1>5, <1>6, FlightIs
<1>8. s'.handshake_key.tr = SubSeq(s'.tr, 1, HelloPlace + 1)
  <2>1. IsSeq(s'.tr)
    BY <1>2, <1>6, FlightIs, AppendIs
  <2> QED
    BY <1>6, <1>7, <2>1, WholePrefix
<1>9. /\ m.t = "server_hello" /\ ~m.hrr /\ m.share = s.share
      /\ m.psk = IF s.mode \in PskModes THEN s.selected ELSE 0
  BY <1>0 DEF ServerHelloMessage
<1>10. /\ HelloPlace + 1 \in Nat /\ HelloPlace + 1 > HelloPlace /\ HelloPlace + 1 <= FlightEnd
       /\ HelloPlace + 1 # HelloPlace + 2 /\ HelloPlace + 1 # HelloPlace + 3
       /\ HelloPlace + 1 # HelloPlace + 3 + Asked /\ HelloPlace + 1 # HelloPlace + 4 + Asked
       /\ HelloPlace + 1 # FlightEnd /\ (HelloPlace + 1 = 2 => HelloPlace = 1)
  BY PlacesAre
<1>11. MessageIsRight(Len(s.tr) + 1, m)
  <2>1. MessageIsRight(HelloPlace + 1, m)
    BY <1>9, <1>10, FlightMessageIsRight
  <2> QED
    BY <1>5, <2>1
<1>12. ServerPlace'
  <2>1. s'.mode = s.mode /\ s'.certificate_request_sent = s.certificate_request_sent
    BY <1>2 DEF KnownStays, TermsStay
  <2> QED
    BY <1>1, <1>2, <1>7, <2>1, FlightIs DEF ServerPlace, ServerDone, ServerTickets
<1>13. ServerKeys'
  BY <1>1, <1>2, <1>4 DEF ServerKeys
<1>14. Len(s.tr) + 1 <= FlightEnd
  BY <1>5, <1>10
<1>15. m.t # "new_session_ticket"
  BY <1>9
<1> QED
  BY <1>1, <1>2, <1>3, <1>6, <1>8, <1>9, <1>11, <1>12, <1>13, <1>14, <1>15, AnsweringSays
-----------------------------------------------------------------------------
(* The flight of the server, behind the ServerHello.                       *)

\* A server in its flight has not begun to read with keys.
LEMMA KeyedKeys ==
    ASSUME FlowInv, s.state \in ServerKeyed
    PROVE  s.tin = NoKey /\ s.state \notin ServerSecond
<1>1. s.state \notin ServerSecond
  BY DEF ServerKeyed, ServerSecond, ServerDone, ServerTickets
<1> QED
  BY <1>1 DEF FlowInv, ServerKeys

\* EncryptedExtensions, the first message under the handshake key.
LEMMA WriteEncryptedExtensionsFlow ==
    ASSUME TlsInv, EarlyInv, FlowInv, WriteEncryptedExtensions
    PROVE  FlowInv'
<1>1. /\ s.state = "ENCRYPTED_EXTENSIONS"
      /\ s'.state = IF s.mode \in PskModes THEN "SERVER_FINISHED" ELSE "CERTIFICATE_REQUEST"
      /\ ServerIsAlone
      /\ ServerSays([t |-> "encrypted_extensions", early |-> s.early_accepted], s.handshake_key)
      /\ ServerChanges({"state", "tout", "tr"}) /\ s'.tout = s.handshake_key
  BY WriteEncryptedExtensionsDoes
<1>0. PICK m : m = [t |-> "encrypted_extensions", early |-> s.early_accepted]
  OBVIOUS
<1>2. /\ KnownStays /\ s'.discard = s.discard /\ s'.tin = s.tin /\ s'.handshake_key = s.handshake_key
  BY <1>1, FlightStays
<1>3. /\ s.state \in ServerKeyed /\ s'.state \in ServerKeyed /\ s'.state \notin ServerSecond
  BY <1>1 DEF ServerKeyed, ServerSecond, ServerDone, ServerTickets
<1>4. s.tin = NoKey
  BY <1>3, KeyedKeys
<1>5. Len(s.tr) = HelloPlace + 1
  BY <1>1 DEF FlowInv, Places, ServerPlace
<1>6. ServerSays(m, s'.handshake_key) /\ s'.tr = Append(s.tr, m)
  BY <1>0, <1>1, <1>2 DEF ServerSays
<1>7. Len(s'.tr) = HelloPlace + 2
  BY <1>2, <1>5, <1>6, FlightIs
<1>8. m.t = "encrypted_extensions" /\ (m.early <=> s.early_accepted)
  BY <1>0
<1>9. /\ HelloPlace + 2 \in Nat /\ HelloPlace + 2 > HelloPlace /\ HelloPlace + 2 <= FlightEnd
      /\ HelloPlace + 2 # HelloPlace + 1 /\ HelloPlace + 2 # HelloPlace + 3
      /\ HelloPlace + 2 # HelloPlace + 3 + Asked /\ HelloPlace + 2 # HelloPlace + 4 + Asked
      /\ HelloPlace + 2 # FlightEnd /\ HelloPlace + 2 # 2
      /\ (HelloPlace + 1) + 1 = HelloPlace + 2 /\ HelloPlace + 1 < HelloPlace + 2
  BY PlacesAre
<1>10. MessageIsRight(Len(s.tr) + 1, m)
  <2>1. MessageIsRight(HelloPlace + 2, m)
    BY <1>8, <1>9, FlightMessageIsRight
  <2> QED
    BY <1>5, <1>9, <2>1
<1>11. ServerPlace'
  <2>1. s'.mode = s.mode /\ s'.certificate_request_sent = s.certificate_request_sent
    BY <1>2 DEF KnownStays, TermsStay
  <2> QED
    BY <1>1, <1>2, <1>7, <2>1, FlightIs DEF ServerPlace, ServerDone, ServerTickets
<1>12. ServerKeys'
  BY <1>1, <1>2, <1>3, <1>4 DEF ServerKeys, ServerBegins
<1>13. Len(s.tr) + 1 <= FlightEnd /\ Len(s.tr) < HelloPlace + 2
  BY <1>5, <1>9
<1>14. m.t # "new_session_ticket" /\ m.t # "server_hello"
  BY <1>8
<1> QED
  BY <1>2, <1>3, <1>6, <1>10, <1>11, <1>12, <1>13, <1>14, AnsweringSays

\* The server's certificate.
LEMMA WriteServerCertificateFlow ==
    ASSUME TlsInv, EarlyInv, FlowInv, WriteServerCertificate, conf.s_cert # "none"
    PROVE  FlowInv'
<1>1. /\ s.state = "SERVER_CERTIFICATE" /\ s'.state = "CERTIFICATE_VERIFY"
      /\ ServerIsAlone /\ ServerSays([t |-> "certificate", cert |-> conf.s_cert], s.tout)
      /\ ServerChanges({"state", "tr"})
  BY WriteServerCertificateDoes
<1>0. PICK m : m = [t |-> "certificate", cert |-> conf.s_cert]
  OBVIOUS
<1>2. /\ KnownStays /\ s'.discard = s.discard /\ s'.tin = s.tin /\ s'.tout = s.tout
      /\ s'.handshake_key = s.handshake_key
  BY <1>1, FlightStays
<1>3. /\ s.state \in ServerKeyed /\ s'.state \in ServerKeyed /\ s'.state \notin ServerSecond
  BY <1>1 DEF ServerKeyed, ServerSecond, ServerDone, ServerTickets
<1>4. s.tin = NoKey /\ s.tout = s.handshake_key
  BY <1>1, <1>3, KeyedKeys DEF TlsInv, ServerSide, ServerInFirstFlight
<1>5. Len(s.tr) = HelloPlace + 2 + Asked /\ s.mode \notin PskModes
  BY <1>1 DEF FlowInv, Places, ServerPlace
<1>6. ServerSays(m, s'.handshake_key) /\ s'.tr = Append(s.tr, m)
  BY <1>0, <1>1, <1>2, <1>4 DEF ServerSays
<1>9. /\ HelloPlace + 3 + Asked \in Nat /\ HelloPlace + 3 + Asked > HelloPlace
      /\ HelloPlace + 3 + Asked <= FlightEnd
      /\ HelloPlace + 3 + Asked # HelloPlace + 1 /\ HelloPlace + 3 + Asked # HelloPlace + 2
      /\ HelloPlace + 3 + Asked # HelloPlace + 4 + Asked
      /\ HelloPlace + 3 + Asked # FlightEnd /\ HelloPlace + 3 + Asked # 2
      /\ (HelloPlace + 2 + Asked) + 1 = HelloPlace + 3 + Asked
  BY <1>2, <1>5, FlightIs
<1>7. Len(s'.tr) = HelloPlace + 3 + Asked
  BY <1>2, <1>5, <1>6, <1>9, FlightIs
<1>8. m.t = "certificate" /\ m.cert # "none"
  BY <1>0
<1>10. MessageIsRight(Len(s.tr) + 1, m)
  <2>1. HelloPlace + 3 + Asked = HelloPlace + 3 => ~s.certificate_request_sent
    BY PlacesAre DEF Asked
  <2>2. MessageIsRight(HelloPlace + 3 + Asked, m)
    BY <1>8, <1>9, <2>1, FlightMessageIsRight
  <2> QED
    BY <1>5, <1>9, <2>2
<1>11. ServerPlace'
  <2>1. s'.mode = s.mode /\ s'.certificate_request_sent = s.certificate_request_sent
    BY <1>2 DEF KnownStays, TermsStay
  <2> QED
    BY <1>1, <1>2, <1>5, <1>7, <2>1, FlightIs DEF ServerPlace, ServerDone, ServerTickets
<1>12. ServerKeys'
  BY <1>1, <1>2, <1>3, <1>4 DEF ServerKeys, ServerBegins
<1>13. Len(s.tr) + 1 <= FlightEnd
  BY <1>5, <1>9
<1>14. m.t # "new_session_ticket" /\ m.t # "server_hello" /\ s'.state # "CERTIFICATE_REQUEST"
  BY <1>1, <1>8
<1> QED
  BY <1>2, <1>3, <1>6, <1>10, <1>11, <1>12, <1>13, <1>14, AnsweringSays

\* The server's signature.
LEMMA WriteServerCertificateVerifyFlow ==
    ASSUME TlsInv, EarlyInv, FlowInv, WriteServerCertificateVerify
    PROVE  FlowInv'
<1>1. /\ s.state = "CERTIFICATE_VERIFY" /\ s'.state = "SERVER_FINISHED"
      /\ ServerIsAlone /\ ServerSays([t |-> "certificate_verify"], s.tout)
      /\ ServerChanges({"state", "tr"})
  BY WriteServerCertificateVerifyDoes
<1>0. PICK m : m = [t |-> "certificate_verify"]
  OBVIOUS
<1>2. /\ KnownStays /\ s'.discard = s.discard /\ s'.tin = s.tin /\ s'.tout = s.tout
      /\ s'.handshake_key = s.handshake_key
  BY <1>1, FlightStays
<1>3. /\ s.state \in ServerKeyed /\ s'.state \in ServerKeyed /\ s'.state \notin ServerSecond
  BY <1>1 DEF ServerKeyed, ServerSecond, ServerDone, ServerTickets
<1>4. s.tin = NoKey /\ s.tout = s.handshake_key
  BY <1>1, <1>3, KeyedKeys DEF TlsInv, ServerSide, ServerInFirstFlight
<1>5. Len(s.tr) = HelloPlace + 3 + Asked /\ s.mode \notin PskModes
  BY <1>1 DEF FlowInv, Places, ServerPlace
<1>6. ServerSays(m, s'.handshake_key) /\ s'.tr = Append(s.tr, m)
  BY <1>0, <1>1, <1>2, <1>4 DEF ServerSays
<1>9. /\ HelloPlace + 4 + Asked \in Nat /\ HelloPlace + 4 + Asked > HelloPlace
      /\ HelloPlace + 4 + Asked <= FlightEnd /\ HelloPlace + 4 + Asked = FlightEnd - 1
      /\ HelloPlace + 4 + Asked # HelloPlace + 1 /\ HelloPlace + 4 + Asked # HelloPlace + 2
      /\ HelloPlace + 4 + Asked # HelloPlace + 3 + Asked /\ HelloPlace + 4 + Asked # HelloPlace + 3
      /\ HelloPlace + 4 + Asked # FlightEnd /\ HelloPlace + 4 + Asked # 2
      /\ (HelloPlace + 3 + Asked) + 1 = HelloPlace + 4 + Asked
  BY <1>2, <1>5, FlightIs
<1>7. Len(s'.tr) = FlightEnd - 1
  BY <1>2, <1>5, <1>6, <1>9, FlightIs
<1>8. m.t = "certificate_verify"
  BY <1>0
<1>10. MessageIsRight(Len(s.tr) + 1, m)
  <2>2. MessageIsRight(HelloPlace + 4 + Asked, m)
    BY <1>8, <1>9, FlightMessageIsRight
  <2> QED
    BY <1>5, <1>9, <2>2
<1>11. ServerPlace'
  <2>1. s'.mode = s.mode /\ s'.certificate_request_sent = s.certificate_request_sent
    BY <1>2 DEF KnownStays, TermsStay
  <2> QED
    BY <1>1, <1>2, <1>5, <1>7, <2>1, FlightIs DEF ServerPlace, ServerDone, ServerTickets
<1>12. ServerKeys'
  BY <1>1, <1>2, <1>3, <1>4 DEF ServerKeys, ServerBegins
<1>13. Len(s.tr) + 1 <= FlightEnd
  BY <1>5, <1>9
<1>14. m.t # "new_session_ticket" /\ m.t # "server_hello" /\ s'.state # "CERTIFICATE_REQUEST"
  BY <1>1, <1>8
<1> QED
  BY <1>2, <1>3, <1>6, <1>10, <1>11, <1>12, <1>13, <1>14, AnsweringSays

\* The server's Finished, the last message of its flight.
LEMMA WriteServerFinishedFlow ==
    ASSUME TlsInv, EarlyInv, FlowInv, WriteServerFinished
    PROVE  FlowInv'
<1>1. /\ s.state = "SERVER_FINISHED" /\ ServerIsAlone
      /\ ServerSays([t |-> "finished"], s.tout)
      /\ ServerChanges({"state", "tin", "application_key", "tr"})
      /\ IF s.early_accepted THEN s'.tin = s.early_key /\ s'.state = "END_OF_EARLY_DATA"
         ELSE s'.tin = s.handshake_key /\ s'.state = SecondFlight
  BY WriteServerFinishedDoes
<1>0. PICK m : m = [t |-> "finished"]
  OBVIOUS
<1>2. /\ KnownStays /\ s'.discard = s.discard /\ s'.tout = s.tout
      /\ s'.handshake_key = s.handshake_key
  BY <1>1, FlightStays
<1>15. s'.state = IF s.early_accepted THEN "END_OF_EARLY_DATA"
                  ELSE IF s.certificate_request_sent THEN "CLIENT_CERTIFICATE" ELSE "CLIENT_FINISHED"
  BY <1>1 DEF SecondFlight
<1>3. /\ s.state \in ServerKeyed /\ s'.state \in ServerSecond
      /\ s'.state \in {"END_OF_EARLY_DATA", "CLIENT_CERTIFICATE", "CLIENT_FINISHED"}
  BY <1>1, <1>15 DEF ServerKeyed, ServerSecond
<1>4. s.tout = s.handshake_key
  BY <1>1, <1>3 DEF TlsInv, ServerSide, ServerInFirstFlight
<1>5. Len(s.tr) = FlightEnd - 1
  BY <1>1 DEF FlowInv, Places, ServerPlace
<1>6. ServerSays(m, s'.handshake_key) /\ s'.tr = Append(s.tr, m)
  BY <1>0, <1>1, <1>2, <1>4 DEF ServerSays
<1>9. /\ FlightEnd \in Nat /\ FlightEnd > HelloPlace
      /\ FlightEnd # HelloPlace + 1 /\ FlightEnd # HelloPlace + 2 /\ FlightEnd # 2
      /\ (FlightEnd - 1) + 1 = FlightEnd
      /\ s.mode \notin PskModes => /\ FlightEnd # HelloPlace + 3 /\ FlightEnd # HelloPlace + 3 + Asked
                                   /\ FlightEnd # HelloPlace + 4 + Asked
  BY <1>2, FlightIs
<1>7. Len(s'.tr) = FlightEnd
  BY <1>2, <1>5, <1>6, <1>9, FlightIs
<1>8. m.t = "finished"
  BY <1>0
<1>10. MessageIsRight(Len(s.tr) + 1, m)
  <2>2. MessageIsRight(FlightEnd, m)
    BY <1>8, <1>9, FlightMessageIsRight
  <2> QED
    BY <1>5, <1>9, <2>2
<1>16. s'.state = "CLIENT_FINISHED" => CertificateEnd = FlightEnd
  BY <1>2, <1>15, FlightIs DEF CertificateEnd
<1>11. ServerPlace'
  <2>1. /\ s'.mode = s.mode /\ s'.certificate_request_sent = s.certificate_request_sent
        /\ (s.mode \in PskModes => ~s.certificate_request_sent)
    BY <1>2, FlightIs DEF KnownStays, TermsStay
  <2> QED
    BY <1>2, <1>3, <1>7, <1>15, <1>16, <2>1, FlightIs DEF ServerPlace, ServerDone, ServerTickets
<1>12. ServerKeys'
  <2>1. s'.early_key = s.early_key
    BY <1>2 DEF KnownStays
  <2> QED
    BY <1>1, <1>2, <1>3, <1>15, <2>1 DEF ServerKeys, ServerBegins
<1>13. Len(s.tr) + 1 <= FlightEnd
  BY <1>5, <1>9
<1>14. m.t # "new_session_ticket" /\ m.t # "server_hello" /\ s'.state # "CERTIFICATE_REQUEST"
  BY <1>3, <1>8
<1>17. s.early_accepted => s'.state = "END_OF_EARLY_DATA"
  BY <1>15
<1> QED
  BY <1>2, <1>3, <1>6, <1>10, <1>11, <1>12, <1>13, <1>14, <1>17, AnsweringSays
-----------------------------------------------------------------------------
(* The server reads the second flight of the client, and is done.          *)

\* The server's handshake comes to its end.
LEMMA ServerWrapupFlow ==
    ASSUME TlsInv, EarlyInv, FlowInv, ServerHandshakeWrapup \/ ServerNewSessionTicketFlush
    PROVE  FlowInv'
<1>1. /\ s.state \in ServerDone /\ s'.state \in ServerTickets
      /\ ServerIsAlone /\ QueuesStay
      /\ ServerChanges({"state", "tin", "tout"})
  BY ServerWrapupDoes
<1>2. /\ KnownStays /\ s'.discard = s.discard /\ s'.tr = s.tr
      /\ s'.handshake_key = s.handshake_key /\ s'.application_key = s.application_key
  BY <1>1, FlightStays
<1>3. /\ s.state \in ServerSecond /\ s'.state \in ServerSecond /\ s'.state \in ServerDone
      /\ s.state \in Answering /\ s.state \notin ServerListens
      /\ s'.state # "CERTIFICATE_REQUEST"
  BY <1>1 DEF ServerSecond, ServerDone, ServerTickets, Answering, ServerListens
<1>4. ServerPlace'
  <2>1. Len(s.tr) = CertificateEnd + 1 /\ (s.mode \in PskModes => ~s.certificate_request_sent)
    BY <1>1 DEF FlowInv, Places, ServerPlace
  <2>2. s'.mode = s.mode /\ s'.certificate_request_sent = s.certificate_request_sent
    BY <1>2 DEF KnownStays, TermsStay
  <2> QED
    BY <1>1, <1>2, <2>1, <2>2, FlightIs DEF ServerPlace, ServerTickets
<1>5. ServerKeys'
  BY <1>1 DEF ServerKeys, ServerBegins, ServerTickets, ServerSecond, ServerDone
<1>6. ToClient' = ToClient /\ ToServer' = ToServer
  BY <1>1 DEF QueuesStay
<1> QED
  BY <1>1, <1>2, <1>3, <1>4, <1>5, <1>6, AnsweringPads

\* A ticket.
LEMMA WriteNewSessionTicketFlow ==
    ASSUME TlsInv, EarlyInv, FlowInv, WriteNewSessionTicket
    PROVE  FlowInv'
<1>1. /\ s.state \in ServerTickets /\ s'.state \in ServerTickets /\ ServerIsAlone
      /\ ServerChanges({"state", "tickets", "count"})
      /\ ToServer' = ToServer
      /\ \/ ToClient' = ToClient
         \/ \E r : /\ Carries(r, "new_session_ticket") /\ r.key = s.tout
                   /\ ToClient' = Append(ToClient, r)
  BY WriteNewSessionTicketDoes
<1>2. /\ KnownStays /\ s'.discard = s.discard /\ s'.tr = s.tr /\ s'.tin = s.tin /\ s'.tout = s.tout
      /\ s'.handshake_key = s.handshake_key /\ s'.application_key = s.application_key
  BY <1>1, FlightStays
<1>3. /\ s.state \in ServerSecond /\ s'.state \in ServerSecond /\ s'.state \in ServerDone
      /\ s.state \in ServerDone /\ s.state \in Answering /\ s.state \notin ServerListens
      /\ s'.state # "CERTIFICATE_REQUEST"
  BY <1>1 DEF ServerSecond, ServerDone, ServerTickets, Answering, ServerListens
<1>4. ServerPlace'
  <2>1. Len(s.tr) = CertificateEnd + 1 /\ (s.mode \in PskModes => ~s.certificate_request_sent)
    BY <1>3 DEF FlowInv, Places, ServerPlace
  <2>2. s'.mode = s.mode /\ s'.certificate_request_sent = s.certificate_request_sent
    BY <1>2 DEF KnownStays, TermsStay
  <2> QED
    BY <1>1, <1>2, <2>1, <2>2, FlightIs DEF ServerPlace, ServerTickets
<1>5. ServerKeys'
  BY <1>1 DEF ServerKeys, ServerBegins, ServerTickets, ServerSecond, ServerDone
<1>6. s.tout = s.application_key
  BY <1>1 DEF TlsInv, ServerSide
<1>7. \/ ToClient' = ToClient
      \/ \E r : ~IsHs(r) /\ ToClient' = Append(ToClient, r) /\ ServerRecordHasKey(r)'
  <2>1. ASSUME NEW r, Carries(r, "new_session_ticket"), r.key = s.tout
        PROVE  ~IsHs(r) /\ ServerRecordHasKey(r)'
    BY <1>1, <1>2, <1>6, <2>1 DEF Carries, IsHs, ServerRecordHasKey
  <2> QED
    BY <1>1, <2>1
<1> QED
  BY <1>1, <1>2, <1>3, <1>4, <1>5, <1>7, AnsweringPads

\* The message the server reads is no ClientHello.
LEMMA SecondFlightMessage ==
    ASSUME TlsInv, EarlyInv, FlowInv, ServerIsAlone, ServerHears,
           s.state \in ServerSecond \ ServerDone
    PROVE  /\ ~Carries(ToServer[1], "client_hello")
           /\ s'.tr = Append(s.tr, ToServer[1].msg) /\ FlightEnd <= Len(s.tr)
<1>1. ToServer # <<>> /\ IsHs(ToServer[1]) /\ s'.tr = Append(s.tr, ToServer[1].msg)
  BY DEF ServerHears
<1>2. s.state \in DOMAIN ServerWaits
  BY DEF ServerWaits, ServerSecond, ServerDone
<1>3. ServerReads1
  BY <1>1, <1>2 DEF ServerReads1, ServerIsAlone
<1>4. ToServer[1].msg.t \in ServerWaits[s.state]
  BY <1>1, <1>3, ServerMeetsItsKey
<1>5. "client_hello" \notin ServerWaits[s.state]
  BY DEF ServerWaits, ServerSecond, ServerDone
<1> QED
  BY <1>1, <1>4, <1>5, ServerSecondPlace DEF Carries

\* The end of the early data that was accepted.
LEMMA ProcessEndOfEarlyDataFlow ==
    ASSUME TlsInv, EarlyInv, FlowInv, ProcessEndOfEarlyData
    PROVE  FlowInv'
<1>1. /\ s.state = "END_OF_EARLY_DATA" /\ s'.state = SecondFlight
      /\ ServerIsAlone /\ ServerHears
      /\ ServerChanges({"state", "tr", "tin"}) /\ s'.tin = s.handshake_key
  BY ProcessEndOfEarlyDataDoes
<1>2. /\ KnownStays /\ s'.discard = s.discard /\ s'.handshake_key = s.handshake_key /\ s'.tout = s.tout
  BY <1>1, FlightStays
<1>3. s.state \in ServerSecond \ ServerDone /\ s.state \in ServerSecond \ ServerTickets
  BY <1>1 DEF ServerSecond, ServerDone, ServerTickets
<1>4. /\ s.early_accepted /\ ~s.certificate_request_sent /\ CertificateEnd = FlightEnd + 1
  BY <1>1, <1>3, SecondFlightIs DEF EarlyInv, AcceptanceIsRight
<1>5. /\ s'.state = "CLIENT_FINISHED" /\ s'.state \in ServerSecond /\ s'.state \in ServerListens
  BY <1>1, <1>4 DEF SecondFlight, ServerSecond, ServerListens
<1>6. /\ ~Carries(ToServer[1], "client_hello")
      /\ s'.tr = Append(s.tr, ToServer[1].msg)
  BY <1>1, <1>3, SecondFlightMessage
<1>7. Len(s'.tr) = FlightEnd + 1
  <2>1. Len(s.tr) = FlightEnd
    BY <1>1 DEF FlowInv, Places, ServerPlace
  <2> QED
    BY <1>2, <1>6, <2>1, FlightIs
<1>8. ServerPlace'
  <2>1. s'.mode = s.mode /\ s'.certificate_request_sent = s.certificate_request_sent
    BY <1>2 DEF KnownStays, TermsStay
  <2> QED
    BY <1>2, <1>4, <1>5, <1>7, <2>1, FlightIs DEF ServerPlace, ServerDone, ServerTickets
<1>9. ServerKeys'
  BY <1>1, <1>2, <1>5 DEF ServerKeys, ServerBegins
<1> QED
  BY <1>1, <1>2, <1>3, <1>5, <1>6, <1>8, <1>9, AnsweringHears

\* A server in the middle of the client's second flight reads with its key.
LEMMA SecondFlightKey ==
    ASSUME FlowInv, s.state \in {"CLIENT_CERTIFICATE", "CLIENT_CERTIFICATE_VERIFY", "CLIENT_FINISHED"}
    PROVE  s.tin = s.handshake_key /\ s.state \in ServerSecond \ ServerDone
                                   /\ s.state \in ServerSecond \ ServerTickets
BY DEF FlowInv, ServerKeys, ServerSecond, ServerDone, ServerTickets

\* The client's certificate.
LEMMA ProcessClientCertificateFlow ==
    ASSUME TlsInv, EarlyInv, FlowInv,
           s.state = "CLIENT_CERTIFICATE", ServerIsAlone, ServerHears,
           s'.state = IF conf.c_cert = "none" THEN "CLIENT_FINISHED" ELSE "CLIENT_CERTIFICATE_VERIFY",
           ServerChanges({"state", "tr", "peer_cert", "discard"}), s'.discard = "NO_DISCARD"
    PROVE  FlowInv'
<1>2. /\ KnownStays /\ s'.handshake_key = s.handshake_key /\ s'.tin = s.tin
  BY FlightStays
<1>3. /\ s.tin = s.handshake_key /\ s.state \in ServerSecond \ ServerDone
      /\ s.state \in ServerSecond \ ServerTickets
  BY SecondFlightKey
<1>4. /\ s.certificate_request_sent /\ Len(s.tr) = FlightEnd /\ s.mode \notin PskModes
      /\ CertificateEnd = FlightEnd + IF conf.c_cert = "none" THEN 1 ELSE 2
  BY <1>3, SecondFlightIs DEF FlowInv, Places, ServerPlace
<1>5. s'.state \in {"CLIENT_FINISHED", "CLIENT_CERTIFICATE_VERIFY"}
      /\ s'.state \in ServerSecond /\ s'.state \in ServerListens
  BY DEF ServerSecond, ServerListens
<1>6. /\ ~Carries(ToServer[1], "client_hello")
      /\ s'.tr = Append(s.tr, ToServer[1].msg)
  BY <1>3, SecondFlightMessage
<1>7. Len(s'.tr) = FlightEnd + 1
  BY <1>2, <1>4, <1>6, FlightIs
<1>10. /\ s'.state = "CLIENT_FINISHED" => CertificateEnd = FlightEnd + 1
       /\ s'.state = "CLIENT_CERTIFICATE_VERIFY" => conf.c_cert # "none"
  BY <1>4
<1>8. ServerPlace'
  <2>1. s'.mode = s.mode /\ s'.certificate_request_sent = s.certificate_request_sent /\ conf' = conf
    BY <1>2 DEF KnownStays, TermsStay
  <2> QED
    BY <1>2, <1>4, <1>5, <1>7, <1>10, <2>1, FlightIs DEF ServerPlace, ServerDone, ServerTickets
<1>9. ServerKeys'
  BY <1>2, <1>3, <1>5 DEF ServerKeys, ServerBegins
<1> QED
  BY <1>2, <1>3, <1>5, <1>6, <1>8, <1>9, AnsweringHears

\* The client's signature.
LEMMA ProcessClientCertificateVerifyFlow ==
    ASSUME TlsInv, EarlyInv, FlowInv, ProcessClientCertificateVerify
    PROVE  FlowInv'
<1>1. /\ s.state = "CLIENT_CERTIFICATE_VERIFY" /\ s'.state = "CLIENT_FINISHED"
      /\ ServerIsAlone /\ ServerHears
      /\ ServerChanges({"state", "tr"})
  BY ProcessClientCertificateVerifyDoes
<1>2. /\ KnownStays /\ s'.handshake_key = s.handshake_key /\ s'.tin = s.tin /\ s'.discard = s.discard
  BY <1>1, FlightStays
<1>3. /\ s.tin = s.handshake_key /\ s.state \in ServerSecond \ ServerDone
      /\ s.state \in ServerSecond \ ServerTickets
  BY <1>1, SecondFlightKey
<1>4. /\ s.certificate_request_sent /\ Len(s.tr) = FlightEnd + 1 /\ s.mode \notin PskModes
      /\ CertificateEnd = FlightEnd + 2
  BY <1>1, <1>3, SecondFlightIs DEF FlowInv, Places, ServerPlace
<1>5. s'.state \in ServerSecond /\ s'.state \in ServerListens
  BY <1>1 DEF ServerSecond, ServerListens
<1>6. /\ ~Carries(ToServer[1], "client_hello")
      /\ s'.tr = Append(s.tr, ToServer[1].msg)
  BY <1>1, <1>3, SecondFlightMessage
<1>7. Len(s'.tr) = FlightEnd + 2
  BY <1>2, <1>4, <1>6, FlightIs
<1>8. ServerPlace'
  <2>1. s'.mode = s.mode /\ s'.certificate_request_sent = s.certificate_request_sent /\ conf' = conf
    BY <1>2 DEF KnownStays, TermsStay
  <2> QED
    BY <1>1, <1>2, <1>4, <1>7, <2>1, FlightIs DEF ServerPlace, ServerDone, ServerTickets
<1>9. ServerKeys'
  BY <1>1, <1>2, <1>3, <1>5 DEF ServerKeys, ServerBegins
<1> QED
  BY <1>1, <1>2, <1>3, <1>5, <1>6, <1>8, <1>9, AnsweringHears

\* The client's Finished.
LEMMA ProcessClientFinishedFlow ==
    ASSUME TlsInv, TlsInv', EarlyInv, FlowInv, ProcessClientFinished
    PROVE  FlowInv'
<1>1. /\ s.state = "CLIENT_FINISHED" /\ s'.state = "HANDSHAKE_WRAPUP"
      /\ ServerIsAlone /\ ServerHears
      /\ ServerChanges({"state", "tr", "discard", "resumption"})
      /\ s'.discard = "NO_DISCARD"
  BY ProcessClientFinishedDoes
<1>2. /\ KnownStays /\ s'.handshake_key = s.handshake_key /\ s'.tin = s.tin
  BY <1>1, FlightStays
<1>3. /\ s.tin = s.handshake_key /\ s.state \in ServerSecond \ ServerDone
      /\ s.state \in ServerSecond \ ServerTickets
  BY <1>1, SecondFlightKey
<1>4. Len(s.tr) = CertificateEnd /\ (s.mode \in PskModes => ~s.certificate_request_sent)
  BY <1>1 DEF FlowInv, Places, ServerPlace
<1>5. s'.state \in ServerSecond /\ s'.state \in ServerDone
  BY <1>1 DEF ServerSecond, ServerDone
<1>6. /\ ~Carries(ToServer[1], "client_hello")
      /\ s'.tr = Append(s.tr, ToServer[1].msg)
  BY <1>1, <1>3, SecondFlightMessage
<1>7. Len(s'.tr) = CertificateEnd + 1
  BY <1>2, <1>4, <1>6, FlightIs
<1>8. ServerPlace'
  <2>1. s'.mode = s.mode /\ s'.certificate_request_sent = s.certificate_request_sent /\ conf' = conf
    BY <1>2 DEF KnownStays, TermsStay
  <2> QED
    BY <1>1, <1>2, <1>4, <1>7, <2>1, FlightIs DEF ServerPlace, ServerDone, ServerTickets
<1>9. ServerKeys'
  BY <1>1, <1>5 DEF ServerKeys, ServerBegins
<1>10. s'.tr = c.tr /\ c.state \in ClientSecond
  <2>1. c' = c
    BY <1>1 DEF ServerIsAlone
  <2>2. c'.state \in ClientDone /\ s'.tr = c'.tr
    BY <1>5 DEF TlsInv, Joint, PeersAgree
  <2> QED
    BY <2>1, <2>2 DEF ClientSecond
<1> QED
  BY <1>1, <1>2, <1>3, <1>5, <1>6, <1>8, <1>9, <1>10, AnsweringHears
-----------------------------------------------------------------------------
(* Steps that say nothing: records that are skipped, read as data or       *)
(* dropped, and failures.                                                  *)

\* A server that only counts keeps what it has.
LEMMA CountingStays ==
    ASSUME TlsInv, FlowInv, c' = c, conf' = conf, ServerChanges({"total"}),
           HelloUnread => s'.total = s.total
    PROVE  /\ TermsStay /\ s'.state = s.state /\ s'.tr = s.tr /\ s'.hrr = s.hrr /\ s'.discard = s.discard
           /\ s'.handshake_key = s.handshake_key /\ s'.application_key = s.application_key
           /\ ServerPlace' /\ ServerParameters' /\ ServerKeys' /\ DiscardIsRight'
           /\ (HelloUnread' <=> HelloUnread) /\ (ServerIsReady' <=> ServerIsReady)
<1>1. \A f \in ServerFields \ {"total"} : s'[f] = s[f]
  BY DEF ServerChanges
<1>2. /\ s'.state = s.state /\ s'.tr = s.tr /\ s'.hrr = s.hrr /\ s'.discard = s.discard
      /\ s'.tin = s.tin /\ s'.tout = s.tout /\ s'.mode = s.mode /\ s'.share = s.share
      /\ s'.selected = s.selected /\ s'.early_accepted = s.early_accepted
      /\ s'.certificate_request_sent = s.certificate_request_sent
  BY <1>1 DEF ServerFields
<1>3. /\ s'.psk = s.psk /\ s'.limit = s.limit /\ s'.early_key = s.early_key /\ s'.groups = s.groups
      /\ s'.handshake_key = s.handshake_key /\ s'.application_key = s.application_key
  BY <1>1 DEF ServerFields
<1>4. TermsStay
  BY <1>2 DEF TermsStay
<1>5. /\ HelloPlace' = HelloPlace /\ Asked' = Asked /\ FlightEnd' = FlightEnd
      /\ CertificateEnd' = CertificateEnd
      /\ OffersEarlyData' = OffersEarlyData /\ ClientPsks' = ClientPsks
  BY <1>4, ServerStepTerms
<1>6. HelloUnread' <=> HelloUnread
  BY <1>2 DEF HelloUnread
<1>7. ServerPlace'
  BY <1>2, <1>5 DEF FlowInv, Places, ServerPlace
<1>8. ServerParameters'
  <2>1. ServerParameters
    BY DEF FlowInv
  <2> QED
    BY <1>2, <1>3, <1>5, <1>6, <2>1 DEF ServerParameters
<1>9. ServerKeys'
  BY <1>2, <1>3 DEF FlowInv, ServerKeys
<1>10. DiscardIsRight'
  BY <1>2, <1>5, <1>6 DEF FlowInv, DiscardIsRight
<1>11. ServerIsReady' <=> ServerIsReady
  BY <1>2, <1>6 DEF ServerIsReady, PastEarlyData
<1> QED
  BY <1>2, <1>3, <1>4, <1>6, <1>7, <1>8, <1>9, <1>10, <1>11

\* A step that says nothing.
LEMMA QuietFlow ==
    ASSUME TlsInv, EarlyInv, FlowInv, c' = c, conf' = conf, ServerChanges({"total"}),
           HelloUnread => s'.total = s.total,
           failed'.client = "no" => failed.client = "no" /\ PadsClient,
           failed'.server = "no" => failed.server = "no" /\ PadsServer,
           \/ ToClient' = ToClient
           \/ ToClient # <<>> /\ ToClient' = Tail(ToClient),
           \/ ToServer' = ToServer
           \/ /\ ToServer # <<>> /\ ToServer' = Tail(ToServer)
              /\ failed'.server = "no" => ~HelloUnread,
           FailuresAreKnown', BadMacIsExpected', EarlyIsCounted'
    PROVE  FlowInv'
<1>1. /\ TermsStay /\ s'.state = s.state /\ s'.tr = s.tr /\ s'.hrr = s.hrr /\ s'.discard = s.discard
      /\ s'.handshake_key = s.handshake_key /\ s'.application_key = s.application_key
      /\ ServerPlace' /\ ServerParameters' /\ ServerKeys' /\ DiscardIsRight'
      /\ (HelloUnread' <=> HelloUnread) /\ (ServerIsReady' <=> ServerIsReady)
  BY CountingStays
<1>2. /\ Heard' = Heard /\ HashedAlone' = HashedAlone /\ FlightEnd' = FlightEnd /\ HelloSent' = HelloSent
  BY <1>1, ServerStepTerms
<1>3. ClientPlace' /\ ClientParameters' /\ ClientKeys'
  BY <1>1, ClientPartsStay
<1>4. Streams' /\ TranscriptsAgree'
  BY <1>1, <1>2, PaddedStreams
<1>5. MessagesAreRight'
  BY <1>1, <1>2, MessagesStayRight
<1>6. Turns'
  BY <1>1, <1>2 DEF FlowInv, Places, Turns
<1>7. ValuesAreKnown'
  BY <1>1 DEF FlowInv, ValuesAreKnown, TermsStay
<1>8. RecordsHaveKeys'
  <2>1. ClientKeepsKeys /\ ServerKeepsKeys
    BY <1>1, <1>2 DEF ClientKeepsKeys, ServerKeepsKeys, TermsStay
  <2> QED
    BY <2>1, RecordsStillHaveKeys
<1>9. EarlyComesFirst' /\ EarlyIsAwaited'
  <2>1. CASE failed'.server = "no"
    BY <1>1, <2>1, EarlyStaysFirst, EarlyStaysAwaited
  <2>2. CASE failed'.server # "no"
    BY <2>2 DEF EarlyComesFirst, EarlyIsAwaited
  <2> QED
    BY <2>1, <2>2
<1> QED
  BY <1>1, <1>3, <1>4, <1>5, <1>6, <1>7, <1>8, <1>9 DEF FlowInv, Places

\* Nothing happens.
LEMMA FlowStutters ==
    ASSUME TlsInv, EarlyInv, FlowInv, c' = c, s' = s, conf' = conf, app' = app, failed' = failed,
           QueuesStay
    PROVE  FlowInv'
<1>1. ServerChanges({"total"})
  BY DEF ServerChanges, TlsInv, ServerSide
<1>2. PadsClient /\ PadsServer /\ ToClient' = ToClient /\ ToServer' = ToServer
  BY DEF QueuesStay, PadsClient, PadsServer
<1>3. TermsStay
  BY DEF TermsStay
<1>4. FailuresAreKnown' /\ BadMacIsExpected'
  BY <1>3, FailuresStay
<1>5. EarlyIsCounted'
  BY DEF FlowInv, EarlyIsCounted
<1> QED
  BY <1>1, <1>2, <1>4, <1>5, QuietFlow

\* An endpoint that drops a dummy record.
LEMMA DropCcsFlow ==
    ASSUME TlsInv, EarlyInv, FlowInv, NEW e \in Endpoints, DropCcs(e)
    PROVE  FlowInv'
<1>1. /\ failed[e] = "no" /\ UNCHANGED <<conf, c, s, app, failed>>
      /\ e = "client" => /\ ToClient # <<>> /\ ~IsHs(ToClient[1]) /\ ToClient[1].key = NoKey
                         /\ ToClient' = Tail(ToClient) /\ ToServer' = ToServer
      /\ e = "server" => /\ ToServer # <<>> /\ ~IsHs(ToServer[1]) /\ ToServer[1].key = NoKey
                         /\ ToServer' = Tail(ToServer) /\ ToClient' = ToClient
  BY DropCcsDoes
<1>2. ServerChanges({"total"})
  BY <1>1 DEF ServerChanges, TlsInv, ServerSide
<1>3. TermsStay
  BY <1>1 DEF TermsStay
<1>4. FailuresAreKnown' /\ BadMacIsExpected'
  BY <1>1, <1>3, FailuresStay
<1>5. EarlyIsCounted'
  BY <1>1 DEF FlowInv, EarlyIsCounted
<1>6. CASE e = "client"
  <2>1. PadsClient /\ PadsServer
    BY <1>1, <1>6 DEF PadsClient, PadsServer
  <2> QED
    BY <1>1, <1>2, <1>4, <1>5, <1>6, <2>1, QuietFlow
<1>7. CASE e = "server"
  <2>1. PadsClient /\ PadsServer
    BY <1>1, <1>7 DEF PadsClient, PadsServer
  <2>2. ~HelloUnread
    BY <1>1, <1>7 DEF FlowInv, EarlyComesFirst
  <2> QED
    BY <1>1, <1>2, <1>4, <1>5, <1>7, <2>1, <2>2, QuietFlow
<1> QED
  BY <1>6, <1>7 DEF Endpoints

\* An endpoint that fails as expected.
FailsAsExpected(e) ==
    /\ UNCHANGED <<conf, c, s, app>>
    /\ \E why : failed' = [failed EXCEPT ![e] = why] /\ why # "no" /\ Expected(e, why)
    /\ IF e = "client"
       THEN /\ ToServer' = ToServer
            /\ ToClient' = ToClient \/ (ToClient # <<>> /\ ToClient' = Tail(ToClient))
       ELSE /\ ToClient' = ToClient
            /\ ToServer' = ToServer \/ (ToServer # <<>> /\ ToServer' = Tail(ToServer))

\* An endpoint that fails as expected leaves the invariant of the other.
LEMMA FailureFlow ==
    ASSUME TlsInv, EarlyInv, FlowInv, NEW e \in Endpoints, FailsAsExpected(e)
    PROVE  FlowInv'
<1>1. PICK why : failed' = [failed EXCEPT ![e] = why] /\ why # "no" /\ Expected(e, why)
  BY DEF FailsAsExpected
<1>2. UNCHANGED <<conf, c, s, app>>
  BY DEF FailsAsExpected
<1>3. DOMAIN failed = Endpoints
  BY DEF TlsInv, QueuesAreSeqs
<1>4. ServerChanges({"total"})
  BY <1>2 DEF ServerChanges, TlsInv, ServerSide
<1>5. EarlyIsCounted'
  BY <1>2 DEF FlowInv, EarlyIsCounted
<1>6. /\ Satisfies(conf.s_cert, conf.c_authmode)' = Satisfies(conf.s_cert, conf.c_authmode)
      /\ Satisfies(conf.c_cert, conf.s_authmode)' = Satisfies(conf.c_cert, conf.s_authmode)
      /\ SecondPskAfterEarlyData' = SecondPskAfterEarlyData /\ SharedPsks' = SharedPsks
  BY <1>2 DEF Satisfies, SecondPskAfterEarlyData, OffersEarlyData, SharedPsks, ServerKnows,
              ClientPsks, TicketModes
<1>7. CASE e = "client"
  <2>1. failed'.client = why /\ failed'.server = failed.server
    BY <1>1, <1>3, <1>7 DEF Endpoints
  <2>2. ExpectedOfClient(why)
    BY <1>1, <1>7 DEF Expected
  <2>3. FailuresAreKnown' /\ BadMacIsExpected'
    BY <1>2, <1>6, <2>1, <2>2 DEF FlowInv, FailuresAreKnown, BadMacIsExpected, ExpectedOfClient
  <2>4. ToServer' = ToServer /\ (ToClient' = ToClient \/ (ToClient # <<>> /\ ToClient' = Tail(ToClient)))
    BY <1>7 DEF FailsAsExpected
  <2> QED
    BY <1>1, <1>2, <1>4, <1>5, <2>1, <2>3, <2>4, QuietFlow DEF PadsServer
<1>8. CASE e = "server"
  <2>1. failed'.server = why /\ failed'.client = failed.client
    BY <1>1, <1>3, <1>8 DEF Endpoints
  <2>2. ExpectedOfServer(why)
    BY <1>1, <1>8 DEF Expected
  <2>3. FailuresAreKnown' /\ BadMacIsExpected'
    BY <1>2, <1>6, <2>1, <2>2 DEF FlowInv, FailuresAreKnown, BadMacIsExpected, ExpectedOfServer
  <2>4. ToClient' = ToClient /\ (ToServer' = ToServer \/ (ToServer # <<>> /\ ToServer' = Tail(ToServer)))
    BY <1>8 DEF FailsAsExpected
  <2> QED
    BY <1>1, <1>2, <1>4, <1>5, <2>1, <2>3, <2>4, QuietFlow DEF PadsClient
<1> QED
  BY <1>7, <1>8 DEF Endpoints

\* An endpoint that refuses a record, or gives up, for a reason that is
\* expected.
LEMMA RefusalFlow ==
    ASSUME TlsInv, EarlyInv, FlowInv, NEW e \in Endpoints, NEW why, why # "no", Expected(e, why),
           \/ net[e] # <<>> /\ Refuses(e, why)
           \/ GivesUp(e, why) /\ net' = net
    PROVE  FlowInv'
<1>1. QueuesAreSeqs
  BY DEF TlsInv
<1>2. /\ UNCHANGED <<conf, c, s, app>> /\ out' = out
      /\ failed' = [failed EXCEPT ![e] = why]
  BY DEF Refuses, GivesUp
<1>3. CASE net[e] # <<>> /\ Refuses(e, why)
  <2>1. Consume(e)
    BY <1>3 DEF Refuses
  <2>2. CASE e = "client"
    <3>1. ToClient # <<>> /\ ToClient' = Tail(ToClient) /\ ToServer' = ToServer
      BY <1>1, <1>2, <1>3, <2>1, <2>2, ClientConsumes
    <3>2. FailsAsExpected(e)
      BY <1>2, <2>2, <3>1 DEF FailsAsExpected
    <3> QED
      BY <3>2, FailureFlow
  <2>3. CASE e = "server"
    <3>1. ToServer # <<>> /\ ToServer' = Tail(ToServer) /\ ToClient' = ToClient
      BY <1>1, <1>2, <1>3, <2>1, <2>3, ServerConsumes
    <3>2. FailsAsExpected(e)
      BY <1>2, <2>3, <3>1 DEF FailsAsExpected
    <3> QED
      BY <3>2, FailureFlow
  <2> QED
    BY <2>2, <2>3 DEF Endpoints
<1>4. CASE GivesUp(e, why) /\ net' = net
  <2>1. ToServer' = ToServer /\ ToClient' = ToClient
    BY <1>1, <1>2, <1>4, NothingMoves
  <2>2. FailsAsExpected(e)
    BY <1>2, <2>1 DEF FailsAsExpected
  <2> QED
    BY <2>2, FailureFlow
<1> QED
  BY <1>3, <1>4

\* Early data the server skips.
LEMMA SkipEarlyDataFlow ==
    ASSUME TlsInv, EarlyInv, FlowInv, SkipEarlyData
    PROVE  FlowInv'
<1>1. /\ failed.server = "no" /\ net.server # <<>> /\ ToServer # <<>>
      /\ ~IsHs(ToServer[1]) /\ IsEarlyRecord(ToServer[1]) /\ ~s.early_accepted
      /\ \/ /\ ServerIsAlone /\ ServerChanges({"total"}) /\ ~HelloUnread
            /\ ToServer' = Tail(ToServer) /\ ToClient' = ToClient
         \/ Refuses("server", "early data limit")
  BY SkipEarlyDataDoes
<1>2. CASE Refuses("server", "early data limit")
  <2>1. Expected("server", "early data limit")
    BY <1>1 DEF Expected, ExpectedOfServer
  <2> QED
    BY <1>1, <1>2, <2>1, RefusalFlow DEF Endpoints
<1>3. CASE /\ ServerIsAlone /\ ServerChanges({"total"}) /\ ~HelloUnread
           /\ ToServer' = Tail(ToServer) /\ ToClient' = ToClient
  <2>1. c' = c /\ conf' = conf /\ app' = app /\ failed' = failed
    BY <1>3 DEF ServerIsAlone
  <2>2. TermsStay
    BY <1>3, <2>1, CountingStays
  <2>3. FailuresAreKnown' /\ BadMacIsExpected'
    BY <2>1, <2>2, FailuresStay
  <2>4. EarlyIsCounted'
    BY <1>1, <2>1, <2>2 DEF FlowInv, EarlyIsCounted, TermsStay
  <2>5. PadsClient /\ PadsServer
    BY <1>1, <1>3 DEF PadsClient, PadsServer
  <2> QED
    BY <1>1, <1>3, <2>1, <2>3, <2>4, <2>5, QuietFlow
<1> QED
  BY <1>1, <1>2, <1>3

\* Early data the server's application reads.
LEMMA ReadEarlyDataFlow ==
    ASSUME TlsInv, EarlyInv, FlowInv, ReadEarlyData
    PROVE  FlowInv'
<1> DEFINE r == ToServer[1]
<1>1. /\ failed.server = "no" /\ net.server # <<>> /\ ToServer # <<>>
      /\ ~IsHs(r) /\ IsItem(r) /\ s.early_accepted /\ s.state = "END_OF_EARLY_DATA"
      /\ \/ /\ UNCHANGED <<conf, c, failed>> /\ ServerChanges({"total"})
            /\ s'.total = s.total + 1
            /\ app' = [app EXCEPT !.received = Append(@, r.item)]
            /\ ToServer' = Tail(ToServer) /\ ToClient' = ToClient
         \/ Refuses("server", "early data limit") /\ app.retried # {}
  BY ReadEarlyDataDoes
<1>2. CASE Refuses("server", "early data limit") /\ app.retried # {}
  <2>1. Expected("server", "early data limit")
    BY <1>2 DEF Expected, ExpectedOfServer
  <2> QED
    BY <1>1, <1>2, <2>1, RefusalFlow DEF Endpoints
<1>3. CASE /\ UNCHANGED <<conf, c, failed>> /\ ServerChanges({"total"})
           /\ s'.total = s.total + 1
           /\ app' = [app EXCEPT !.received = Append(@, r.item)]
           /\ ToServer' = Tail(ToServer) /\ ToClient' = ToClient
  <2>1. ~HelloUnread
    BY <1>1 DEF HelloUnread
  <2>2. TermsStay
    BY <1>3, <2>1, CountingStays
  <2>3. app'.received = Append(app.received, r.item) /\ app'.retried = app.retried /\ app'.next = app.next
    BY <1>3 DEF EarlyInv, ItemsAreWritten
  <2>4. FailuresAreKnown' /\ BadMacIsExpected'
    BY <1>3, <2>2, <2>3, FailuresStay
  <2>5. EarlyIsCounted'
    <3>1. IsSeq(app.received) /\ Len(app.received) \in Nat
      BY DEF EarlyInv, ItemsAreNumbers, IsSeq
    <3>2. Len(app'.received) = Len(app.received) + 1
      BY <2>3, <3>1, AppendIs
    <3>3. ASSUME app'.retried = {}, NEW i \in 1 .. Len(app'.received)
          PROVE  i <= app'.received[i]
      <4>1. \/ i \in 1 .. Len(app.received) /\ app'.received[i] = app.received[i]
            \/ i = Len(app.received) + 1 /\ app'.received[i] = r.item
        BY <2>3, <3>1, <3>3, GainsLast
      <4>2. CASE i \in 1 .. Len(app.received) /\ app'.received[i] = app.received[i]
        BY <2>3, <3>3, <4>2 DEF FlowInv, EarlyIsCounted
      <4>3. CASE i = Len(app.received) + 1 /\ app'.received[i] = r.item
        <5>1. Len(app.received) + 1 <= r.item
          BY <1>1, <2>3, <3>3, NextItemFits
        <5> QED
          BY <4>3, <5>1
      <4> QED
        BY <4>1, <4>2, <4>3
    <3>4. s'.total = Len(app'.received)
      BY <1>1, <1>3, <3>2 DEF FlowInv, EarlyIsCounted
    <3>5. c'.total = app'.next - 1 /\ c'.total <= MaxEarly
      BY <1>3, <2>3 DEF FlowInv, EarlyIsCounted
    <3> QED
      BY <3>3, <3>4, <3>5 DEF EarlyIsCounted
  <2>6. PadsClient /\ PadsServer
    BY <1>1, <1>3 DEF PadsClient, PadsServer
  <2> QED
    BY <1>1, <1>3, <2>1, <2>4, <2>5, <2>6, QuietFlow
<1> QED
  BY <1>1, <1>2, <1>3

\* What any endpoint may do.
LEMMA CommonFlow ==
    ASSUME TlsInv, EarlyInv, FlowInv, NEW e \in Endpoints, CommonStep(e) \/ Flush(e)
    PROVE  FlowInv'
<1>1. CASE HelloRequest(e)
  <2>1. /\ QueuesStay
        /\ \/ /\ ClientIsAlone /\ ClientChanges({"state"})
              /\ c.state = "HELLO_REQUEST" /\ c'.state = "CLIENT_HELLO"
           \/ /\ ServerIsAlone /\ ServerChanges({"state"})
              /\ s.state = "HELLO_REQUEST" /\ s'.state = "CLIENT_HELLO"
    BY <1>1, HelloRequestDoes
  <2>2. CASE /\ ClientIsAlone /\ ClientChanges({"state"})
             /\ c.state = "HELLO_REQUEST" /\ c'.state = "CLIENT_HELLO"
    BY <2>1, <2>2, ClientHelloRequestFlow
  <2>3. CASE /\ ServerIsAlone /\ ServerChanges({"state"})
             /\ s.state = "HELLO_REQUEST" /\ s'.state = "CLIENT_HELLO"
    <3>1. ServerPads /\ ServerChanges({"state", "ccs_sent"})
      BY <2>1, <2>3 DEF ServerPads, QueuesStay, ServerChanges
    <3> QED
      BY <2>3, <3>1, ServerBeginFlow
  <2> QED
    BY <2>1, <2>2, <2>3
<1>2. CASE DropCcs(e)
  BY <1>2, DropCcsFlow
<1>3. CASE RefuseRecord(e)
  <2>1. PICK why : net[e] # <<>> /\ why # "no" /\ Refuses(e, why) /\ Expected(e, why)
    BY <1>3, RefuseRecordIsExpected
  <2> QED
    BY <2>1, RefusalFlow
<1>4. CASE PeerIsGone(e)
  <2>1. GivesUp(e, "peer") /\ net' = net /\ Expected(e, "peer")
    BY <1>4 DEF PeerIsGone, Expected, ExpectedOfClient, ExpectedOfServer
  <2> QED
    BY <2>1, RefusalFlow
<1>5. CASE Flush(e)
  <2>1. UNCHANGED <<conf, c, s, app, failed>> /\ QueuesStay
    BY <1>5, FlushMovesNothing DEF Flush, QueuesStay, TlsInv
  <2> QED
    BY <2>1, FlowStutters
<1> QED
  BY <1>1, <1>2, <1>3, <1>4, <1>5 DEF CommonStep
-----------------------------------------------------------------------------
(* The server asks for a certificate.                                      *)

\* A server that is about to ask has a client that has not heard more.
LEMMA AskingPlace ==
    ASSUME TlsInv, EarlyInv, FlowInv, s.state = "CERTIFICATE_REQUEST"
    PROVE  /\ s.mode \notin PskModes /\ ~s.certificate_request_sent
           /\ Len(s.tr) = HelloPlace + 2 /\ Asked = 0 /\ FlightEnd = HelloPlace + 5
           /\ s.tout = s.handshake_key /\ s.tin = NoKey
           /\ ~HashedAlone /\ Heard = c.tr /\ Len(c.tr) <= HelloPlace + 2
           /\ c.state \in {"CLIENT_CCS_AFTER_CLIENT_HELLO", "SERVER_HELLO", "ENCRYPTED_EXTENSIONS",
                           "CERTIFICATE_REQUEST"}
<1>1. /\ s.state \in ServerKeyed /\ s.state \in Answering
      /\ s.state \notin ServerListens \cup ServerSecond
  BY DEF ServerKeyed, ServerSecond, ServerDone, ServerTickets, Answering, ServerListens
<1>2. s.mode \notin PskModes /\ Len(s.tr) = HelloPlace + 2
  BY DEF FlowInv, Places, ServerPlace
<1>3. ~s.certificate_request_sent
  BY <1>1 DEF TlsInv, ServerSide, ServerIsSure
<1>4. Asked = 0 /\ FlightEnd = HelloPlace + 5
  BY <1>2, <1>3, PlacesAre DEF Asked, FlightEnd
<1>5. s.tout = s.handshake_key /\ s.tin = NoKey
  BY <1>1, KeyedKeys DEF TlsInv, ServerSide, ServerInFirstFlight
<1>6. ~HashedAlone /\ Heard = c.tr
  BY <1>1, AnsweringPlace
<1>7. Len(c.tr) <= HelloPlace + 2
  BY <1>1, <1>2, <1>6, ServerHasHeardAll
<1>8. c.state \in ClientListens
  BY <1>1, ClientListensToFlight
<1>9. c.state # "SERVER_CERTIFICATE"
  BY DEF FlowInv, Places, Turns
<1>10. c.state \notin {"CERTIFICATE_VERIFY", "SERVER_FINISHED"}
  <2>1. /\ c.state = "CERTIFICATE_VERIFY" => Len(c.tr) = HelloPlace + 3 + Asked
        /\ c.state = "SERVER_FINISHED" => Len(c.tr) = FlightEnd - 1
    BY DEF FlowInv, Places, ClientPlace
  <2>2. HelloPlace + 3 + Asked > HelloPlace + 2 /\ FlightEnd - 1 > HelloPlace + 2 /\ HelloPlace \in {1, 3}
    BY <1>4, PlacesAre
  <2>3. /\ Len(c.tr) = HelloPlace + 3 + Asked => ~(Len(c.tr) <= HelloPlace + 2)
        /\ Len(c.tr) = FlightEnd - 1 => ~(Len(c.tr) <= HelloPlace + 2)
    BY <1>4, <2>2
  <2> QED
    BY <1>7, <2>1, <2>3
<1> QED
  BY <1>2, <1>3, <1>4, <1>5, <1>6, <1>7, <1>8, <1>9, <1>10 DEF ClientListens, ClientKeyed

\* The places behind a CertificateRequest are other places.
LEMMA AskedPlaces ==
    ASSUME NEW h \in Nat, NEW e \in Nat, e >= h + 6, NEW i \in Nat, i <= h + 3
    PROVE  /\ i # h + 4 /\ i # h + 5 /\ i # h + 6 /\ i # h + 7 /\ i # h + 8 /\ i # e + 1
           /\ i <= h + 2 => i # h + 3
           /\ i = h + 3 => i # h /\ i # h + 1 /\ i # h + 2
OBVIOUS

\* The CertificateRequest.
LEMMA SayCertificateRequestFlow ==
    ASSUME TlsInv, EarlyInv, FlowInv, s.state = "CERTIFICATE_REQUEST", s'.state = "SERVER_CERTIFICATE",
           ServerIsAlone, ServerSays([t |-> "certificate_request"], s.tout),
           ServerChanges({"state", "certificate_request_sent", "tr"}),
           s'.certificate_request_sent = TRUE
    PROVE  FlowInv'
<1>0. PICK m : m = [t |-> "certificate_request"]
  OBVIOUS
<1>1. \A f \in ServerFields \ {"state", "certificate_request_sent", "tr"} : s'[f] = s[f]
  BY DEF ServerChanges
<1>2. /\ s'.hrr = s.hrr /\ s'.total = s.total /\ s'.discard = s.discard
      /\ s'.tin = s.tin /\ s'.tout = s.tout /\ s'.mode = s.mode /\ s'.share = s.share
      /\ s'.selected = s.selected /\ s'.early_accepted = s.early_accepted
      /\ s'.psk = s.psk /\ s'.limit = s.limit /\ s'.early_key = s.early_key /\ s'.groups = s.groups
      /\ s'.handshake_key = s.handshake_key /\ s'.application_key = s.application_key
  BY <1>1 DEF ServerFields
<1>3. c' = c /\ conf' = conf /\ app' = app /\ failed' = failed
  BY DEF ServerIsAlone
<1>4. /\ s.mode \notin PskModes /\ ~s.certificate_request_sent
      /\ Len(s.tr) = HelloPlace + 2 /\ Asked = 0 /\ FlightEnd = HelloPlace + 5
      /\ s.tout = s.handshake_key /\ s.tin = NoKey
      /\ ~HashedAlone /\ Heard = c.tr /\ Len(c.tr) <= HelloPlace + 2
      /\ c.state \in {"CLIENT_CCS_AFTER_CLIENT_HELLO", "SERVER_HELLO", "ENCRYPTED_EXTENSIONS",
                      "CERTIFICATE_REQUEST"}
  BY AskingPlace
<1>5. /\ s.state \in ServerKeyed /\ s'.state \in ServerKeyed /\ s.state \in Answering
      /\ s.state \notin ServerListens \cup ServerSecond \cup ServerTickets \cup ServerBegins
      /\ s'.state \notin ServerSecond \cup ServerBegins \cup {"SERVER_HELLO"}
  BY DEF ServerKeyed, ServerSecond, ServerDone, ServerTickets, Answering, ServerListens, ServerBegins
<1>6. /\ HashedAlone' = HashedAlone /\ Heard' = Heard /\ HelloPlace' = HelloPlace
      /\ OffersEarlyData' = OffersEarlyData /\ Ephemeral' = Ephemeral /\ ClientPsks' = ClientPsks
      /\ HelloSent' = HelloSent /\ SecondPskAfterEarlyData' = SecondPskAfterEarlyData
  BY <1>2, <1>3 DEF HashedAlone, Heard, TranscriptForHrr, HelloPlace, OffersEarlyData, Ephemeral,
                    ClientPsks, TicketModes, HelloSent, SecondPskAfterEarlyData
<1>7. HelloPlace \in {1, 3} /\ IsSeq(s.tr) /\ IsSeq(c.tr) /\ Len(c.tr) \in Nat
  BY PlacesAre, TranscriptsAre
<1>8. /\ Asked' = 1 /\ FlightEnd' = HelloPlace + 6
      /\ CertificateEnd' \in Nat /\ CertificateEnd' >= HelloPlace + 6
  <2>1. Asked' = 1
    BY DEF Asked
  <2>2. FlightEnd' = HelloPlace + 6
    BY <1>2, <1>4, <1>6, <1>7, <2>1 DEF FlightEnd
  <2>3. \E a, b \in Nat : CertificateEnd' = FlightEnd' + a + b
    BY <1>2, <1>3 DEF CertificateEnd
  <2> QED
    BY <1>7, <2>1, <2>2, <2>3
<1>9. m.t = "certificate_request" /\ m.t # "new_session_ticket" /\ m.t # "server_hello"
  BY <1>0
<1>10. ServerSays(m, s.tout) /\ s'.tr = Append(s.tr, m)
  BY <1>0 DEF ServerSays
<1>11. Len(s'.tr) = HelloPlace + 3
  BY <1>4, <1>7, <1>10, AppendIs
<1>12. Streams' /\ TranscriptsAgree'
  BY <1>3, <1>5, <1>6, <1>9, <1>10, ServerSaysStreams
<1>26. PICK n : n = HelloPlace + 3
  OBVIOUS
<1>13. MessagesAreRight'
  <2>1. ASSUME NEW i, i \in Nat, i <= HelloPlace + 2, NEW x, MessageIsRight(i, x)
        PROVE  MessageIsRight(i, x)'
    <3>1. /\ i # HelloPlace + 3 /\ i # HelloPlace + 4 /\ i # HelloPlace + 5 /\ i # HelloPlace + 6
          /\ i # HelloPlace + 7 /\ i # HelloPlace + 8 /\ i # CertificateEnd' + 1
      <4>1. i <= HelloPlace + 3 /\ HelloPlace \in Nat
        BY <1>7, <2>1
      <4> QED
        BY <1>8, <2>1, <4>1, AskedPlaces
    <3>2. /\ HelloPlace + 3 + Asked' = HelloPlace + 4 /\ HelloPlace + 4 + Asked' = HelloPlace + 5
          /\ FlightEnd' + 1 = HelloPlace + 7 /\ FlightEnd' + 2 = HelloPlace + 8
      BY <1>7, <1>8
    <3>3. (HelloIsRight(x) => HelloIsRight(x)') /\ (RetryIsRight(x) => RetryIsRight(x)')
      BY <1>2, <1>3, HelloStaysRight
    <3>4. MessageIsRight(i, x)
      BY <2>1
    <3> QED
      BY <1>2, <1>6, <1>8, <3>1, <3>2, <3>3, <3>4 DEF MessageIsRight
  <2>2. MessageIsRight(n, m)'
    <3>1. /\ n # HelloPlace /\ n # HelloPlace + 1 /\ n # HelloPlace + 2 /\ n # HelloPlace + 4
          /\ n # HelloPlace + 5 /\ n # HelloPlace + 6 /\ n # HelloPlace + 7 /\ n # HelloPlace + 8
          /\ n # CertificateEnd' + 1 /\ n # 2
      <4>1. n \in Nat /\ n <= HelloPlace + 3 /\ n = HelloPlace + 3 /\ n # 2 /\ HelloPlace \in Nat
        BY <1>7, <1>26
      <4> QED
        BY <1>8, <4>1, AskedPlaces
    <3>2. /\ HelloPlace + 3 + Asked' = HelloPlace + 4 /\ HelloPlace + 4 + Asked' = HelloPlace + 5
          /\ FlightEnd' + 1 = HelloPlace + 7 /\ FlightEnd' + 2 = HelloPlace + 8
      BY <1>7, <1>8
    <3> QED
      BY <1>2, <1>6, <1>8, <1>9, <3>1, <3>2 DEF MessageIsRight
  <2>3. ASSUME NEW i \in 1 .. Len(Heard')
        PROVE  i \in Nat /\ i <= HelloPlace + 2 /\ MessageIsRight(i, Heard'[i])
    <3>1. i \in 1 .. Len(Heard) /\ i \in Nat /\ i <= HelloPlace + 2
      BY <1>4, <1>6, <1>7, <2>3
    <3>2. MessageIsRight(i, Heard[i])
      BY <3>1 DEF FlowInv, MessagesAreRight
    <3> QED
      BY <1>6, <3>1, <3>2
  <2>4. ASSUME NEW i \in 1 .. Len(s'.tr)
        PROVE  \/ i \in Nat /\ i <= HelloPlace + 2 /\ MessageIsRight(i, s'.tr[i])
               \/ i = n /\ s'.tr[i] = m
    <3>1. \/ i \in 1 .. Len(s.tr) /\ s'.tr[i] = s.tr[i]
          \/ i = Len(s.tr) + 1 /\ s'.tr[i] = m
      BY <1>7, <1>10, <2>4, GainsLast
    <3>2. CASE i \in 1 .. Len(s.tr) /\ s'.tr[i] = s.tr[i]
      <4>1. MessageIsRight(i, s.tr[i])
        BY <3>2 DEF FlowInv, MessagesAreRight
      <4>2. i \in Nat /\ i <= HelloPlace + 2
        BY <1>4, <1>7, <3>2
      <4> QED
        BY <3>2, <4>1, <4>2
    <3>3. CASE i = Len(s.tr) + 1 /\ s'.tr[i] = m
      BY <1>4, <1>7, <1>26, <3>3
    <3> QED
      BY <3>1, <3>2, <3>3
  <2>5. \A i, x : i \in Nat /\ i <= HelloPlace + 2 /\ MessageIsRight(i, x) => MessageIsRight(i, x)'
    BY <2>1
  <2> QED
    BY <2>2, <2>3, <2>4, <2>5 DEF MessagesAreRight
<1>14. ServerPlace'
  BY <1>2, <1>4, <1>6, <1>7, <1>8, <1>11 DEF ServerPlace, ServerDone, ServerTickets
<1>15. ClientPlace'
  <2>1. c.state \notin {"HELLO_REQUEST", "CLIENT_HELLO", "CLIENT_CCS_BEFORE_2ND_CLIENT_HELLO",
                        "SERVER_CERTIFICATE", "CERTIFICATE_VERIFY", "SERVER_FINISHED"} \cup ClientSecond
    BY <1>4 DEF ClientSecond, ClientDone
  <2>2. /\ c.state = "CLIENT_CCS_AFTER_CLIENT_HELLO" => Len(c.tr) = 1 /\ ~c.hrr
        /\ c.state = "SERVER_HELLO" => Len(c.tr) = IF c.hrr THEN 3 ELSE 1
        /\ c.state = "ENCRYPTED_EXTENSIONS" => Len(c.tr) = HelloPlace + 1
        /\ c.state = "CERTIFICATE_REQUEST" => Len(c.tr) = HelloPlace + 2
        /\ c.hrr => s.hrr
    BY DEF FlowInv, Places, ClientPlace
  <2>3. ~c.client_auth
    BY <2>1 DEF FlowInv, Places, ClientPlace
  <2> QED
    BY <1>2, <1>3, <1>4, <1>6, <2>1, <2>2, <2>3 DEF ClientPlace, ClientSecond, ClientDone
<1>16. Turns'
  <2>1. c.state \in ClientListens /\ c.state # "SERVER_CERTIFICATE"
    BY <1>4 DEF ClientListens, ClientKeyed
  <2>2. ~(Len(s'.tr) < Len(Heard')) /\ Len(s'.tr) <= FlightEnd'
    BY <1>4, <1>6, <1>7, <1>8, <1>11
  <2> QED
    BY <1>3, <1>4, <1>5, <1>6, <2>1, <2>2 DEF Turns
<1>17. ServerParameters'
  <2>1. HelloPlace \in 1 .. Len(s.tr) /\ 1 \in 1 .. Len(s.tr) /\ HelloPlace + 1 \in 0 .. Len(s.tr)
    BY <1>4, <1>7
  <2>2. s'.tr[HelloPlace] = s.tr[HelloPlace] /\ s'.tr[1] = s.tr[1]
    BY <1>7, <1>10, <2>1, AppendIs
  <2>3. s'.handshake_key.tr = SubSeq(s'.tr, 1, HelloPlace + 1)
    <3>1. s.handshake_key.tr = SubSeq(s.tr, 1, HelloPlace + 1)
      BY <1>5 DEF FlowInv, ServerParameters
    <3> QED
      BY <1>2, <1>7, <1>10, <2>1, <3>1, PrefixStays
  <2>4. /\ s.share \in {"none", s.tr[HelloPlace].share}
        /\ s.mode \in conf.c_modes
        /\ s.mode \notin PskModes => s.psk = "zero"
        /\ s.early_accepted =>
             /\ s.selected = 1 /\ s.psk = "ticket" /\ s.limit = MaxEarly
             /\ s.early_key = Key("early", "ticket", "none", <<s.tr[1]>>)
             /\ ~s.hrr /\ OffersEarlyData
    BY <1>5 DEF FlowInv, ServerParameters
  <2>5. ~HelloUnread' /\ s'.state # "HELLO_RETRY_REQUEST"
    BY DEF HelloUnread
  <2> QED
    BY <1>2, <1>3, <1>4, <1>6, <2>2, <2>3, <2>4, <2>5 DEF ServerParameters
<1>18. ClientParameters'
  BY <1>2, <1>3, <1>6 DEF FlowInv, ClientParameters
<1>19. ServerKeys' /\ ClientKeys'
  <2>1. ServerKeys'
    BY <1>2, <1>4, <1>5 DEF ServerKeys
  <2>2. ClientKeys'
    BY <1>3, <1>6 DEF FlowInv, ClientKeys
  <2> QED
    BY <2>1, <2>2
<1>20. DiscardIsRight'
  <2>1. s.hrr => Len(s'.tr) # 2
    <3>1. HelloPlace + 3 # 2
      BY <1>7
    <3> QED
      BY <1>11, <3>1
  <2>2. Len(s.tr) <= FlightEnd /\ ~HelloUnread
    <3>1. HelloPlace + 2 <= HelloPlace + 5
      BY <1>7
    <3> QED
      BY <1>4, <3>1 DEF HelloUnread
  <2> QED
    BY <1>2, <1>5, <1>6, <2>1, <2>2 DEF FlowInv, DiscardIsRight
<1>21. RecordsHaveKeys'
  <2>1. ClientKeepsKeys /\ ServerKeepsKeys
    <3>1. c.state \notin ClientSecond
      BY <1>4 DEF ClientSecond, ClientDone
    <3> QED
      BY <1>2, <1>3, <1>5, <1>6, <3>1 DEF ClientKeepsKeys, ServerKeepsKeys
  <2>2. ASSUME NEW r, IsMessage(r, m, s.tout, s.tr)
        PROVE  ServerRecordHasKey(r)'
    BY <1>2, <1>4, <1>5, <1>9, <2>2 DEF IsMessage, IsHs, ServerRecordHasKey, Carries
  <2>3. /\ \E r : ToClient' = Append(ToClient, r) /\ ServerRecordHasKey(r)'
        /\ ToServer' = ToServer
    BY <1>10, <2>2 DEF ServerSays
  <2> QED
    BY <2>1, <2>3, RecordsStillHaveKeys
<1>22. EarlyComesFirst' /\ EarlyIsAwaited'
  <2>1. ~HelloUnread' /\ ~HelloUnread
    BY DEF HelloUnread
  <2>2. ServerIsReady => ServerIsReady'
    <3>1. ~PastEarlyData'
      <4>1. s'.state \notin ServerSecond \ {"END_OF_EARLY_DATA"}
        BY <1>5
      <4> QED
        BY <4>1 DEF PastEarlyData
    <3> QED
      BY <1>2, <2>1, <3>1 DEF ServerIsReady
  <2>3. ToServer' = ToServer
    BY <1>10 DEF ServerSays
  <2> QED
    BY <1>3, <2>1, <2>2, <2>3, EarlyStaysFirst, EarlyStaysAwaited
<1>23. ValuesAreKnown'
  BY <1>2, <1>3 DEF FlowInv, ValuesAreKnown
<1>24. FailuresAreKnown' /\ BadMacIsExpected'
  <2>1. /\ Satisfies(conf.s_cert, conf.c_authmode)' = Satisfies(conf.s_cert, conf.c_authmode)
        /\ Satisfies(conf.c_cert, conf.s_authmode)' = Satisfies(conf.c_cert, conf.s_authmode)
        /\ SharedPsks' = SharedPsks
    BY <1>3, <1>6 DEF Satisfies, SharedPsks, ServerKnows
  <2> QED
    BY <1>2, <1>3, <1>6, <2>1 DEF FlowInv, FailuresAreKnown, BadMacIsExpected
<1>25. EarlyIsCounted'
  BY <1>2, <1>3 DEF FlowInv, EarlyIsCounted
<1> QED
  BY <1>12, <1>13, <1>14, <1>15, <1>16, <1>17, <1>18, <1>19, <1>20, <1>21, <1>22, <1>23, <1>24,
     <1>25 DEF FlowInv, Places

\* The CertificateRequest, or none.
LEMMA WriteCertificateRequestFlow ==
    ASSUME TlsInv, EarlyInv, FlowInv, WriteCertificateRequest
    PROVE  FlowInv'
<1>1. /\ s.state = "CERTIFICATE_REQUEST" /\ s'.state = "SERVER_CERTIFICATE" /\ ServerIsAlone
      /\ \/ ServerChanges({"state"}) /\ QueuesStay
         \/ /\ ServerSays([t |-> "certificate_request"], s.tout)
            /\ ServerChanges({"state", "certificate_request_sent", "tr"})
            /\ s'.certificate_request_sent = TRUE
  BY WriteCertificateRequestDoes
<1>2. CASE ServerChanges({"state"}) /\ QueuesStay
  <2>1. /\ KnownStays /\ s'.discard = s.discard /\ s'.tr = s.tr /\ s'.tin = s.tin /\ s'.tout = s.tout
        /\ s'.handshake_key = s.handshake_key
    BY <1>1, <1>2, FlightStays
  <2>2. /\ s.state \in ServerKeyed /\ s'.state \in ServerKeyed /\ s.state \in Answering
        /\ s.state \notin ServerListens \cup ServerTickets
        /\ s'.state \notin ServerSecond \cup ServerBegins \cup {"SERVER_HELLO", "CERTIFICATE_REQUEST"}
    BY <1>1 DEF ServerKeyed, ServerSecond, ServerDone, ServerTickets, Answering, ServerListens, ServerBegins
  <2>3. /\ s.mode \notin PskModes /\ ~s.certificate_request_sent
        /\ Len(s.tr) = HelloPlace + 2 /\ Asked = 0 /\ s.tin = NoKey
    BY <1>1, AskingPlace
  <2>4. ServerPlace'
    <3>1. s'.mode = s.mode /\ s'.certificate_request_sent = s.certificate_request_sent
      BY <2>1 DEF KnownStays, TermsStay
    <3> QED
      BY <1>1, <2>1, <2>3, <3>1, FlightIs DEF ServerPlace, ServerDone, ServerTickets
  <2>5. ServerKeys'
    BY <1>1, <2>1, <2>2, <2>3 DEF ServerKeys
  <2>6. ToClient' = ToClient /\ ToServer' = ToServer
    BY <1>2 DEF QueuesStay
  <2> QED
    BY <2>1, <2>2, <2>4, <2>5, <2>6, AnsweringPads
<1>3. CASE /\ ServerSays([t |-> "certificate_request"], s.tout)
           /\ ServerChanges({"state", "certificate_request_sent", "tr"})
           /\ s'.certificate_request_sent = TRUE
  BY <1>1, <1>3, SayCertificateRequestFlow
<1> QED
  BY <1>1, <1>2, <1>3
-----------------------------------------------------------------------------
(* The server reads the ClientHello, and asks for another one.             *)

\* Before the ServerHello the client has no keys.
LEMMA ClientIsNotKeyed ==
    ASSUME TlsInv, FlowInv, s.state \in ServerBegins
    PROVE  c.state \in ClientBegins /\ c.state \notin ClientKeyed \cup ClientSecond
<1>1. s.state \notin ServerKeyed \cup ServerSecond
  BY DEF ServerBegins, ServerKeyed, ServerSecond, ServerDone, ServerTickets
<1>2. c.state \notin ClientKeyed
  BY <1>1 DEF FlowInv, Places, Turns
<1>3. c.state \notin ClientSecond
  BY <1>1 DEF TlsInv, Joint, PeersAgree
<1> QED
  BY <1>2, <1>3 DEF FlowInv, ValuesAreKnown

\* Without early data in the offer none is on its way.
LEMMA NoneIsOffered ==
    ASSUME FlowInv, ~OffersEarlyData
    PROVE  NoneIsEarly
<1>1. ASSUME NEW k \in 2 .. Len(ToServer)
      PROVE  ~IsEarlyRecord(ToServer[k])
  <2>1. k \in 1 .. Len(ToServer)
    BY <1>1
  <2>2. ClientRecordHasKey(ToServer[k])
    BY <2>1 DEF FlowInv, RecordsHaveKeys
  <2> QED
    BY <2>2 DEF ClientRecordHasKey
<1> QED
  BY <1>1 DEF NoneIsEarly

\* A transcript of two messages is not empty.
LEMMA TwoIsNotEmpty ==
    ASSUME NEW t, Len(t) = 2
    PROVE  t # <<>>
OBVIOUS

\* The server has read the ClientHello and goes on.
LEMMA ReadClientHelloFlow ==
    ASSUME TlsInv, EarlyInv, FlowInv, NEW m, m = ToServer[1].msg,
           s.state = "CLIENT_HELLO", ServerIsAlone, ServerHears, Len(s.tr) = HelloPlace - 1,
           HelloIsRight(m), ServerChanges(HelloChanges), HelloDecided(m), EarlyDecided(m)
    PROVE  FlowInv'
<1>1. \A f \in ServerFields \ HelloChanges : s'[f] = s[f]
  BY DEF ServerChanges
<1>2. /\ s'.hrr = s.hrr /\ s'.tin = s.tin /\ s'.tout = s.tout /\ s'.total = s.total
      /\ s'.certificate_request_sent = s.certificate_request_sent
  BY <1>1 DEF ServerFields, HelloChanges
<1>3. c' = c /\ conf' = conf /\ app' = app /\ failed' = failed /\ failed.server = "no"
  BY DEF ServerIsAlone
<1>4. /\ s'.state \in {"HELLO_RETRY_REQUEST", "SERVER_HELLO"}
      /\ s'.state \notin ServerKeyed \cup ServerSecond /\ ~HelloUnread'
      /\ s.state \in ServerBegins /\ s.state \notin ServerKeyed \cup ServerSecond
      /\ s.state \notin ServerTickets
  <2>1. s'.state \in {"HELLO_RETRY_REQUEST", "SERVER_HELLO"}
    BY DEF HelloDecided
  <2> QED
    BY <2>1 DEF HelloUnread, ServerBegins, ServerKeyed, ServerSecond, ServerDone, ServerTickets
<1>5. c.state \in ClientBegins /\ c.state \notin ClientKeyed \cup ClientSecond
  BY <1>4, ClientIsNotKeyed
<1>6. ~s.early_accepted /\ s.tin = NoKey /\ s.tout = NoKey /\ ~s.certificate_request_sent
  <2>1. ~s.early_accepted
    BY <1>4 DEF EarlyInv, AcceptanceIsRight
  <2>2. s.tin = NoKey /\ s.tout = NoKey
    BY <1>4 DEF FlowInv, ServerKeys
  <2>3. ~s.certificate_request_sent
    BY <1>4 DEF TlsInv, ServerSide, ServerIsSure, ServerKeyed
  <2> QED
    BY <2>1, <2>2, <2>3
<1>7. /\ HashedAlone' = HashedAlone /\ Heard' = Heard /\ HelloPlace' = HelloPlace
      /\ OffersEarlyData' = OffersEarlyData /\ Ephemeral' = Ephemeral /\ ClientPsks' = ClientPsks
      /\ HelloSent' = HelloSent
  BY <1>2, <1>3 DEF HashedAlone, Heard, TranscriptForHrr, HelloPlace, OffersEarlyData, Ephemeral,
                    ClientPsks, TicketModes, HelloSent
<1>8. /\ IsSeq(s.tr) /\ Len(s.tr) \in Nat /\ IsSeq(Heard) /\ Len(Heard) \in Nat
      /\ HelloPlace \in {1, 3} /\ (s.hrr => HelloPlace = 3) /\ (~s.hrr => HelloPlace = 1)
  BY TranscriptsAre, PlacesAre DEF HelloPlace
<1>9. /\ Streams' /\ TranscriptsAgree' /\ s'.tr = Append(s.tr, m)
      /\ Len(s.tr) + 1 <= Len(Heard) /\ m = Heard[Len(s.tr) + 1]
  BY <1>3, <1>7, ServerHearsStreams DEF Answered
<1>10. Len(s'.tr) = HelloPlace /\ Len(Heard) = HelloPlace /\ m = Heard[HelloPlace] /\ s'.tr[HelloPlace] = m
  <2>1. Len(s'.tr) = Len(s.tr) + 1 /\ s'.tr[Len(s.tr) + 1] = m
    BY <1>8, <1>9, AppendIs
  <2>2. Len(s.tr) + 1 = HelloPlace
    BY <1>8
  <2>3. Len(Heard) <= HelloPlace
    BY <1>5, HeardBeforeKeys
  <2> QED
    BY <1>8, <1>9, <2>1, <2>2, <2>3
<1>11. ~HashedAlone
  <2>1. HashedAlone => Len(Heard) = 1 /\ HelloPlace = 3
    BY <1>8, TranscriptsAre DEF HashedAlone
  <2> QED
    BY <1>10, <2>1
<1>12. MessagesAreRight'
  <2>1. ASSUME NEW i \in 1 .. Len(Heard')
        PROVE  i \in Nat /\ i <= HelloPlace /\ MessageIsRight(i, Heard'[i])
    <3>1. i \in 1 .. Len(Heard) /\ i \in Nat /\ i <= HelloPlace
      BY <1>7, <1>8, <1>10, <2>1
    <3>2. MessageIsRight(i, Heard[i])
      BY <3>1 DEF FlowInv, MessagesAreRight
    <3> QED
      BY <1>7, <3>1, <3>2
  <2>2. ASSUME NEW i \in 1 .. Len(s'.tr)
        PROVE  i \in Nat /\ i <= HelloPlace /\ MessageIsRight(i, s'.tr[i])
    <3>1. \/ i \in 1 .. Len(s.tr) /\ s'.tr[i] = s.tr[i]
          \/ i = Len(s.tr) + 1 /\ s'.tr[i] = m
      BY <1>8, <1>9, <2>2, GainsLast
    <3>2. CASE i \in 1 .. Len(s.tr) /\ s'.tr[i] = s.tr[i]
      <4>1. MessageIsRight(i, s.tr[i])
        BY <3>2 DEF FlowInv, MessagesAreRight
      <4>2. i \in Nat /\ i <= HelloPlace
        BY <1>8, <3>2
      <4> QED
        BY <3>2, <4>1, <4>2
    <3>3. CASE i = Len(s.tr) + 1 /\ s'.tr[i] = m
      <4>1. i = HelloPlace /\ i \in Nat
        BY <1>8, <3>3
      <4>2. HelloPlace \in 1 .. Len(Heard)
        BY <1>8, <1>10
      <4>3. MessageIsRight(HelloPlace, m)
        BY <1>10, <4>2 DEF FlowInv, MessagesAreRight
      <4>4. i <= HelloPlace
        BY <1>8, <4>1
      <4> QED
        BY <3>3, <4>1, <4>3, <4>4
    <3> QED
      BY <3>1, <3>2, <3>3
  <2>3. \A i, x : i \in Nat /\ i <= HelloPlace /\ MessageIsRight(i, x) => MessageIsRight(i, x)'
    BY <1>2, <1>3, EarlyMessagesStayRight
  <2> QED
    BY <2>1, <2>2, <2>3 DEF MessagesAreRight
<1>13. ServerPlace'
  <2>1. s'.state = "HELLO_RETRY_REQUEST" => ~s.hrr
    BY DEF HelloDecided
  <2> QED
    BY <1>2, <1>4, <1>6, <1>7, <1>10, <2>1 DEF ServerPlace, ServerDone, ServerTickets
<1>14. ClientPlace'
  <2>1. c.state \notin {"END_OF_EARLY_DATA", "CLIENT_CCS_AFTER_SERVER_FINISHED", "CLIENT_CERTIFICATE",
                        "CLIENT_CERTIFICATE_VERIFY", "CLIENT_FINISHED", "ENCRYPTED_EXTENSIONS",
                        "CERTIFICATE_REQUEST", "SERVER_CERTIFICATE", "CERTIFICATE_VERIFY",
                        "SERVER_FINISHED"} \cup ClientDone
    BY <1>5 DEF ClientKeyed, ClientSecond
  <2> QED
    BY <1>2, <1>3, <1>5, <1>7, <2>1 DEF FlowInv, Places, ClientPlace
<1>15. Turns'
  <2>1. FlightEnd' \in Nat /\ FlightEnd' >= HelloPlace' + 3
    BY <1>2, <1>7, <1>8 DEF FlightEnd, Asked
  <2>2. /\ ~(Len(Heard') < Len(s'.tr)) /\ ~(Len(s'.tr) < Len(Heard')) /\ Len(s'.tr) <= FlightEnd'
    BY <1>7, <1>8, <1>10, <2>1
  <2>3. c'.state = "SERVER_CERTIFICATE" => s'.state # "CERTIFICATE_REQUEST"
    BY <1>4
  <2> QED
    BY <1>3, <1>5, <1>7, <1>11, <2>2, <2>3 DEF Turns
<1>16. s'.early_accepted =>
          /\ s'.selected = 1 /\ s'.psk = "ticket" /\ s'.limit = MaxEarly
          /\ s'.early_key = Key("early", "ticket", "none", <<s'.tr[1]>>)
          /\ ~s.hrr /\ m.early /\ OffersEarlyData
  <2>1. ~s.hrr => s'.tr[1] = m
    BY <1>8, <1>10
  <2>2. m.early => OffersEarlyData
    BY DEF HelloIsRight
  <2> QED
    BY <2>1, <2>2 DEF EarlyDecided
<1>17. ServerParameters'
  <2>1. /\ s'.share \in {"none", s'.tr[HelloPlace].share}
        /\ s'.mode \in conf.c_modes
        /\ s'.mode \in PskModes => s'.selected \in DOMAIN ClientPsks /\ s'.psk = ClientPsks[s'.selected]
        /\ s'.mode \notin PskModes => s'.psk = "zero"
    BY <1>10 DEF HelloDecided
  <2>2. s'.state = "HELLO_RETRY_REQUEST" =>
           /\ s'.share \notin conf.s_groups \cup {"none"}
           /\ s'.share = s'.tr[1].share /\ s'.groups = s'.tr[1].groups
    <3>1. ~s.hrr => s'.tr[1] = m
      BY <1>8, <1>10
    <3> QED
      BY <3>1 DEF HelloDecided
  <2> QED
    BY <1>2, <1>3, <1>4, <1>7, <1>16, <2>1, <2>2 DEF ServerParameters
<1>18. ClientParameters'
  <2>1. c.early # "ACCEPTED"
    BY <1>6 DEF FlowInv, ClientParameters
  <2> QED
    BY <1>3, <1>5, <1>7, <2>1 DEF FlowInv, ClientParameters
<1>19. ServerKeys' /\ ClientKeys'
  <2>1. ServerKeys'
    BY <1>2, <1>4, <1>6 DEF ServerKeys, ServerSecond
  <2>2. ClientKeys'
    BY <1>3, <1>7 DEF FlowInv, ClientKeys
  <2> QED
    BY <2>1, <2>2
<1>20. ToServer # <<>> /\ IsHs(ToServer[1]) /\ ToServer' = Tail(ToServer) /\ ToClient' = ToClient
  BY DEF ServerHears
<1>21. RecordsHaveKeys'
  <2>1. ClientKeepsKeys /\ ServerKeepsKeys
    BY <1>3, <1>4, <1>5, <1>7 DEF ClientKeepsKeys, ServerKeepsKeys
  <2> QED
    BY <1>20, <2>1, RecordsStillHaveKeys
<1>22. m.early /\ ~s'.early_accepted => s'.discard # "NO_DISCARD"
  BY DEF HelloDecided
<1>23. EarlyComesFirst' /\ EarlyIsAwaited'
  <2>1. CASE ~s.hrr /\ m.early
    <3>1. s'.state \notin ServerSecond
      BY <1>4
    <3>2. ServerIsReady'
      BY <1>22, <2>1, <3>1 DEF ServerIsReady, PastEarlyData
    <3> QED
      BY <1>3, <1>4, <1>20, <3>2, EarlyStaysFirst, EarlyStaysAwaited
  <2>2. CASE ~s.hrr /\ ~m.early
    <3>1. ~OffersEarlyData
      BY <2>2 DEF HelloIsRight
    <3>2. NoneIsEarly
      BY <3>1, NoneIsOffered
    <3> QED
      BY <1>3, <1>4, <1>20, <3>2, EarlyStaysFirst, EarlyStaysAwaited
  <2>3. CASE s.hrr
    <3>1. m.t = "client_hello"
      BY DEF HelloIsRight
    <3>2. ToServer[1].over = s.tr
      BY <1>3, <1>20, <3>1, ServerReadsNext DEF Bound
    <3>3. Len(s.tr) = 2
      BY <1>8, <2>3
    <3>4. ToServer[1].over # <<>>
      BY <3>2, <3>3, TwoIsNotEmpty
    <3>5. NoneIsEarly
      BY <1>3, <1>20, <3>4, NoneIsEarlyBehind
    <3> QED
      BY <1>3, <1>4, <1>20, <3>5, EarlyStaysFirst, EarlyStaysAwaited
  <2> QED
    BY <2>1, <2>2, <2>3
<1>24. DiscardIsRight'
  <2>1. /\ s'.discard \in {"NO_DISCARD", "DISCARD", "TRY_TO_DEPROTECT_AND_DISCARD"}
        /\ s'.discard = "DISCARD" => s'.state = "HELLO_RETRY_REQUEST"
        /\ s'.discard = "TRY_TO_DEPROTECT_AND_DISCARD" => s'.state = "SERVER_HELLO"
    BY DEF HelloDecided
  <2>2. s.hrr => Len(s'.tr) # 2
    BY <1>8, <1>10
  <2>3. ~s.hrr /\ OffersEarlyData => m.early
    BY DEF HelloIsRight
  <2> QED
    BY <1>2, <1>7, <1>22, <2>1, <2>2, <2>3 DEF DiscardIsRight, ServerBegins
<1>25. ValuesAreKnown'
  BY <1>2, <1>3 DEF FlowInv, ValuesAreKnown
<1>26. FailuresAreKnown' /\ BadMacIsExpected'
  <2>1. Satisfies(conf.s_cert, conf.c_authmode)' = Satisfies(conf.s_cert, conf.c_authmode)
    BY <1>3 DEF Satisfies
  <2>2. failed.client # "bad mac"
    BY <1>5 DEF FlowInv, BadMacIsExpected
  <2> QED
    BY <1>3, <2>1, <2>2 DEF FlowInv, FailuresAreKnown, BadMacIsExpected
<1>27. EarlyIsCounted'
  <2>1. s'.early_accepted => s'.total = Len(app'.received)
    <3>1. ~s.hrr => s.total = 0
      BY DEF FlowInv, ServerParameters, HelloUnread
    <3>2. Len(app.received) = 0
      BY <1>6 DEF EarlyInv, NothingIsRead
    <3> QED
      BY <1>2, <1>3, <1>16, <3>1, <3>2
  <2> QED
    BY <1>3, <2>1 DEF FlowInv, EarlyIsCounted
<1> QED
  BY <1>9, <1>12, <1>13, <1>14, <1>15, <1>17, <1>18, <1>19, <1>21, <1>23, <1>24, <1>25, <1>26,
     <1>27 DEF FlowInv, Places

-----------------------------------------------------------------------------
(* The HelloRetryRequest.                                                  *)

\* A non-empty set of places has a first one.
LEMMA LeastIs ==
    ASSUME NEW S, S \subseteq Nat, S # {}
    PROVE  Min(S) \in S
<1> DEFINE R == OpToRel(<, Nat)
<1>1. IsWellFoundedOn(R, Nat)
  BY NatLessThanWellFounded
<1>2. \A x, y \in Nat : y < x => <<y, x>> \in R
  BY DEF OpToRel
<1> HIDE DEF R
<1>3. PICK x \in S : \A y \in S : ~ (<<y, x>> \in R)
  BY <1>1, WFMin
<1>4. x \in Nat /\ \A y \in S : y \in Nat /\ ~ (y < x)
  BY <1>2, <1>3, Zenon
<1>5. \A y \in S : x <= y
  BY <1>4, SMT
<1> QED
  BY <1>5 DEF Min

\* The group that is asked for is a common one, and not that of the share.
LEMMA GroupIsCommon ==
    ASSUME TlsInv, FlowInv, s.state = "HELLO_RETRY_REQUEST", CommonGroups(s.groups) # {}
    PROVE  /\ FirstGroup(s.groups) \in ToSet(conf.c_groups) \cap conf.s_groups
           /\ FirstGroup(s.groups) # Head(conf.c_groups)
           /\ Ephemeral
<1>1. /\ ~s.hrr /\ s.groups = s.tr[1].groups /\ Len(s.tr) = 1 /\ s.share = s.tr[1].share
      /\ s.share \notin conf.s_groups \cup {"none"}
  BY DEF FlowInv, Places, ServerPlace, HelloPlace, ServerParameters
<1>2. HelloIsRight(s.tr[1])
  <2>1. 1 \in 1 .. Len(s.tr)
    BY <1>1
  <2>2. MessageIsRight(1, s.tr[1])
    BY <2>1 DEF FlowInv, MessagesAreRight
  <2> QED
    BY <1>1, <2>2 DEF MessageIsRight, HelloPlace
<1>3. Ephemeral /\ s.groups = conf.c_groups /\ s.share = Head(conf.c_groups)
  BY <1>1, <1>2 DEF HelloIsRight
<1>4. DOMAIN conf.c_groups = 1 .. Len(conf.c_groups) /\ Len(conf.c_groups) \in Nat
  BY GroupsAreListed DEF FlowInv, ValuesAreKnown
<1>5. CommonGroups(s.groups) \subseteq Nat
  BY <1>3, <1>4 DEF CommonGroups
<1>6. Min(CommonGroups(s.groups)) \in CommonGroups(s.groups)
  BY <1>5, LeastIs
<1>7. \E i \in DOMAIN s.groups : s.groups[i] \in conf.s_groups /\ FirstGroup(s.groups) = s.groups[i]
  BY <1>6 DEF CommonGroups, FirstGroup
<1>8. FirstGroup(s.groups) \in ToSet(conf.c_groups) \cap conf.s_groups
  BY <1>3, <1>7 DEF ToSet
<1> QED
  BY <1>1, <1>3, <1>8

\* Nothing is said yet about the places of the retry but the retry itself.
LEMMA RetryPlaces ==
    ASSUME NEW f \in Nat, f >= 6, NEW e \in Nat, e >= 6, NEW a \in Nat, NEW i, i \in {1, 2}
    PROVE  /\ i # 3 /\ i # 3 + 1 /\ i # 3 + 2 /\ i # 3 + 3 /\ i # 3 + 3 + a /\ i # 3 + 4 + a
           /\ i # f /\ i # f + 1 /\ i # f + 2 /\ i # e + 1
OBVIOUS

\* Where the flight ends.
LEMMA RetryEnds ==
    ASSUME NEW a, a \in {0, 1}, NEW f
    PROVE  /\ f \in {4, 6 + a} => f \in Nat /\ f >= 4
           /\ f \in {6, 8 + a} => f \in Nat /\ f >= 6
OBVIOUS

\* What lies behind the end of the flight.
LEMMA BehindSix ==
    ASSUME NEW g \in Nat, g >= 6, NEW e, \E a, b \in Nat : e = g + a + b
    PROVE  e \in Nat /\ e >= 6
OBVIOUS

\* The server asks for another ClientHello.
LEMMA WriteHelloRetryRequestFlow ==
    ASSUME TlsInv, EarlyInv, FlowInv, WriteHelloRetryRequest, ~s.hrr, CommonGroups(s.groups) # {}
    PROVE  FlowInv'
<1>0. PICK m : m = [t |-> "server_hello", hrr |-> TRUE, psk |-> 0, share |-> FirstGroup(s.groups)]
  OBVIOUS
<1>1. /\ s.state = "HELLO_RETRY_REQUEST" /\ ServerIsAlone
      /\ s'.state \in {"SERVER_CCS_AFTER_HELLO_RETRY_REQUEST", "CLIENT_HELLO"}
      /\ s'.tr = Append(TranscriptForHrr(s.tr), m)
      /\ ToServer' = ToServer
      /\ \E r : IsMessage(r, m, NoKey, TranscriptForHrr(s.tr)) /\ ToClient' = Append(ToClient, r)
      /\ ServerChanges({"state", "tr", "tin", "tout", "hrr"})
      /\ s'.tin = NoKey /\ s'.tout = NoKey /\ s'.hrr = TRUE
  BY <1>0, WriteHelloRetryRequestDoes
<1>2. \A f \in ServerFields \ {"state", "tr", "tin", "tout", "hrr"} : s'[f] = s[f]
  BY <1>1 DEF ServerChanges
<1>3. /\ s'.total = s.total /\ s'.discard = s.discard /\ s'.mode = s.mode /\ s'.share = s.share
      /\ s'.selected = s.selected /\ s'.early_accepted = s.early_accepted
      /\ s'.certificate_request_sent = s.certificate_request_sent
  BY <1>2 DEF ServerFields
<1>4. c' = c /\ conf' = conf /\ app' = app /\ failed' = failed
  BY <1>1 DEF ServerIsAlone
<1>5. m.t = "server_hello" /\ m.hrr /\ m.share = FirstGroup(s.groups)
  BY <1>0
<1>6. /\ Streams' /\ TranscriptsAgree'
      /\ ~c.hrr /\ ~s.hrr /\ Len(c.tr) = 1 /\ Len(s.tr) = 1 /\ c.tr = s.tr
      /\ Heard = c.tr /\ Heard' = TranscriptForHrr(s.tr) /\ Len(Heard') = 1 /\ HashedAlone'
      /\ Len(s'.tr) = 2 /\ s'.tr[2] = m
      /\ c.state \in {"CLIENT_CCS_AFTER_CLIENT_HELLO", "SERVER_HELLO"}
  BY <1>1, <1>4, <1>5, RetryStreams
<1>7. /\ s.state \in ServerBegins /\ s'.state \in ServerBegins
      /\ s.state \notin ServerKeyed \cup ServerSecond \cup ServerTickets
      /\ s'.state \notin ServerKeyed \cup ServerSecond \cup {"SERVER_HELLO", "HELLO_RETRY_REQUEST"}
      /\ ~HelloUnread /\ ~HelloUnread'
  BY <1>1 DEF ServerKeyed, ServerSecond, ServerDone, ServerTickets, ServerBegins, HelloUnread
<1>8. c.state \in ClientBegins /\ c.state \notin ClientKeyed \cup ClientSecond
  BY <1>6 DEF ClientBegins, ClientKeyed, ClientSecond, ClientDone
<1>9. ~s.early_accepted
  BY <1>7 DEF EarlyInv, AcceptanceIsRight
<1>10. /\ OffersEarlyData' = OffersEarlyData /\ Ephemeral' = Ephemeral /\ ClientPsks' = ClientPsks
       /\ HelloSent' = HelloSent /\ HelloPlace' = 3 /\ HelloPlace = 1
  BY <1>1, <1>4, <1>6 DEF OffersEarlyData, Ephemeral, ClientPsks, TicketModes, HelloSent, HelloPlace
<1>11. /\ Asked' \in Nat /\ FlightEnd' \in Nat /\ FlightEnd' >= 6
       /\ CertificateEnd' \in Nat /\ CertificateEnd' >= 6
       /\ FlightEnd \in Nat /\ FlightEnd >= 4
  <2>1. Asked' \in {0, 1} /\ Asked \in {0, 1}
    BY DEF Asked
  <2>2. FlightEnd' \in {6, 8 + Asked'} /\ FlightEnd \in {4, 6 + Asked}
    BY <1>10, <2>1 DEF FlightEnd
  <2>3. FlightEnd' \in Nat /\ FlightEnd' >= 6
    BY <2>1, <2>2, RetryEnds
  <2>4. FlightEnd \in Nat /\ FlightEnd >= 4
    BY <2>1, <2>2, RetryEnds
  <2>5. \E a, b \in Nat : CertificateEnd' = FlightEnd' + a + b
    BY DEF CertificateEnd
  <2>6. CertificateEnd' \in Nat /\ CertificateEnd' >= 6
    BY <2>3, <2>5, BehindSix
  <2>7. Asked' \in Nat
    BY <2>1
  <2> QED
    BY <2>3, <2>4, <2>6, <2>7
<1>12. MessagesAreRight'
  <2>1. RetryIsRight(m)'
    <3>1. /\ m.share \in ToSet(conf.c_groups) \cap conf.s_groups
          /\ m.share # Head(conf.c_groups) /\ Ephemeral
      BY <1>1, <1>5, GroupIsCommon
    <3> QED
      BY <1>4, <1>5, <1>10, <3>1 DEF RetryIsRight
  <2>2. ASSUME NEW i \in {1, 2}, NEW x, i = 2 => x = m
        PROVE  MessageIsRight(i, x)'
    <3>1. /\ i # 3 /\ i # 3 + 1 /\ i # 3 + 2 /\ i # 3 + 3 /\ i # 3 + 3 + Asked' /\ i # 3 + 4 + Asked'
          /\ i # FlightEnd' /\ i # FlightEnd' + 1 /\ i # FlightEnd' + 2 /\ i # CertificateEnd' + 1
      BY <1>11, RetryPlaces
    <3>2. i = 2 => RetryIsRight(x)'
      BY <2>1, <2>2
    <3> QED
      BY <1>10, <3>1, <3>2 DEF MessageIsRight
  <2>3. \A i \in 1 .. Len(Heard') : i \in {1, 2} /\ i # 2
    BY <1>6
  <2>4. \A i \in 1 .. Len(s'.tr) : i \in {1, 2} /\ (i = 2 => s'.tr[i] = m)
    BY <1>6
  <2>5. \A i, x : i \in {1, 2} /\ (i = 2 => x = m) => MessageIsRight(i, x)'
    BY <2>2
  <2> QED
    BY <2>3, <2>4, <2>5 DEF MessagesAreRight
<1>13. ServerPlace'
  <2>1. s.mode \in PskModes => ~s.certificate_request_sent
    BY DEF FlowInv, Places, ServerPlace
  <2> QED
    BY <1>1, <1>3, <1>6, <1>10, <2>1 DEF ServerPlace, ServerDone, ServerTickets
<1>14. ClientPlace'
  <2>1. c.state \notin {"END_OF_EARLY_DATA", "CLIENT_CCS_AFTER_SERVER_FINISHED", "CLIENT_CERTIFICATE",
                        "CLIENT_CERTIFICATE_VERIFY", "CLIENT_FINISHED", "ENCRYPTED_EXTENSIONS",
                        "CERTIFICATE_REQUEST", "SERVER_CERTIFICATE", "CERTIFICATE_VERIFY",
                        "SERVER_FINISHED", "HELLO_REQUEST", "CLIENT_HELLO",
                        "CLIENT_CCS_BEFORE_2ND_CLIENT_HELLO"} \cup ClientDone
    BY <1>6 DEF ClientDone
  <2>2. ~c.client_auth
    BY <1>8, <2>1 DEF FlowInv, Places, ClientPlace, ClientSecond
  <2>3. c.state = "SERVER_HELLO" => Len(c.tr) = IF c.hrr THEN 3 ELSE 1
    BY <1>6
  <2> QED
    BY <1>4, <1>6, <1>8, <2>1, <2>2, <2>3 DEF ClientPlace
<1>15. Turns'
  <2>1. c.state \in ClientListens
    BY <1>6 DEF ClientListens
  <2>2. ~(Len(s'.tr) < Len(Heard')) /\ Len(s'.tr) <= FlightEnd'
    BY <1>6, <1>11
  <2> QED
    BY <1>4, <1>6, <1>8, <2>1, <2>2 DEF Turns, ClientKeyed
<1>16. ServerParameters'
  BY <1>3, <1>7, <1>9 DEF ServerParameters
<1>17. ClientParameters'
  <2>1. c.state \notin ClientKeyed
    BY <1>8
  <2> QED
    BY <1>3, <1>4, <1>10, <2>1 DEF FlowInv, ClientParameters
<1>18. ServerKeys' /\ ClientKeys'
  <2>1. ServerKeys'
    BY <1>1, <1>7 DEF ServerKeys, ServerSecond
  <2>2. ClientKeys'
    BY <1>4, <1>10 DEF FlowInv, ClientKeys
  <2> QED
    BY <2>1, <2>2
<1>19. RecordsHaveKeys'
  <2>1. ClientKeepsKeys /\ ServerKeepsKeys
    BY <1>3, <1>4, <1>7, <1>8, <1>10 DEF ClientKeepsKeys, ServerKeepsKeys
  <2>2. ASSUME NEW r, IsMessage(r, m, NoKey, TranscriptForHrr(s.tr))
        PROVE  ServerRecordHasKey(r)'
    BY <1>5, <2>2 DEF IsMessage, IsHs, ServerRecordHasKey, Carries
  <2>3. \E r : ToClient' = Append(ToClient, r) /\ ServerRecordHasKey(r)'
    BY <1>1, <2>2
  <2> QED
    BY <1>1, <2>1, <2>3, RecordsStillHaveKeys
<1>20. EarlyComesFirst' /\ EarlyIsAwaited'
  <2>1. ServerIsReady => ServerIsReady'
    BY <1>3, <1>7, <1>9 DEF ServerIsReady
  <2> QED
    BY <1>1, <1>4, <1>7, <2>1, EarlyStaysFirst, EarlyStaysAwaited
<1>21. DiscardIsRight'
  <2>1. Len(s.tr) <= FlightEnd
    BY <1>6, <1>11
  <2> QED
    BY <1>3, <1>6, <1>7, <1>10, <2>1 DEF FlowInv, DiscardIsRight
<1>22. ValuesAreKnown'
  BY <1>1, <1>3, <1>4 DEF FlowInv, ValuesAreKnown
<1>23. FailuresAreKnown' /\ BadMacIsExpected'
  <2>1. /\ Satisfies(conf.s_cert, conf.c_authmode)' = Satisfies(conf.s_cert, conf.c_authmode)
        /\ Satisfies(conf.c_cert, conf.s_authmode)' = Satisfies(conf.c_cert, conf.s_authmode)
        /\ SharedPsks' = SharedPsks
    BY <1>4, <1>10 DEF Satisfies, SharedPsks, ServerKnows
  <2>2. failed.client # "bad mac"
    BY <1>8 DEF FlowInv, BadMacIsExpected
  <2> QED
    BY <1>3, <1>4, <2>1, <2>2 DEF FlowInv, FailuresAreKnown, BadMacIsExpected
<1>24. EarlyIsCounted'
  BY <1>3, <1>4 DEF FlowInv, EarlyIsCounted
<1> QED
  BY <1>6, <1>12, <1>13, <1>14, <1>15, <1>16, <1>17, <1>18, <1>19, <1>20, <1>21, <1>22, <1>23,
     <1>24 DEF FlowInv, Places

-----------------------------------------------------------------------------
(* Every step, and the initial state.                                      *)

\* The client that reads the server's certificate, or refuses it.
LEMMA ProcessServerCertificateFlow ==
    ASSUME TlsInv, EarlyInv, FlowInv, ProcessServerCertificate
    PROVE  FlowInv'
<1>1. CASE /\ c.state = "SERVER_CERTIFICATE" /\ c'.state = "CERTIFICATE_VERIFY"
           /\ ClientIsAlone /\ ClientHears(c.tr)
           /\ ClientChanges({"state", "tr", "peer_cert"})
  BY <1>1, ReadServerCertificateFlow
<1>2. CASE Refuses("client", "peer certificate") /\ ~Satisfies(conf.s_cert, conf.c_authmode)
  <2>1. net.client # <<>>
    BY DEF ProcessServerCertificate, Receives, Reading
  <2>2. Expected("client", "peer certificate") /\ "client" \in Endpoints
    BY <1>2 DEF Expected, ExpectedOfClient, Endpoints
  <2> QED
    BY <1>2, <2>1, <2>2, RefusalFlow
<1> QED
  BY <1>1, <1>2, ProcessServerCertificateDoes

\* The client that reads the server's signature.
LEMMA ProcessServerCertificateVerifyFlow ==
    ASSUME TlsInv, EarlyInv, FlowInv, ProcessServerCertificateVerify
    PROVE  FlowInv'
<1>1. /\ c.state = "CERTIFICATE_VERIFY" /\ c'.state = "SERVER_FINISHED"
      /\ ClientIsAlone /\ ClientHears(c.tr)
      /\ ClientChanges({"state", "tr"})
  BY ProcessServerCertificateVerifyDoes
<1>2. ClientChanges({"state", "tr", "peer_cert"})
  BY <1>1 DEF ClientChanges
<1> QED
  BY <1>1, <1>2, ReadServerCertificateFlow

\* The server that reads the ClientHello, or has nothing to agree on.
LEMMA ProcessClientHelloFlow ==
    ASSUME TlsInv, EarlyInv, FlowInv, ProcessClientHello
    PROVE  FlowInv'
<1>1. CASE /\ Refuses("server", "key exchange")
           /\ "ephemeral" \notin conf.c_modes \cap conf.s_modes /\ SharedPsks = {}
  <2>1. net.server # <<>>
    BY DEF ProcessClientHello, Receives, Reading
  <2>2. Expected("server", "key exchange") /\ "server" \in Endpoints
    BY <1>1 DEF Expected, ExpectedOfServer, Endpoints
  <2> QED
    BY <1>1, <2>1, <2>2, RefusalFlow
<1>2. ASSUME NEW m, m = ToServer[1].msg,
             s.state = "CLIENT_HELLO" /\ ServerIsAlone /\ ServerHears,
             Len(s.tr) = HelloPlace - 1 /\ HelloIsRight(m),
             ServerChanges(HelloChanges), HelloDecided(m) /\ EarlyDecided(m)
      PROVE  FlowInv'
  BY <1>2, ReadClientHelloFlow
<1> QED
  BY <1>1, <1>2, ProcessClientHelloDoes

\* The server that asks for another ClientHello, or has no group to ask for.
LEMMA WriteRetryFlow ==
    ASSUME TlsInv, EarlyInv, FlowInv, WriteHelloRetryRequest
    PROVE  FlowInv'
<1>1. CASE s.hrr \/ CommonGroups(s.groups) = {}
  <2>1. /\ GivesUp("server", "group") /\ net' = net
        /\ ToSet(conf.c_groups) \cap conf.s_groups = {}
    BY <1>1, NoGroupIsCommon
  <2>2. Expected("server", "group") /\ "server" \in Endpoints
    BY <2>1 DEF Expected, ExpectedOfServer, Endpoints
  <2> QED
    BY <2>1, <2>2, RefusalFlow
<1>2. CASE ~s.hrr /\ CommonGroups(s.groups) # {}
  BY <1>2, WriteHelloRetryRequestFlow
<1> QED
  BY <1>1, <1>2

\* The dummy record behind the HelloRetryRequest.
LEMMA ServerCcsAfterHelloRetryRequestFlow ==
    ASSUME TlsInv, EarlyInv, FlowInv, ServerCcsAfterHelloRetryRequest
    PROVE  FlowInv'
BY ServerCcsAfterHelloRetryRequestDoes, ServerBeginFlow

\* The server's certificate, or none to write.
LEMMA WriteCertificateFlow ==
    ASSUME TlsInv, EarlyInv, FlowInv, WriteServerCertificate
    PROVE  FlowInv'
<1>1. CASE conf.s_cert = "none"
  <2>1. GivesUp("server", "own certificate") /\ net' = net
    BY <1>1, NoCertificateIsThere
  <2>2. Expected("server", "own certificate") /\ "server" \in Endpoints
    BY <1>1 DEF Expected, ExpectedOfServer, Endpoints
  <2> QED
    BY <2>1, <2>2, RefusalFlow
<1>2. CASE conf.s_cert # "none"
  BY <1>2, WriteServerCertificateFlow
<1> QED
  BY <1>1, <1>2

\* The server that reads the client's certificate, or refuses it.
LEMMA ReadClientCertificateFlow ==
    ASSUME TlsInv, EarlyInv, FlowInv, ProcessClientCertificate
    PROVE  FlowInv'
<1>1. CASE /\ s.state = "CLIENT_CERTIFICATE" /\ ServerIsAlone /\ ServerHears
           /\ s'.state = IF conf.c_cert = "none" THEN "CLIENT_FINISHED"
                         ELSE "CLIENT_CERTIFICATE_VERIFY"
           /\ ServerChanges({"state", "tr", "peer_cert", "discard"})
           /\ s'.discard = "NO_DISCARD"
  BY <1>1, ProcessClientCertificateFlow
<1>2. CASE Refuses("server", "peer certificate") /\ ~Satisfies(conf.c_cert, conf.s_authmode)
  <2>1. net.server # <<>>
    BY DEF ProcessClientCertificate, Receives, Reading
  <2>2. Expected("server", "peer certificate") /\ "server" \in Endpoints
    BY <1>2 DEF Expected, ExpectedOfServer, Endpoints
  <2> QED
    BY <1>2, <2>1, <2>2, RefusalFlow
<1> QED
  BY <1>1, <1>2, ProcessClientCertificateDoes

\* The client's steps.
LEMMA ClientStepFlow ==
    ASSUME TlsInv, TlsInv', EarlyInv, FlowInv, ClientStep
    PROVE  FlowInv'
<1>1. CASE \/ WriteClientHello \/ ClientCcsAfterClientHello \/ ProcessHelloRetryRequest
           \/ ClientCcsBefore2ndClientHello \/ ProcessServerHello
  BY <1>1, WriteClientHelloFlow, ClientCcsAfterClientHelloFlow, ProcessHelloRetryRequestFlow,
     ClientCcsBefore2ndClientHelloFlow, ProcessServerHelloFlow
<1>2. CASE \/ ProcessEncryptedExtensions \/ ProcessCertificateRequest \/ ProcessServerCertificate
           \/ ProcessServerCertificateVerify \/ ProcessServerFinished
  BY <1>2, ProcessEncryptedExtensionsFlow, ProcessCertificateRequestFlow, ProcessServerCertificateFlow,
     ProcessServerCertificateVerifyFlow, ProcessServerFinishedFlow
<1>3. CASE \/ WriteEndOfEarlyData \/ ClientCcsAfterServerFinished \/ WriteClientCertificate
           \/ WriteClientCertificateVerify \/ WriteClientFinished
  BY <1>3, WriteEndOfEarlyDataFlow, ClientCcsAfterServerFinishedFlow, WriteClientCertificateFlow,
     WriteClientCertificateVerifyFlow, WriteClientFinishedFlow
<1>4. CASE ClientFlushBuffers \/ ClientHandshakeWrapup \/ ProcessNewSessionTicket
  BY <1>4, ClientWrapupFlow
<1> QED
  BY <1>1, <1>2, <1>3, <1>4 DEF ClientStep

\* The server's steps.
LEMMA ServerStepFlow ==
    ASSUME TlsInv, TlsInv', EarlyInv, FlowInv, ServerStep
    PROVE  FlowInv'
<1>1. CASE \/ SkipEarlyData \/ ProcessClientHello \/ WriteHelloRetryRequest
           \/ ServerCcsAfterHelloRetryRequest \/ WriteServerHello \/ ServerCcsAfterServerHello
  BY <1>1, SkipEarlyDataFlow, ProcessClientHelloFlow, WriteRetryFlow,
     ServerCcsAfterHelloRetryRequestFlow, WriteServerHelloFlow, ServerCcsAfterServerHelloFlow
<1>2. CASE \/ WriteEncryptedExtensions \/ WriteCertificateRequest \/ WriteServerCertificate
           \/ WriteServerCertificateVerify \/ WriteServerFinished \/ ReadEarlyData
  BY <1>2, WriteEncryptedExtensionsFlow, WriteCertificateRequestFlow, WriteCertificateFlow,
     WriteServerCertificateVerifyFlow, WriteServerFinishedFlow, ReadEarlyDataFlow
<1>3. CASE \/ ProcessEndOfEarlyData \/ ProcessClientCertificate
           \/ ProcessClientCertificateVerify \/ ProcessClientFinished
  BY <1>3, ProcessEndOfEarlyDataFlow, ReadClientCertificateFlow, ProcessClientCertificateVerifyFlow,
     ProcessClientFinishedFlow
<1>4. CASE ServerHandshakeWrapup \/ WriteNewSessionTicket \/ ServerNewSessionTicketFlush
  BY <1>4, ServerWrapupFlow, WriteNewSessionTicketFlow
<1> QED
  BY <1>1, <1>2, <1>3, <1>4 DEF ServerStep

\* Nothing is on its way in the stream of two transcripts of the same length.
LEMMA EmptyStream ==
    Stream(<<>>, 0, <<>>)
<1> DEFINE p == [k \in 0 .. 0 |-> 0]
<1>1. Len(<<>>) = 0 /\ 0 .. 0 = {0} /\ 1 .. 0 = {} /\ 0 \in Nat
  OBVIOUS
<1>2. p \in [0 .. Len(<<>>) -> Nat] /\ p[0] = 0 /\ p[Len(<<>>)] = 0
  BY <1>1
<1>3. \A j, k \in 0 .. Len(<<>>) : j <= k => p[j] <= p[k]
  BY <1>1
<1> HIDE DEF p
<1> QED
  BY <1>1, <1>2, <1>3 DEF Stream

\* Two endpoints that have not begun have nothing to read.
LEMMA FlowInit ==
    ASSUME Init
    PROVE  FlowInv
<1>1. /\ conf \in Configs
      /\ c.state = "HELLO_REQUEST" /\ c.tin = NoKey /\ c.tout = NoKey /\ c.tr = <<>>
      /\ c.hrr = FALSE /\ c.early = "IDLE" /\ c.total = 0 /\ c.client_auth = FALSE
      /\ app = [next |-> 1, retried |-> {}, received |-> <<>>]
      /\ failed = [e \in Endpoints |-> "no"]
  BY DEF Init
<1>2. /\ s.state = "HELLO_REQUEST" /\ s.tin = NoKey /\ s.tout = NoKey /\ s.tr = <<>>
      /\ s.hrr = FALSE /\ s.early_accepted = FALSE /\ s.discard = "NO_DISCARD" /\ s.total = 0
      /\ s.certificate_request_sent = FALSE /\ s.mode = "none"
  BY DEF Init
<1>3. net.client = <<>> /\ net.server = <<>> /\ out.client = <<>> /\ out.server = <<>>
  BY DEF Init, Endpoints
<1>4. ToClient = <<>> /\ ToServer = <<>> /\ Len(<<>>) = 0 /\ 1 .. 0 = {}
  BY <1>3, SingleIs, ConcatIs DEF ToClient, ToServer
<1>5. failed.client = "no" /\ failed.server = "no"
  BY <1>1 DEF Endpoints
<1>6. ~HashedAlone /\ Heard = <<>> /\ HelloPlace = 1 /\ HelloUnread /\ ~HelloSent
  BY <1>1, <1>2 DEF HashedAlone, Heard, HelloPlace, HelloUnread, HelloSent
<1>7. s.mode \notin PskModes
  BY <1>2 DEF PskModes
<1>8. FlightEnd = 6
  BY <1>2, <1>6, <1>7 DEF FlightEnd, Asked
<1>9. /\ s.state \notin ServerKeyed \cup ServerSecond \cup ServerTickets \cup ServerDone
      /\ s.state \in ServerBegins
      /\ c.state \notin ClientKeyed \cup ClientSecond \cup ClientDone
      /\ c.state \in ClientBegins \ {"SERVER_HELLO"}
  BY <1>1, <1>2 DEF ServerKeyed, ServerSecond, ServerDone, ServerTickets, ServerBegins, ClientKeyed,
                    ClientSecond, ClientDone, ClientBegins
<1>10. ValuesAreKnown
  BY <1>1, <1>2, <1>9 DEF ValuesAreKnown
<1>11. Streams /\ TranscriptsAgree
  BY <1>1, <1>2, <1>4, <1>6, EmptyStream DEF Streams, TranscriptsAgree
<1>12. ServerPlace
  BY <1>2, <1>4, <1>6, <1>7, <1>9 DEF ServerPlace
<1>13. ClientPlace
  BY <1>1, <1>4, <1>6, <1>9 DEF ClientPlace
<1>14. Turns
  BY <1>1, <1>2, <1>4, <1>6, <1>8, <1>9 DEF Turns
<1>15. MessagesAreRight
  BY <1>2, <1>4, <1>6 DEF MessagesAreRight
<1>16. ServerParameters /\ ClientParameters
  BY <1>1, <1>2, <1>6, <1>9 DEF ServerParameters, ClientParameters
<1>17. ServerKeys /\ ClientKeys
  BY <1>1, <1>2, <1>9 DEF ServerKeys, ClientKeys
<1>18. RecordsHaveKeys /\ EarlyComesFirst /\ EarlyIsAwaited
  BY <1>4 DEF RecordsHaveKeys, EarlyComesFirst, EarlyIsAwaited
<1>19. DiscardIsRight
  BY <1>2, <1>6, <1>9 DEF DiscardIsRight
<1>20. EarlyIsCounted
  BY <1>1, <1>2, <1>4, BoundsAreNatural DEF EarlyIsCounted
<1>21. FailuresAreKnown /\ BadMacIsExpected
  BY <1>5 DEF FailuresAreKnown, BadMacIsExpected
<1> QED
  BY <1>10, <1>11, <1>12, <1>13, <1>14, <1>15, <1>16, <1>17, <1>18, <1>19, <1>20, <1>21
     DEF FlowInv, Places

\* Every step keeps what is expected.
LEMMA FlowNext ==
    ASSUME TlsInv, TlsInv', EarlyInv, FlowInv, [Next]_vars
    PROVE  FlowInv'
<1>1. CASE ClientStep
  BY <1>1, ClientStepFlow
<1>2. CASE ServerStep
  BY <1>2, ServerStepFlow
<1>3. CASE \E e \in Endpoints : CommonStep(e) \/ Flush(e)
  BY <1>3, CommonFlow
<1>4. CASE \E taken \in BOOLEAN : WriteEarlyData(taken)
  BY <1>4, WriteEarlyDataFlow
<1>5. CASE UNCHANGED vars
  <2>1. UNCHANGED <<conf, c, s, out, net, app, failed>>
    BY <1>5 DEF vars
  <2>2. QueuesStay
    BY <2>1 DEF QueuesStay, ToClient, ToServer
  <2> QED
    BY <2>1, <2>2, FlowStutters
<1> QED
  BY <1>1, <1>2, <1>3, <1>4, <1>5 DEF Next

-----------------------------------------------------------------------------
(* The limit of early data.                                                *)

\* Padding has no key, and is sent before the client has one, so the server
\* never counts it as early data.
PaddingIsPlain ==
    \A k \in 1 .. Len(ToServer) : IsPadding(ToServer[k], ToServer[k].key) => ToServer[k].key = NoKey

PaddingIsFirst ==
    /\ c.state = "CLIENT_CCS_AFTER_SERVER_FINISHED" => conf.compat
    /\ c.state \in {"SERVER_HELLO", "CLIENT_CCS_AFTER_SERVER_FINISHED"} \cup ClientKeyed
           /\ conf.compat /\ c.tout # NoKey => c.ccs_sent

LimitInv ==
    /\ ItemsAreCounted /\ LimitIsSet /\ LimitIsReached
    /\ PaddingIsPlain /\ PaddingIsFirst

\* Padding stays plain if a record that is sent is none, or plain.
LEMMA PaddingStaysPlain ==
    ASSUME QueuesAreSeqs, PaddingIsPlain,
           \/ ToServer' = ToServer
           \/ \E r : ToServer' = Append(ToServer, r) /\ (r.type = "change_cipher_spec" => r.key = NoKey)
           \/ ToServer # <<>> /\ ToServer' = Tail(ToServer)
    PROVE  PaddingIsPlain'
<1> SUFFICES ASSUME NEW k \in 1 .. Len(ToServer'), ToServer'[k].type = "change_cipher_spec"
             PROVE  ToServer'[k].key = NoKey
  BY DEF PaddingIsPlain, IsPadding
<1>1. IsSeq(ToServer) /\ \A j \in 1 .. Len(ToServer) :
                             ToServer[j].type = "change_cipher_spec" => ToServer[j].key = NoKey
  BY QueuesAre DEF PaddingIsPlain, IsPadding
<1>2. CASE ToServer' = ToServer
  BY <1>1, <1>2
<1>3. ASSUME NEW r, ToServer' = Append(ToServer, r), r.type = "change_cipher_spec" => r.key = NoKey
      PROVE  ToServer'[k].key = NoKey
  BY <1>1, <1>3, GainsLast
<1>4. CASE ToServer # <<>> /\ ToServer' = Tail(ToServer)
  BY <1>1, <1>4, LosesFirst
<1> QED
  BY <1>2, <1>3, <1>4

\* The client sends its padding, if any, before it has a key.
LEMMA ClientStepPads ==
    ASSUME TlsInv, EarlyInv, FlowInv, LimitInv, ClientStep
    PROVE  PaddingIsPlain' /\ PaddingIsFirst' /\ conf' = conf
<1> DEFINE Quiet == \/ ToServer' = ToServer
                    \/ \E m, key : ClientSays(m, key)
                    \/ ClientPads /\ c.tout = NoKey
           Early == {"SERVER_HELLO", "CLIENT_CCS_AFTER_SERVER_FINISHED"} \cup ClientKeyed
<1>1. QueuesAreSeqs /\ ClientKeys /\ ClientParameters /\ PaddingIsFirst /\ PaddingIsPlain
  BY DEF TlsInv, FlowInv, LimitInv
<1>2. ASSUME Quiet
      PROVE  PaddingIsPlain'
  <2>1. ASSUME NEW m, NEW key, ClientSays(m, key)
        PROVE  \E r : ToServer' = Append(ToServer, r) /\ (r.type = "change_cipher_spec" => r.key = NoKey)
    BY <2>1 DEF ClientSays, IsMessage
  <2>2. CASE ClientPads /\ c.tout = NoKey
    BY <1>1, <2>2, PaddingStaysPlain DEF ClientPads, IsPadding
  <2> QED
    BY <1>1, <1>2, <2>1, <2>2, PaddingStaysPlain
<1>3. ASSUME ClientIsAlone, Quiet, c'.state \notin Early
      PROVE  PaddingIsPlain' /\ PaddingIsFirst' /\ conf' = conf
  BY <1>2, <1>3 DEF ClientIsAlone, PaddingIsFirst
<1>4. ASSUME ClientIsAlone, ToServer' = ToServer, NEW F, ClientChanges(F), "tout" \notin F, "ccs_sent" \notin F,
             c.state \in {"SERVER_HELLO"} \cup ClientKeyed,
             c'.state = "CLIENT_CCS_AFTER_SERVER_FINISHED" => conf.compat
      PROVE  PaddingIsPlain' /\ PaddingIsFirst' /\ conf' = conf
  <2>1. c'.tout = c.tout /\ c'.ccs_sent = c.ccs_sent
    BY <1>4 DEF ClientChanges, ClientFields
  <2> QED
    BY <1>1, <1>2, <1>4, <2>1 DEF ClientIsAlone, PaddingIsFirst
<1> HIDE DEF Quiet
<1>5. CASE WriteClientHello
  <2>1. c.tout = NoKey /\ (c.hrr => c.early # "IND_SENT")
    BY <1>1, <1>5 DEF WriteClientHello, CanStep, Context, ClientKeys, ClientBegins, ClientParameters
  <2>2. /\ ClientIsAlone /\ Quiet /\ c'.state \in {"SERVER_HELLO", "CLIENT_CCS_AFTER_CLIENT_HELLO"}
        /\ c'.tout = NoKey \/ ~conf.compat
    BY <1>5, <2>1, WriteClientHelloDoes DEF Quiet
  <2> QED
    BY <1>2, <2>2 DEF ClientIsAlone, PaddingIsFirst
<1>6. CASE ClientCcsAfterClientHello
  <2>1. /\ c.state = "CLIENT_CCS_AFTER_CLIENT_HELLO" /\ c'.state = "SERVER_HELLO"
        /\ ClientIsAlone /\ ClientPads /\ c'.ccs_sent
    BY <1>6, ClientCcsAfterClientHelloDoes
  <2> QED
    BY <1>1, <1>2, <2>1 DEF ClientKeys, ClientBegins, ClientIsAlone, PaddingIsFirst, Quiet
<1>7. CASE ProcessHelloRetryRequest \/ ClientCcsBefore2ndClientHello
  <2>1. /\ ClientIsAlone /\ c'.state \in {"CLIENT_CCS_BEFORE_2ND_CLIENT_HELLO", "CLIENT_HELLO"}
        /\ ToServer' = ToServer \/ (c.state = "CLIENT_CCS_BEFORE_2ND_CLIENT_HELLO" /\ ClientPads)
    BY <1>7, ProcessHelloRetryRequestDoes, ClientCcsBefore2ndClientHelloDoes DEF ClientHears
  <2> QED
    BY <1>1, <1>3, <2>1 DEF ClientKeys, ClientBegins, ClientKeyed, Quiet
<1>8. CASE ProcessServerHello
  BY <1>4, <1>8, ProcessServerHelloDoes DEF ClientHears, ClientKeyed
<1>9. CASE \/ ProcessEncryptedExtensions \/ ProcessCertificateRequest
           \/ ProcessServerCertificateVerify \/ ProcessServerFinished
  <2>1. /\ ClientIsAlone /\ ToServer' = ToServer /\ c.state \in ClientKeyed
        /\ ClientChanges({"state", "tr", "early", "client_auth", "application_key"})
        /\ c'.state = "CLIENT_CCS_AFTER_SERVER_FINISHED" => conf.compat
    <3>1. CASE ProcessEncryptedExtensions
      BY <3>1, ProcessEncryptedExtensionsDoes DEF ClientHears, ClientKeyed, ClientChanges
    <3>2. CASE ProcessCertificateRequest
      BY <3>2, ProcessCertificateRequestDoes DEF ClientHears, ClientKeyed, ClientChanges, QueuesStay
    <3>3. CASE ProcessServerCertificateVerify
      BY <3>3, ProcessServerCertificateVerifyDoes DEF ClientHears, ClientKeyed, ClientChanges
    <3>4. CASE ProcessServerFinished
      BY <3>4, ProcessServerFinishedDoes DEF ClientHears, ClientKeyed, ClientChanges
    <3> QED
      BY <1>9, <3>1, <3>2, <3>3, <3>4
  <2> QED
    BY <1>4, <2>1
<1>10. CASE ProcessServerCertificate
  <2>1. ASSUME NEW why, Refuses("client", why)
        PROVE  PaddingIsPlain' /\ PaddingIsFirst' /\ conf' = conf
    <3>1. net.client # <<>> /\ c' = c /\ conf' = conf /\ out' = out /\ Consume("client")
      BY <1>10, <2>1 DEF ProcessServerCertificate, Receives, Reading, Refuses, GivesUp
    <3>2. ToServer' = ToServer
      BY <1>1, <3>1, ClientConsumes
    <3> QED
      BY <1>1, <1>2, <3>1, <3>2 DEF Quiet, PaddingIsFirst
  <2>2. CASE /\ c.state = "SERVER_CERTIFICATE" /\ c'.state = "CERTIFICATE_VERIFY"
             /\ ClientIsAlone /\ ClientHears(c.tr)
             /\ ClientChanges({"state", "tr", "peer_cert"})
    BY <1>4, <2>2 DEF ClientHears, ClientKeyed
  <2> QED
    BY <1>10, <2>1, <2>2, ProcessServerCertificateDoes
<1>11. CASE ClientCcsAfterServerFinished
  <2>1. /\ c.state = "CLIENT_CCS_AFTER_SERVER_FINISHED" /\ c'.state = "CLIENT_CERTIFICATE"
        /\ ClientIsAlone /\ ClientPads /\ (c.ccs_sent => ToServer' = ToServer)
    BY <1>11, ClientCcsAfterServerFinishedDoes
  <2>2. Quiet
    BY <1>1, <2>1 DEF PaddingIsFirst, Quiet
  <2> QED
    BY <1>3, <2>1, <2>2 DEF ClientKeyed
<1>12. CASE \/ WriteEndOfEarlyData \/ WriteClientCertificate \/ WriteClientCertificateVerify
            \/ WriteClientFinished \/ ClientFlushBuffers \/ ClientHandshakeWrapup \/ ProcessNewSessionTicket
  <2>1. /\ ClientIsAlone /\ Quiet
        /\ c'.state \in {"CLIENT_CERTIFICATE", "CLIENT_CERTIFICATE_VERIFY", "CLIENT_FINISHED"} \cup ClientDone
    <3>1. CASE WriteEndOfEarlyData
      BY <3>1, WriteEndOfEarlyDataDoes DEF Quiet
    <3>2. CASE WriteClientCertificate
      BY <3>2, WriteClientCertificateDoes DEF Quiet, QueuesStay
    <3>3. CASE WriteClientCertificateVerify \/ WriteClientFinished
      BY <3>3, WriteClientCertificateVerifyDoes, WriteClientFinishedDoes DEF Quiet, ClientDone
    <3>4. CASE ClientFlushBuffers \/ ClientHandshakeWrapup
      BY <3>4, ClientWrapupDoes DEF Quiet, QueuesStay, ClientDone
    <3>5. CASE ProcessNewSessionTicket
      BY <3>5, ProcessNewSessionTicketDoes DEF Quiet, ClientDone, ClientChanges, ClientFields
    <3> QED
      BY <1>12, <3>1, <3>2, <3>3, <3>4, <3>5
  <2> QED
    BY <1>3, <2>1 DEF ClientKeyed, ClientDone
<1> QED
  BY <1>5, <1>6, <1>7, <1>8, <1>9, <1>10, <1>11, <1>12 DEF ClientStep

\* The server counts and decides on early data nowhere else.
LEMMA ServerKeepsLimit ==
    ASSUME TlsInv, EarlyInv, FlowInv, ServerStep, ~SkipEarlyData, ~ReadEarlyData, ~ProcessClientHello
    PROVE  /\ conf' = conf /\ s'.total = s.total /\ s'.early_accepted = s.early_accepted
           /\ s'.limit = s.limit /\ s'.discard \in {s.discard, "NO_DISCARD"}
           /\ OverLimit' => OverLimit
<1> DEFINE Kept == /\ conf' = conf /\ s'.total = s.total /\ s'.early_accepted = s.early_accepted
                   /\ s'.limit = s.limit /\ s'.discard \in {s.discard, "NO_DISCARD"}
                   /\ OverLimit' => OverLimit
<1>1. ASSUME ServerIsAlone, NEW F, ServerChanges(F), s'.discard \in {s.discard, "NO_DISCARD"},
             "total" \notin F, "early_accepted" \notin F, "limit" \notin F
      PROVE  Kept
  BY <1>1 DEF ServerIsAlone, ServerChanges, ServerFields, OverLimit
<1>2. ASSUME ServerIsAlone, NEW F, ServerChanges(F), "discard" \notin F,
             "total" \notin F, "early_accepted" \notin F, "limit" \notin F
      PROVE  Kept
  <2>1. s'.discard = s.discard
    BY <1>2 DEF ServerChanges, ServerFields
  <2> QED
    BY <1>1, <1>2, <2>1
<1>3. ASSUME NEW why, GivesUp("server", why), why # "early data limit"
      PROVE  Kept
  BY <1>3 DEF GivesUp, OverLimit, TlsInv, QueuesAreSeqs, Endpoints
<1> SUFFICES Kept
  OBVIOUS
<1> HIDE DEF Kept
<1>4. CASE ServerCcsAfterHelloRetryRequest \/ ServerCcsAfterServerHello
  BY <1>2, <1>4, ServerCcsAfterHelloRetryRequestDoes, ServerCcsAfterServerHelloDoes
<1>5. CASE WriteHelloRetryRequest
  <2>1. CASE s.hrr \/ CommonGroups(s.groups) = {}
    BY <1>3, <1>5, <2>1, NoGroupIsCommon
  <2>2. CASE ~s.hrr /\ CommonGroups(s.groups) # {}
    BY <1>2, <1>5, <2>2, WriteHelloRetryRequestDoes
  <2> QED
    BY <2>1, <2>2
<1>6. CASE WriteServerHello \/ WriteEncryptedExtensions \/ WriteServerCertificateVerify
  BY <1>2, <1>6, WriteServerHelloDoes, WriteEncryptedExtensionsDoes, WriteServerCertificateVerifyDoes
<1>7. CASE WriteCertificateRequest
  BY <1>2, <1>7, WriteCertificateRequestDoes
<1>8. CASE WriteServerCertificate
  <2>1. CASE conf.s_cert = "none"
    BY <1>3, <1>8, <2>1, NoCertificateIsThere
  <2>2. CASE conf.s_cert # "none"
    BY <1>2, <1>8, <2>2, WriteServerCertificateDoes
  <2> QED
    BY <2>1, <2>2
<1>9. CASE WriteServerFinished \/ ProcessEndOfEarlyData \/ ProcessClientCertificateVerify
  BY <1>2, <1>9, WriteServerFinishedDoes, ProcessEndOfEarlyDataDoes, ProcessClientCertificateVerifyDoes
<1>10. CASE ProcessClientCertificate
  <2>1. CASE /\ s.state = "CLIENT_CERTIFICATE" /\ ServerIsAlone /\ ServerHears
             /\ s'.state = IF conf.c_cert = "none" THEN "CLIENT_FINISHED"
                           ELSE "CLIENT_CERTIFICATE_VERIFY"
             /\ ServerChanges({"state", "tr", "peer_cert", "discard"})
             /\ s'.discard = "NO_DISCARD"
    BY <1>1, <2>1
  <2>2. CASE Refuses("server", "peer certificate")
    BY <1>3, <2>2 DEF Refuses
  <2> QED
    BY <1>10, <2>1, <2>2, ProcessClientCertificateDoes
<1>11. CASE ProcessClientFinished
  BY <1>1, <1>11, ProcessClientFinishedDoes
<1>12. CASE ServerHandshakeWrapup \/ ServerNewSessionTicketFlush
  BY <1>2, <1>12, ServerWrapupDoes
<1>13. CASE WriteNewSessionTicket
  BY <1>2, <1>13, WriteNewSessionTicketDoes
<1> QED
  BY <1>4, <1>5, <1>6, <1>7, <1>8, <1>9, <1>10, <1>11, <1>12, <1>13 DEF ServerStep

\* The server counts an item it skips, or skips no more.
LEMMA SkipEarlyDataLimit ==
    ASSUME TlsInv, EarlyInv, FlowInv, LimitInv, SkipEarlyData
    PROVE  LimitInv'
<1>1. /\ failed.server = "no" /\ net.server # <<>> /\ QueuesAreSeqs /\ DOMAIN failed = Endpoints
      /\ DOMAIN s = ServerFields /\ ItemsAreNumbers /\ IsSkipped("server", Head(net.server))
  BY DEF SkipEarlyData, Reading, TlsInv, ServerSide, EarlyInv, QueuesAreSeqs
<1>2. /\ ToServer # <<>> /\ IsEarlyRecord(ToServer[1]) /\ ~s.early_accepted
  BY SkipEarlyDataDoes
<1>3. IsItem(ToServer[1])
  <2>1. ClientRecordHasKey(ToServer[1]) /\ 1 \in 1 .. Len(ToServer)
    <3>1. Len(ToServer) \in Nat \ {0}
      BY <1>1, <1>2, QueuesAre, TailIs
    <3> QED
      BY <3>1 DEF FlowInv, RecordsHaveKeys
  <2> QED
    BY <1>2, <2>1 DEF LimitInv, PaddingIsPlain, IsPadding, ClientRecordHasKey, IsEarlyRecord, IsItem
<1>4. EarlyDataCost = 1 + Overhead
  BY <1>2 DEF EarlyDataCost
<1>5. Consume("server") /\ UNCHANGED <<conf, c, out, app>>
  BY DEF SkipEarlyData, Refuses, GivesUp
<1>6. ToServer' = Tail(ToServer)
  BY <1>1, <1>5, ServerConsumes
<1>7. PaddingIsPlain' /\ PaddingIsFirst'
  BY <1>1, <1>2, <1>5, <1>6, PaddingStaysPlain DEF LimitInv, PaddingIsFirst
<1>8. CASE FitsEarlyLimit(1 + Overhead)
  <2>1. s' = [s EXCEPT !.total = @ + (1 + Overhead)] /\ failed' = failed
    BY <1>8 DEF SkipEarlyData
  <2>2. /\ s'.total = s.total + EarlyDataCost /\ s'.early_accepted = s.early_accepted
        /\ s'.limit = s.limit /\ s'.discard = s.discard
    BY <1>1, <1>4, <2>1 DEF ServerFields
  <2>3. LimitIsSet' /\ LimitIsReached' /\ EarlyDataSent' = EarlyDataSent
    BY <1>5, <2>1, <2>2, LimitStays DEF LimitInv, LimitIsReached, OverLimit
  <2>4. ItemsAreCounted'
    BY <1>1, <1>2, <1>3, <1>6, <2>2, <2>3, CountGrows DEF LimitInv
  <2> QED
    BY <1>7, <2>3, <2>4 DEF LimitInv
<1>9. CASE ~FitsEarlyLimit(1 + Overhead)
  <2>1. s' = s
    BY <1>9 DEF SkipEarlyData, Refuses, GivesUp
  <2>2. s.discard # "NO_DISCARD"
    BY <1>1 DEF IsSkipped
  <2>3. EarlyDataSent * EarlyDataCost > EarlyDataLimit
    BY <1>1, <1>2, <1>3, <1>4, <1>9, <2>2, LimitIsPassed DEF LimitInv, LimitIsSet
  <2>4. LimitIsReached'
    BY <1>5, <2>1, <2>3, LimitStays DEF LimitIsReached
  <2>5. ItemsAreCounted' /\ LimitIsSet'
    BY <1>1, <1>2, <1>5, <1>6, <2>1, LimitFrame DEF LimitInv
  <2> QED
    BY <1>7, <2>4, <2>5 DEF LimitInv
<1> QED
  BY <1>8, <1>9

\* The server counts an item its application reads, or reads no more.
LEMMA ReadEarlyDataLimit ==
    ASSUME TlsInv, EarlyInv, FlowInv, LimitInv, ReadEarlyData
    PROVE  LimitInv'
<1>1. /\ failed.server = "no" /\ net.server # <<>> /\ QueuesAreSeqs /\ ItemsAreNumbers
      /\ DOMAIN s = ServerFields
  BY DEF ReadEarlyData, Reading, TlsInv, ServerSide, EarlyInv
<1>2. ToServer # <<>> /\ IsItem(ToServer[1]) /\ s.early_accepted
  BY ReadEarlyDataDoes
<1>3. EarlyDataCost = 1 /\ s.limit = MaxEarly
  BY <1>2 DEF EarlyDataCost, FlowInv, ServerParameters
<1>4. Consume("server") /\ UNCHANGED <<conf, c, out>>
  BY DEF ReadEarlyData, Refuses, GivesUp
<1>5. ToServer' = Tail(ToServer)
  BY <1>1, <1>4, ServerConsumes
<1>6. PaddingIsPlain' /\ PaddingIsFirst'
  BY <1>1, <1>2, <1>4, <1>5, PaddingStaysPlain DEF LimitInv, PaddingIsFirst
<1>7. CASE FitsEarlyLimit(1)
  <2>1. /\ s' = [s EXCEPT !.total = @ + 1] /\ failed' = failed
        /\ app' = [app EXCEPT !.received = Append(@, Head(net.server).item)]
    BY <1>7 DEF ReadEarlyData
  <2>2. /\ s'.total = s.total + EarlyDataCost /\ s'.early_accepted = s.early_accepted
        /\ s'.limit = s.limit /\ s'.discard = s.discard
        /\ app'.next = app.next /\ app'.retried = app.retried
    BY <1>1, <1>3, <2>1 DEF ServerFields, ItemsAreNumbers
  <2>3. LimitIsSet' /\ LimitIsReached' /\ EarlyDataSent' = EarlyDataSent
    BY <1>4, <2>1, <2>2, LimitStays DEF LimitInv, LimitIsReached, OverLimit
  <2>4. ItemsAreCounted'
    BY <1>1, <1>2, <1>5, <2>2, <2>3, CountGrows DEF LimitInv
  <2> QED
    BY <1>6, <2>3, <2>4 DEF LimitInv
<1>8. CASE ~FitsEarlyLimit(1)
  <2>1. s' = s /\ app' = app
    BY <1>8 DEF ReadEarlyData, Refuses, GivesUp
  <2>2. EarlyDataSent * EarlyDataCost > EarlyDataLimit
    BY <1>1, <1>2, <1>3, <1>8, LimitIsPassed DEF LimitInv
  <2>3. LimitIsReached'
    BY <1>4, <2>1, <2>2, LimitStays DEF LimitIsReached
  <2>4. ItemsAreCounted' /\ LimitIsSet'
    BY <1>1, <1>2, <1>4, <1>5, <2>1, LimitFrame DEF LimitInv
  <2> QED
    BY <1>6, <2>3, <2>4 DEF LimitInv
<1> QED
  BY <1>7, <1>8

\* The server decides on early data before it counted any.
LEMMA ProcessClientHelloLimit ==
    ASSUME TlsInv, EarlyInv, FlowInv, LimitInv, ProcessClientHello
    PROVE  LimitInv'
<1>1. /\ QueuesAreSeqs /\ DOMAIN failed = Endpoints /\ ItemsAreNumbers /\ LimitIsReached
  BY DEF TlsInv, QueuesAreSeqs, EarlyInv, LimitInv
<1>2. /\ c' = c /\ app' = app /\ conf' = conf
      /\ ToServer # <<>> /\ ToServer' = Tail(ToServer)
  <2>1. net.server # <<>> /\ Consume("server") /\ UNCHANGED <<conf, c, out, app>>
    BY DEF ProcessClientHello, ServerReads, Refuses, GivesUp, Receives, Reading
  <2> QED
    BY <1>1, <2>1, ServerConsumes
<1>3. PaddingIsPlain' /\ PaddingIsFirst'
  BY <1>1, <1>2, PaddingStaysPlain DEF LimitInv, PaddingIsFirst
<1>4. CASE Refuses("server", "key exchange")
  <2>1. s' = s /\ ~OverLimit'
    BY <1>1, <1>4 DEF Refuses, GivesUp, OverLimit, Endpoints
  <2> QED
    BY <1>1, <1>2, <1>3, <2>1, LimitFrame DEF LimitInv
<1>5. ASSUME NEW m, s.state = "CLIENT_HELLO" /\ ServerIsAlone, ServerChanges(HelloChanges), EarlyDecided(m),
             ~m.early => s'.discard = "NO_DISCARD", m.early /\ 1 \in SharedPsks => s'.limit = MaxEarly
      PROVE  LimitInv'
  <2>1. SharedPsks' = SharedPsks
    BY <1>2 DEF SharedPsks, ServerKnows, ClientPsks, TicketModes
  <2>2. LimitIsSet'
    BY <1>5, <2>1 DEF LimitIsSet
  <2>3. s'.total = s.total
    BY <1>5 DEF ServerChanges, HelloChanges, ServerFields
  <2>4. ~s.early_accepted /\ (s'.early_accepted => s.total = 0)
    BY <1>5 DEF EarlyInv, AcceptanceIsRight, ServerBegins, EarlyDecided, FlowInv, ServerParameters, HelloUnread
  <2>5. ItemsAreCounted'
    BY <1>1, <1>2, <2>3, <2>4, CountStays DEF LimitInv
  <2>6. ~OverLimit'
    BY <1>5 DEF ServerIsAlone, OverLimit
  <2> QED
    BY <1>3, <2>2, <2>5, <2>6 DEF LimitInv, LimitIsReached
<1> QED
  BY <1>4, <1>5, ProcessClientHelloDoes

\* What any endpoint may do counts nothing.
LEMMA CommonLimit ==
    ASSUME TlsInv, EarlyInv, FlowInv, LimitInv, NEW e \in Endpoints, CommonStep(e) \/ Flush(e)
    PROVE  LimitInv'
<1>1. QueuesAreSeqs /\ ItemsAreNumbers /\ DOMAIN failed = Endpoints
  BY DEF TlsInv, QueuesAreSeqs, EarlyInv
<1>2. ASSUME conf' = conf, app' = app, c' = c \/ c'.state = "CLIENT_HELLO",
             s'.total = s.total, s'.early_accepted = s.early_accepted,
             s'.limit = s.limit, s'.discard = s.discard, OverLimit' => OverLimit,
             ToServer' = ToServer \/ (ToServer # <<>> /\ ToServer' = Tail(ToServer))
      PROVE  LimitInv'
  BY <1>1, <1>2, LimitFrame, PaddingStaysPlain DEF LimitInv, PaddingIsFirst, ClientKeyed
<1>3. CASE HelloRequest(e)
  BY <1>2, <1>3, HelloRequestDoes
     DEF QueuesStay, ClientIsAlone, ServerIsAlone, ServerChanges, ServerFields, OverLimit
<1>4. CASE DropCcs(e)
  BY <1>2, <1>4, DropCcsDoes DEF OverLimit, Endpoints
<1>5. ASSUME NEW why, net[e] # <<>>, Refuses(e, why), why # "early data limit"
      PROVE  LimitInv'
  <2>1. UNCHANGED <<conf, c, s, app, out>> /\ Consume(e) /\ (OverLimit' => OverLimit)
    BY <1>1, <1>5 DEF Refuses, GivesUp, OverLimit, Endpoints
  <2>2. ToServer' = ToServer \/ (ToServer # <<>> /\ ToServer' = Tail(ToServer))
    BY <1>1, <1>5, <2>1, ClientConsumes, ServerConsumes DEF Endpoints
  <2> QED
    BY <1>2, <2>1, <2>2
<1>6. CASE RefuseRecord(e)
  <2>1. \E why \in {"unexpected message", "bad mac"} : net[e] # <<>> /\ Refuses(e, why)
    BY <1>6 DEF RefuseRecord, Reading
  <2>2. \A why \in {"unexpected message", "bad mac"} : why # "early data limit"
    OBVIOUS
  <2> QED
    BY <1>5, <2>1, <2>2, Zenon
<1>7. CASE PeerIsGone(e)
  <2>1. UNCHANGED <<conf, c, s, app, out, net>> /\ (OverLimit' => OverLimit)
    BY <1>1, <1>7 DEF PeerIsGone, GivesUp, OverLimit, Endpoints
  <2> QED
    BY <1>1, <1>2, <2>1, NothingMoves
<1>8. CASE Flush(e)
  <2>1. UNCHANGED <<conf, c, s, app, failed>> /\ ToServer' = ToServer
    BY <1>1, <1>8, FlushMovesNothing DEF Flush
  <2> QED
    BY <1>2, <2>1 DEF OverLimit
<1> QED
  BY <1>3, <1>4, <1>6, <1>7, <1>8 DEF CommonStep

\* The server gives up only beyond the limit.
LEMMA LimitNext ==
    ASSUME TlsInv, EarlyInv, FlowInv, LimitInv, [Next]_vars
    PROVE  LimitInv'
<1>1. QueuesAreSeqs /\ ItemsAreNumbers
  BY DEF TlsInv, EarlyInv
<1>2. CASE ClientStep
  <2>1. PaddingIsPlain' /\ PaddingIsFirst' /\ conf' = conf
    BY <1>2, ClientStepPads
  <2>2. s' = s /\ app' = app /\ (OverLimit' => OverLimit)
    BY <1>2, ClientEarlyState DEF OverLimit
  <2>3. ToServer' = ToServer \/ \E r : ToServer' = Append(ToServer, r) /\ ~IsItem(r)
    BY <1>2, ClientStream
  <2> QED
    BY <1>1, <2>1, <2>2, <2>3, LimitFrame DEF LimitInv
<1>3. CASE ServerStep /\ ~SkipEarlyData /\ ~ReadEarlyData /\ ~ProcessClientHello
  <2>1. /\ c' = c /\ app' = app
        /\ ToServer' = ToServer \/ (ToServer # <<>> /\ ToServer' = Tail(ToServer))
    BY <1>3, ServerStream
  <2>2. PaddingIsPlain' /\ PaddingIsFirst'
    BY <1>1, <1>3, <2>1, PaddingStaysPlain, ServerKeepsLimit DEF LimitInv, PaddingIsFirst
  <2> QED
    BY <1>1, <1>3, <2>1, <2>2, LimitFrame, ServerKeepsLimit DEF LimitInv
<1>4. CASE SkipEarlyData \/ ReadEarlyData \/ ProcessClientHello
  BY <1>4, SkipEarlyDataLimit, ReadEarlyDataLimit, ProcessClientHelloLimit
<1>5. ASSUME NEW taken \in BOOLEAN, WriteEarlyData(taken)
      PROVE  LimitInv'
  <2>1. /\ UNCHANGED <<conf, s, failed>> /\ ToServer' = Append(ToServer, DataRecord(c, app.next))
        /\ c'.state = c.state /\ c'.tout = c.tout /\ c'.ccs_sent = c.ccs_sent
    BY <1>5, WriteEarlyDataDoes DEF ClientChanges, ClientFields
  <2>2. PaddingIsPlain' /\ PaddingIsFirst'
    BY <1>1, <2>1, PaddingStaysPlain DEF LimitInv, PaddingIsFirst, DataRecord
  <2>3. /\ ItemsAreCounted' /\ EarlyDataSent' = EarlyDataSent + 1 /\ EarlyDataCost' = EarlyDataCost
    BY <1>1, <1>5, CountOfWritten DEF LimitInv
  <2>4. SharedPsks' = SharedPsks
    BY <2>1 DEF SharedPsks, ServerKnows, ClientPsks, TicketModes
  <2>5. LimitIsSet' /\ EarlyDataLimit' = EarlyDataLimit
    BY <2>1, <2>4 DEF LimitInv, LimitIsSet, EarlyDataLimit
  <2>6. EarlyDataSent * EarlyDataCost <= (EarlyDataSent + 1) * EarlyDataCost
    BY <1>1, AmountsAre, CostGrows
  <2>7. /\ EarlyDataLimit \in Nat /\ EarlyDataSent * EarlyDataCost \in Nat
        /\ (EarlyDataSent + 1) * EarlyDataCost \in Nat
    BY <1>1, AmountsAre
  <2>8. OverLimit' = OverLimit
    BY <2>1 DEF OverLimit
  <2>9. LimitIsReached /\ LimitIsReached'
    BY <1>1, <2>3, <2>5, <2>6, <2>7, <2>8 DEF LimitInv, LimitIsReached
  <2> QED
    BY <2>2, <2>3, <2>5, <2>9 DEF LimitInv
<1>6. CASE UNCHANGED vars
  BY <1>6 DEF vars, LimitInv, ItemsAreCounted, LimitIsSet, LimitIsReached, OverLimit, PaddingIsPlain,
     PaddingIsFirst, ToServer, EarlyDataSent, EarlyDataCost, EarlyDataLimit, SharedPsks, ServerKnows,
     ClientPsks, TicketModes
<1> QED
  BY <1>2, <1>3, <1>4, <1>5, <1>6, CommonLimit DEF Next

\* At first nothing is sent or counted.
LEMMA LimitInit ==
    ASSUME Init
    PROVE  LimitInv
<1>1. /\ c.state = "HELLO_REQUEST" /\ s.total = 0 /\ s.discard = "NO_DISCARD"
      /\ app = [next |-> 1, retried |-> {}, received |-> <<>>] /\ failed.server = "no"
      /\ net.server = <<>> /\ out.client = <<>>
  BY DEF Init, Endpoints
<1>2. ToServer = <<>> /\ Len(ToServer) = 0
  BY <1>1, SingleIs, ConcatIs DEF ToServer
<1>3. EarlyDataSent = 0 /\ EarlyDataCost \in Nat
  BY <1>1, FS_EmptySet, BoundsAreNatural DEF EarlyDataSent, EarlyDataCost
<1>4. Numbered(ToServer, 0, 0)
  <2>1. [k \in 1..Len(ToServer) |-> 0] \in [1..Len(ToServer) -> Nat]
    OBVIOUS
  <2>2. 1..Len(ToServer) = {} /\ 0 <= 0
    BY <1>2
  <2> QED
    BY <2>1, <2>2, Zenon DEF Numbered, Numbers
<1>5. ItemsAreCounted
  BY <1>1, <1>3, <1>4 DEF ItemsAreCounted
<1> QED
  BY <1>1, <1>2, <1>5
     DEF LimitInv, LimitIsSet, LimitIsReached, OverLimit, PaddingIsPlain, PaddingIsFirst, ClientKeyed

\* OnlyExpectedFailures: whatever the configurations and however the records are
\* delivered, an endpoint refuses nothing its peer says but what the two
\* configurations, or a known defect, account for; and it counts too much early
\* data only when all that was written is beyond the limit of the ticket, which
\* is zero for a server that does not know the ticket or cannot use it.
THEOREM FailuresAreExpected == Spec => []OnlyExpectedFailures
<1>1. Init => FlowInv /\ LimitInv
  BY FlowInit, LimitInit
<1>2. TlsInv /\ TlsInv' /\ EarlyInv /\ FlowInv /\ LimitInv /\ [Next]_vars => FlowInv' /\ LimitInv'
  BY FlowNext, LimitNext
<1>3. FlowInv /\ LimitInv => OnlyExpectedFailures
  BY DEF FlowInv, FailuresAreKnown, LimitInv, LimitIsReached, OverLimit, OnlyExpectedFailures
<1> QED
  BY <1>1, <1>2, <1>3, Invariant, EarlyInvariant, PTL DEF Spec
=============================================================================
