-------------------------- MODULE Tls13Handshake --------------------------
(***************************************************************************)
(* The TLS 1.3 handshake of a client and a server that both run this       *)
(* library (ssl_tls13_client.c, ssl_tls13_server.c, ssl_tls13_generic.c)   *)
(* over a reliable stream, with HelloRetryRequest, pre-shared keys, session*)
(* tickets, client certificates, the dummy ChangeCipherSpec records of the *)
(* compatibility mode and early data.                                      *)
(*                                                                         *)
(* One action is one call of a handler of the state machine: a handler     *)
(* runs only when the output buffer was flushed (ssl_prepare_handshake_step*)
(* of ssl_tls.c) and leaves at most one record in it.  A key is what it is *)
(* derived from, a transcript is the sequence of the messages hashed, and  *)
(* a record can be opened only with the key it was protected with.         *)
(***************************************************************************)
EXTENDS Naturals, Sequences, FiniteSets, SequencesExt

CONSTANTS
    Configs,       \* the pairs of configurations to consider
    MaxEarly,      \* max_early_data_size of the tickets
    Overhead       \* what protection adds to the length of a record

ASSUME BoundsAreNatural == MaxEarly \in Nat /\ Overhead \in Nat

VARIABLES
    conf,          \* the configurations of the two endpoints
    c,             \* the client's mbedtls_ssl_context
    s,             \* the server's mbedtls_ssl_context
    out,           \* out[e]: the record in the output buffer of e, if any
    net,           \* net[e]: the records on their way to e
    app,           \* the early data the applications wrote and read
    failed         \* failed[e]: why e gave up, "no" as long as it did not

vars == <<conf, c, s, out, net, app, failed>>

-----------------------------------------------------------------------------
(* Data.                                                                   *)

Endpoints == {"client", "server"}

Peer(e) == IF e = "client" THEN "server" ELSE "client"

PskModes == {"psk", "psk_ephemeral"}

EphemeralModes == {"ephemeral", "psk_ephemeral"}

\* A client that offers a key exchange has a group for it (otherwise
\* ssl_tls13_get_default_group_id() fails), and the absence of a share is not a
\* group.
ASSUME GroupsAreListed ==
    \A cf \in Configs :
        /\ cf.c_groups \in Seq(STRING)
        /\ cf.c_modes \cap EphemeralModes # {} => cf.c_groups # <<>>
        /\ "none" \notin ToSet(cf.c_groups)

NoKey == [stage |-> "none"]

\* What the key schedule derives at a stage from the PSK and the (EC)DHE
\* secret mixed in so far and the transcript.
Key(stage, psk, dhe, tr) == [stage |-> stage, psk |-> psk, dhe |-> dhe, tr |-> tr]

\* mbedtls_ssl_reset_transcript_for_hrr(): the first ClientHello is replaced
\* by its hash.
TranscriptForHrr(tr) == <<[t |-> "message_hash", of |-> tr]>>

\* The messages whose content depends on the transcript before them: the
\* binders, the signature and the MAC are values over it.
Bound == {"client_hello", "certificate_verify", "finished"}

HandshakeRecord(ep, m) ==
    [type |-> "handshake", key |-> ep.tout, msg |-> m,
     over |-> IF m.t \in Bound THEN ep.tr ELSE <<>>]

CcsRecord(ep) == [type |-> "change_cipher_spec", key |-> ep.tout]

DataRecord(ep, i) == [type |-> "application_data", key |-> ep.tout, item |-> i]

\* The content type in the header of the record: that of a protected record
\* is application_data (mbedtls_ssl_encrypt_buf()).
OuterType(r) == IF r.key = NoKey THEN r.type ELSE "application_data"

\* The tickets' flags: a ticket was issued to a client with the same
\* configuration, for the PSK modes the client advertised.
TicketModes == conf.c_modes \cap PskModes

\* ssl_tls13_write_identities_of_pre_shared_key_ext(): the ticket first, then
\* the configured PSK, if some PSK mode is enabled.
ClientPsks ==
    LET has_ticket == conf.ticket # "none" /\ TicketModes # {}
    IN  IF conf.c_modes \cap PskModes = {} THEN <<>>
        ELSE (IF has_ticket THEN <<"ticket">> ELSE <<>>) \o
             (IF conf.c_psk THEN <<"external">> ELSE <<>>)

\* ssl_tls13_offered_psks_check_identity_match().
ServerKnows(psk) ==
    CASE psk = "ticket" -> conf.ticket = "known"
      [] psk = "external" -> conf.s_psk

-----------------------------------------------------------------------------
(* Reading and writing.                                                    *)

Context(e) == IF e = "client" THEN c ELSE s

\* The messages a state waits for; the states that are absent do not read.
ClientWaits ==
    [SERVER_HELLO |-> {"server_hello"},
     ENCRYPTED_EXTENSIONS |-> {"encrypted_extensions"},
     CERTIFICATE_REQUEST |-> {"certificate_request", "certificate"},
     SERVER_CERTIFICATE |-> {"certificate"},
     CERTIFICATE_VERIFY |-> {"certificate_verify"},
     SERVER_FINISHED |-> {"finished"},
     HANDSHAKE_OVER |-> {"new_session_ticket"}]

ServerWaits ==
    [CLIENT_HELLO |-> {"client_hello"},
     END_OF_EARLY_DATA |-> {"end_of_early_data"},
     CLIENT_CERTIFICATE |-> {"certificate"},
     CLIENT_CERTIFICATE_VERIFY |-> {"certificate_verify"},
     CLIENT_FINISHED |-> {"finished"}]

Waits(e) == IF e = "client" THEN ClientWaits ELSE ServerWaits

\* e is about to read the next record.
Reading(e) ==
    /\ failed[e] = "no"
    /\ Context(e).state \in DOMAIN Waits(e)
    /\ out[e] = <<>>
    /\ net[e] # <<>>

IsCcs(r) == OuterType(r) = "change_cipher_spec"

\* ssl_prepare_record_content(): the server skips the early data it rejected,
\* after a HelloRetryRequest by the type of the record, otherwise because the
\* record cannot be deprotected.
IsSkipped(e, r) ==
    /\ e = "server"
    /\ OuterType(r) = "application_data"
    /\ \/ s.discard = "DISCARD" /\ s.tin = NoKey
       \/ s.discard = "TRY_TO_DEPROTECT_AND_DISCARD" /\ s.tin # NoKey /\ r.key # s.tin

IsEarlyData(e, r) ==
    /\ e = "server"
    /\ s.state = "END_OF_EARLY_DATA"
    /\ r.type = "application_data"
    /\ r.key = s.tin

IsExpected(e, r) ==
    /\ r.key = Context(e).tin
    /\ r.type = "handshake"
    /\ r.msg.t \in Waits(e)[Context(e).state]

Receives(e, type) ==
    /\ Reading(e)
    /\ IsExpected(e, Head(net[e]))
    /\ Head(net[e]).msg.t = type

Message(e) == Head(net[e]).msg

Consume(e) == net' = [net EXCEPT ![e] = Tail(@)]

\* A handler that writes runs when the output buffer is empty.
CanStep(e, state) ==
    /\ failed[e] = "no"
    /\ Context(e).state = state
    /\ out[e] = <<>>

Emit(e, r) == out' = [out EXCEPT ![e] = <<r>>]

\* An endpoint that fails returns the error to the application, which closes
\* the connection.
GivesUp(e, why) ==
    /\ failed' = [failed EXCEPT ![e] = why]
    /\ UNCHANGED <<conf, c, s, out, app>>

Refuses(e, why) == Consume(e) /\ GivesUp(e, why)

\* A mutant: the last item the limit allows is refused.
FitsEarlyLimitStrictly(len) == len < s.limit - s.total

\* mbedtls_ssl_tls13_check_early_data_len().
FitsEarlyLimit(len) == len <= s.limit - s.total
-----------------------------------------------------------------------------
(* The initial state: mbedtls_ssl_setup() on both sides.                   *)

Init ==
    /\ conf \in Configs
    /\ c = [state |-> "HELLO_REQUEST", tin |-> NoKey, tout |-> NoKey,
            tr |-> <<>>, psk |-> "zero", share |-> "none", mode |-> "none",
            selected |-> 0, hrr |-> FALSE, ccs_sent |-> FALSE, early |-> "IDLE",
            total |-> 0, early_key |-> NoKey, handshake_key |-> NoKey,
            application_key |-> NoKey, resumption |-> NoKey, client_auth |-> FALSE,
            peer_cert |-> "none", tickets |-> <<>>]
    /\ s = [state |-> "HELLO_REQUEST", tin |-> NoKey, tout |-> NoKey,
            tr |-> <<>>, psk |-> "zero", share |-> "none", mode |-> "none",
            selected |-> 0, hrr |-> FALSE, ccs_sent |-> FALSE, groups |-> <<>>,
            psk_modes |-> {}, early_accepted |-> FALSE,
            discard |-> "NO_DISCARD", limit |-> 0, total |-> 0, resume |-> FALSE,
            early_key |-> NoKey, handshake_key |-> NoKey, application_key |-> NoKey,
            resumption |-> NoKey, certificate_request_sent |-> FALSE,
            peer_cert |-> "none", count |-> conf.new_session_tickets_count,
            tickets |-> <<>>]
    /\ out = [e \in Endpoints |-> <<>>]
    /\ net = [e \in Endpoints |-> <<>>]
    /\ app = [next |-> 1, retried |-> {}, received |-> <<>>]
    /\ failed = [e \in Endpoints |-> "no"]

-----------------------------------------------------------------------------
(* What both sides do.                                                     *)

\* mbedtls_ssl_flush_output() of ssl_prepare_handshake_step(), or of the write
\* that is repeated: the transport takes the record.  Nothing calls it once
\* the handshake is over.
Flush(e) ==
    /\ out[e] # <<>>
    /\ failed[e] = "no"
    /\ Context(e).state # "HANDSHAKE_OVER"
    /\ out' = [out EXCEPT ![e] = <<>>]
    /\ net' = [net EXCEPT ![Peer(e)] = @ \o out[e]]
    /\ UNCHANGED <<conf, c, s, app, failed>>

\* ChangeCipherSpec records are dropped in every state.
DropCcs(e) ==
    /\ Reading(e)
    /\ IsCcs(Head(net[e]))
    /\ Consume(e)
    /\ UNCHANGED <<conf, c, s, out, app, failed>>

\* One round of the loop of mbedtls_ssl_read_record() that discards a record
\* of early data, or gives up on the connection.
SkipEarlyData ==
    /\ Reading("server")
    /\ IsSkipped("server", Head(net.server))
    /\ LET len == 1 + Overhead
       IN  IF FitsEarlyLimit(len)
           THEN /\ s' = [s EXCEPT !.total = @ + len]
                /\ Consume("server")
                /\ UNCHANGED <<conf, c, out, app, failed>>
           ELSE Refuses("server", "early data limit")

\* A record that cannot be opened, or a message the state does not expect.
RefuseRecord(e) ==
    /\ Reading(e)
    /\ LET r == Head(net[e])
           why == IF r.key = Context(e).tin THEN "unexpected message" ELSE "bad mac"
       IN  /\ ~IsCcs(r) /\ ~IsSkipped(e, r) /\ ~IsEarlyData(e, r) /\ ~IsExpected(e, r)
           /\ Refuses(e, why)

\* The peer gave up: its alert, or the end of the stream after it.
PeerIsGone(e) ==
    /\ failed[e] = "no"
    /\ Context(e).state \in DOMAIN Waits(e)
    /\ failed[Peer(e)] # "no"
    /\ net[e] = <<>>
    /\ GivesUp(e, "peer")
    /\ net' = net

\* mbedtls_ssl_tls13_write_change_cipher_spec(): one dummy record at most.
WriteCcs(e, next) ==
    LET ep == Context(e)
        done == [next EXCEPT !.ccs_sent = TRUE]
    IN  /\ IF ep.ccs_sent THEN out' = out ELSE Emit(e, CcsRecord(ep))
        /\ IF e = "client" THEN c' = done /\ s' = s ELSE s' = done /\ c' = c
        /\ UNCHANGED <<conf, net, app, failed>>

HelloRequest(e) ==
    /\ CanStep(e, "HELLO_REQUEST")
    /\ IF e = "client" THEN c' = [c EXCEPT !.state = "CLIENT_HELLO"] /\ s' = s
       ELSE s' = [s EXCEPT !.state = "CLIENT_HELLO"] /\ c' = c
    /\ UNCHANGED <<conf, out, net, app, failed>>

\* A handler of the client that writes message m in context ep and goes on as
\* next says; and one that reads.
ClientWrites(ep, m, next) ==
    /\ Emit("client", HandshakeRecord(ep, m))
    /\ c' = [next EXCEPT !.tr = Append(ep.tr, m)]
    /\ UNCHANGED <<conf, s, net, app, failed>>

ClientReads(next) ==
    /\ Consume("client")
    /\ c' = next
    /\ UNCHANGED <<conf, s, out, app, failed>>

ServerWrites(ep, m, next) ==
    /\ Emit("server", HandshakeRecord(ep, m))
    /\ s' = [next EXCEPT !.tr = Append(ep.tr, m)]
    /\ UNCHANGED <<conf, c, net, app, failed>>

ServerReads(next) ==
    /\ Consume("server")
    /\ s' = next
    /\ UNCHANGED <<conf, c, out, app, failed>>

-----------------------------------------------------------------------------
(* The client, ssl_client.c and ssl_tls13_client.c.                        *)

\* ssl_tls13_early_data_has_valid_ticket() and the configuration.
OffersEarlyData ==
    /\ conf.c_modes \cap PskModes # {}
    /\ conf.ticket # "none" /\ conf.ticket_early
    /\ conf.c_early

ClientHelloMessage ==
    LET ephemeral == conf.c_modes \cap EphemeralModes # {}
    IN  [t |-> "client_hello",
         groups |-> IF ephemeral THEN conf.c_groups ELSE <<>>,
         share |-> IF ~ephemeral THEN "none"
                   ELSE IF c.hrr THEN c.share ELSE Head(conf.c_groups),
         sig_alg |-> "ephemeral" \in conf.c_modes,
         psk_modes |-> conf.c_modes \cap PskModes,
         psks |-> ClientPsks,
         early |-> ~c.hrr /\ OffersEarlyData]

\* mbedtls_ssl_write_client_hello(): the second one, after a
\* HelloRetryRequest, does not offer early data.  The early secret is derived
\* now if early data is offered (mbedtls_ssl_tls13_finalize_client_hello()).
WriteClientHello ==
    /\ CanStep("client", "CLIENT_HELLO")
    /\ LET m == ClientHelloMessage
           early == IF c.hrr THEN c.early
                    ELSE IF m.early THEN "IND_SENT" ELSE "NO_IND_SENT"
           key == Key("early", "ticket", "none", Append(c.tr, m))
           sent == [c EXCEPT !.share = m.share, !.early = early,
                             !.state = "SERVER_HELLO"]
           offers == [sent EXCEPT !.psk = "ticket", !.early_key = key]
       IN  ClientWrites(c, m,
               IF early # "IND_SENT" THEN sent
               ELSE IF conf.compat
               THEN [offers EXCEPT !.state = "CLIENT_CCS_AFTER_CLIENT_HELLO"]
               ELSE [offers EXCEPT !.tout = key, !.early = "CAN_WRITE"])

ClientCcsAfterClientHello ==
    /\ CanStep("client", "CLIENT_CCS_AFTER_CLIENT_HELLO")
    /\ WriteCcs("client", [c EXCEPT !.state = "SERVER_HELLO", !.tout = c.early_key,
                                    !.early = "CAN_WRITE"])

\* mbedtls_ssl_write_early_data(): the record is protected and given to the
\* transport.  If the transport takes it the item is counted; if not, the call
\* returns WANT_WRITE, the record stays in the output buffer, and the call is
\* to be repeated with the same item.
WriteEarlyData(taken) ==
    /\ failed.client = "no"
    /\ c.early \in {"CAN_WRITE", "ACCEPTED"}
    /\ out.client = <<>>
    /\ c.total < MaxEarly
    /\ taken \/ app.next \notin app.retried
    /\ LET r == DataRecord(c, app.next)
       IN  IF taken
           THEN /\ net' = [net EXCEPT !.server = Append(@, r)]
                /\ app' = [app EXCEPT !.next = @ + 1]
                /\ c' = [c EXCEPT !.total = @ + 1]
                /\ out' = out
           ELSE /\ Emit("client", r)
                /\ app' = [app EXCEPT !.retried = @ \cup {app.next}]
                /\ UNCHANGED <<c, net>>
    /\ UNCHANGED <<conf, s, failed>>

\* ssl_tls13_process_server_hello() for a HelloRetryRequest: protection is
\* switched off by mbedtls_ssl_session_reset_msg_layer() and early data, if
\* offered, is rejected.
ProcessHelloRetryRequest ==
    /\ Receives("client", "server_hello")
    /\ c.state = "SERVER_HELLO"
    /\ Message("client").hrr
    /\ LET m == Message("client")
           refused == c.hrr \/ conf.c_modes \cap EphemeralModes = {}
                      \/ m.share \notin ToSet(conf.c_groups) \/ m.share = c.share
       IN  IF refused THEN Refuses("client", "retry")
           ELSE ClientReads(
                    [c EXCEPT !.hrr = TRUE, !.share = m.share,
                              !.tin = NoKey, !.tout = NoKey,
                              !.early = IF @ = "NO_IND_SENT" THEN @ ELSE "REJECTED",
                              !.tr = Append(TranscriptForHrr(@), m),
                              !.state = IF conf.compat
                                        THEN "CLIENT_CCS_BEFORE_2ND_CLIENT_HELLO"
                                        ELSE "CLIENT_HELLO"])

ClientCcsBefore2ndClientHello ==
    /\ CanStep("client", "CLIENT_CCS_BEFORE_2ND_CLIENT_HELLO")
    /\ WriteCcs("client", [c EXCEPT !.state = "CLIENT_HELLO"])

ModeOf(m) ==
    CASE m.psk # 0 /\ m.share = "none" -> "psk"
      [] m.psk = 0 /\ m.share # "none" -> "ephemeral"
      [] m.psk # 0 /\ m.share # "none" -> "psk_ephemeral"
      [] OTHER -> "none"

\* ssl_tls13_postprocess_server_hello(): the early secret is kept when early
\* data was offered and a PSK was selected.
ClientEarlySecret(m) ==
    IF c.early = "NO_IND_SENT" \/ ModeOf(m) = "ephemeral"
    THEN IF m.psk = 0 THEN "zero" ELSE ClientPsks[m.psk]
    ELSE c.psk

ProcessServerHello ==
    /\ Receives("client", "server_hello")
    /\ c.state = "SERVER_HELLO"
    /\ ~Message("client").hrr
    /\ LET m == Message("client")
           tr == Append(c.tr, m)
           refused == ModeOf(m) \notin conf.c_modes \/ m.psk > Len(ClientPsks)
                      \/ m.share \notin {"none", c.share}
           psk == ClientEarlySecret(m)
           key == Key("handshake", psk, m.share, tr)
       IN  IF refused THEN Refuses("client", "server hello")
           ELSE ClientReads(
                    [c EXCEPT !.mode = ModeOf(m), !.selected = m.psk, !.psk = psk,
                              !.share = m.share, !.tr = tr, !.handshake_key = key,
                              !.tin = key, !.state = "ENCRYPTED_EXTENSIONS"])

ProcessEncryptedExtensions ==
    /\ Receives("client", "encrypted_extensions")
    /\ LET m == Message("client")
           early == IF m.early THEN "ACCEPTED"
                    ELSE IF c.early = "NO_IND_SENT" THEN c.early ELSE "REJECTED"
       IN  IF m.early /\ (c.mode \notin PskModes \/ c.selected # 1)
           THEN Refuses("client", "early data")
           ELSE ClientReads(
                    [c EXCEPT !.early = early, !.tr = Append(@, m),
                              !.state = IF c.mode \in PskModes THEN "SERVER_FINISHED"
                                        ELSE "CERTIFICATE_REQUEST"])

\* ssl_tls13_process_certificate_request(): a Certificate in its place is
\* kept for the next state.
ProcessCertificateRequest ==
    /\ c.state = "CERTIFICATE_REQUEST"
    /\ \/ /\ Receives("client", "certificate_request")
          /\ ClientReads([c EXCEPT !.client_auth = TRUE, !.tr = Append(@, Message("client")),
                                   !.state = "SERVER_CERTIFICATE"])
       \/ /\ Receives("client", "certificate")
          /\ c' = [c EXCEPT !.client_auth = FALSE, !.state = "SERVER_CERTIFICATE"]
          /\ UNCHANGED <<conf, s, out, net, app, failed>>

\* A mutant: a certificate that is missing is not missed.
AcceptsMissing(authmode, cert) == cert # "bad" \/ authmode # "required"

\* ssl_tls13_validate_certificate().
Accepts(authmode, cert) == cert = "good" \/ authmode # "required"

ProcessServerCertificate ==
    /\ Receives("client", "certificate")
    /\ c.state = "SERVER_CERTIFICATE"
    /\ LET m == Message("client")
       IN  IF m.cert # "none" /\ Accepts(conf.c_authmode, m.cert)
           THEN ClientReads([c EXCEPT !.peer_cert = m.cert, !.tr = Append(@, m),
                                      !.state = "CERTIFICATE_VERIFY"])
           ELSE Refuses("client", "peer certificate")

ProcessServerCertificateVerify ==
    /\ Receives("client", "certificate_verify")
    /\ IF Head(net.client).over = c.tr
       THEN ClientReads([c EXCEPT !.tr = Append(@, Message("client")),
                                  !.state = "SERVER_FINISHED"])
       ELSE Refuses("client", "signature")

\* A mutant: early data can still be written after the server's Finished.
ProcessServerFinishedStaysAccepted ==
    /\ Receives("client", "finished")
    /\ LET tr == Append(c.tr, Message("client"))
           next == [c EXCEPT !.tr = tr,
                             !.application_key = Key("application", c.psk, c.share, tr)]
       IN  ClientReads(IF c.early = "ACCEPTED"
                       THEN [next EXCEPT !.state = "END_OF_EARLY_DATA"]
                       ELSE [next EXCEPT !.state = "CLIENT_CERTIFICATE"])

\* ssl_tls13_process_server_finished().
ProcessServerFinished ==
    /\ Receives("client", "finished")
    /\ LET tr == Append(c.tr, Message("client"))
           next == [c EXCEPT !.tr = tr,
                             !.application_key = Key("application", c.psk, c.share, tr)]
       IN  IF Head(net.client).over # c.tr THEN Refuses("client", "finished")
           ELSE ClientReads(
               IF c.early = "ACCEPTED"
               THEN [next EXCEPT !.early = "SERVER_FINISHED_RECEIVED",
                                 !.state = "END_OF_EARLY_DATA"]
               ELSE [next EXCEPT !.state = IF conf.compat
                                           THEN "CLIENT_CCS_AFTER_SERVER_FINISHED"
                                           ELSE "CLIENT_CERTIFICATE"])

\* ssl_tls13_write_end_of_early_data(), still with the early keys.
WriteEndOfEarlyData ==
    /\ CanStep("client", "END_OF_EARLY_DATA")
    /\ ClientWrites(c, [t |-> "end_of_early_data"], [c EXCEPT !.state = "CLIENT_CERTIFICATE"])

ClientCcsAfterServerFinished ==
    /\ CanStep("client", "CLIENT_CCS_AFTER_SERVER_FINISHED")
    /\ WriteCcs("client", [c EXCEPT !.state = "CLIENT_CERTIFICATE"])

\* ssl_tls13_write_client_certificate(): switches to the handshake keys, and
\* writes a certificate, maybe an empty one, if it was asked for.
WriteClientCertificate ==
    /\ CanStep("client", "CLIENT_CERTIFICATE")
    /\ LET ep == [c EXCEPT !.tout = c.handshake_key]
           next == [ep EXCEPT !.state = IF c.client_auth /\ conf.c_cert # "none"
                                        THEN "CLIENT_CERTIFICATE_VERIFY"
                                        ELSE "CLIENT_FINISHED"]
       IN  IF c.client_auth
           THEN ClientWrites(ep, [t |-> "certificate", cert |-> conf.c_cert], next)
           ELSE c' = next /\ UNCHANGED <<conf, s, out, net, app, failed>>

WriteClientCertificateVerify ==
    /\ CanStep("client", "CLIENT_CERTIFICATE_VERIFY")
    /\ ClientWrites(c, [t |-> "certificate_verify"], [c EXCEPT !.state = "CLIENT_FINISHED"])

\* A mutant: the resumption secret is derived before the Finished is hashed.
WriteClientFinishedLate ==
    /\ CanStep("client", "CLIENT_FINISHED")
    /\ ClientWrites(c, [t |-> "finished"],
           [c EXCEPT !.state = "FLUSH_BUFFERS",
                     !.resumption = Key("resumption", c.psk, c.share, c.tr)])

\* ssl_tls13_write_client_finished().
WriteClientFinished ==
    /\ CanStep("client", "CLIENT_FINISHED")
    /\ LET m == [t |-> "finished"]
       IN  ClientWrites(c, m,
               [c EXCEPT !.state = "FLUSH_BUFFERS",
                         !.resumption = Key("resumption", c.psk, c.share, Append(c.tr, m))])

ClientFlushBuffers ==
    /\ CanStep("client", "FLUSH_BUFFERS")
    /\ c' = [c EXCEPT !.state = "HANDSHAKE_WRAPUP"]
    /\ UNCHANGED <<conf, s, out, net, app, failed>>

\* mbedtls_ssl_tls13_handshake_wrapup(): the application keys both ways.
ClientHandshakeWrapup ==
    /\ CanStep("client", "HANDSHAKE_WRAPUP")
    /\ c' = [c EXCEPT !.tin = c.application_key, !.tout = c.application_key,
                      !.state = "HANDSHAKE_OVER"]
    /\ UNCHANGED <<conf, s, out, net, app, failed>>

\* ssl_tls13_process_new_session_ticket(), from mbedtls_ssl_read().
ProcessNewSessionTicket ==
    /\ Receives("client", "new_session_ticket")
    /\ ClientReads([c EXCEPT !.tickets = Append(@, [secret |-> c.resumption,
                                                    nonce |-> Message("client").nonce])])
-----------------------------------------------------------------------------
(* The server, ssl_tls13_server.c.                                         *)

\* The mode a PSK can be used with: the ticket must allow it, both sides
\* enable it and the ClientHello have the extensions it needs.
PskModeFor(psk, m) ==
    LET allowed == IF psk = "ticket" THEN TicketModes ELSE PskModes
        usable == allowed \cap conf.s_modes \cap m.psk_modes
    IN  IF "psk_ephemeral" \in usable /\ m.share # "none" THEN "psk_ephemeral"
        ELSE IF "psk" \in usable THEN "psk" ELSE "none"

\* ssl_tls13_parse_pre_shared_key_ext(): the first identity the server knows
\* and can use; 0 if there is none.
SelectedPsk(m) ==
    LET fits == {i \in DOMAIN m.psks : /\ ServerKnows(m.psks[i])
                                       /\ PskModeFor(m.psks[i], m) # "none"}
    IN  IF fits = {} THEN 0 ELSE CHOOSE i \in fits : \A j \in fits : i <= j

EphemeralAvailable(m) ==
    "ephemeral" \in conf.s_modes /\ m.sig_alg /\ m.share # "none"

\* The preference of ssl_tls13_parse_client_hello().
SelectedMode(m) ==
    LET psk == SelectedPsk(m)
        psk_mode == IF psk = 0 THEN "none" ELSE PskModeFor(m.psks[psk], m)
    IN  IF psk_mode = "psk_ephemeral" THEN "psk_ephemeral"
        ELSE IF EphemeralAvailable(m) THEN "ephemeral"
        ELSE psk_mode

RetryRequired(m) == SelectedMode(m) # "psk" /\ m.share \notin conf.s_groups

\* ssl_tls13_check_early_data_requirements() and the HelloRetryRequest.
AcceptsEarlyData(m, resume) ==
    /\ m.early
    /\ ~RetryRequired(m)
    /\ conf.s_early
    /\ resume
    /\ SelectedPsk(m) = 1
    /\ conf.ticket_early

\* A mutant: early data is always discarded by the type of the record.
DiscardByType(m, accepted) == IF ~m.early \/ accepted THEN "NO_DISCARD" ELSE "DISCARD"

\* What ssl_tls13_postprocess_client_hello() makes of early data it rejects.
DiscardAfter(m, accepted) ==
    IF ~m.early \/ accepted THEN "NO_DISCARD"
    ELSE IF RetryRequired(m) THEN "DISCARD"
    ELSE "TRY_TO_DEPROTECT_AND_DISCARD"

\* ssl_tls13_process_client_hello().
ProcessClientHello ==
    /\ Receives("server", "client_hello")
    /\ LET m == Message("server")
           psk == SelectedPsk(m)
           mode == SelectedMode(m)
           name == IF psk = 0 THEN "zero" ELSE m.psks[psk]
           tr == Append(s.tr, m)
           resume == s.resume \/ (mode \in PskModes /\ name = "ticket")
           accepted == AcceptsEarlyData(m, resume)
       IN  IF s.hrr /\ m.early THEN Refuses("server", "early data")
           ELSE IF psk # 0 /\ Head(net.server).over # s.tr THEN Refuses("server", "binder")
           ELSE IF mode = "none" THEN Refuses("server", "key exchange")
           ELSE ServerReads(
                    [s EXCEPT
                       !.mode = mode, !.selected = psk, !.tr = tr, !.resume = resume,
                       !.psk = IF mode \in PskModes THEN name ELSE "zero",
                       !.share = IF mode = "psk" THEN "none" ELSE m.share,
                       !.groups = m.groups, !.psk_modes = m.psk_modes,
                       !.limit = IF name = "ticket" THEN MaxEarly ELSE @,
                       !.early_accepted = IF m.early THEN accepted ELSE @,
                       !.early_key = IF accepted
                                     THEN Key("early", "ticket", "none", tr) ELSE @,
                       !.discard = DiscardAfter(m, accepted),
                       !.state = IF RetryRequired(m) THEN "HELLO_RETRY_REQUEST"
                                 ELSE "SERVER_HELLO"])

\* ssl_tls13_parse_supported_groups_ext(): where the client's list has a group
\* of the server; the first of them is selected.
CommonGroups(groups) == {i \in DOMAIN groups : groups[i] \in conf.s_groups}

FirstGroup(groups) == groups[Min(CommonGroups(groups))]

\* ssl_tls13_write_hello_retry_request().
WriteHelloRetryRequest ==
    /\ CanStep("server", "HELLO_RETRY_REQUEST")
    /\ LET why == IF s.hrr THEN "retry" ELSE "group"
           ep == [s EXCEPT !.tr = TranscriptForHrr(@), !.tin = NoKey, !.tout = NoKey]
       IN  IF s.hrr \/ CommonGroups(s.groups) = {}
           THEN GivesUp("server", why) /\ net' = net
           ELSE ServerWrites(ep,
                    [t |-> "server_hello", hrr |-> TRUE, psk |-> 0, share |-> FirstGroup(s.groups)],
                    [ep EXCEPT !.hrr = TRUE,
                               !.state = IF conf.compat
                                         THEN "SERVER_CCS_AFTER_HELLO_RETRY_REQUEST"
                                         ELSE "CLIENT_HELLO"])

ServerCcsAfterHelloRetryRequest ==
    /\ CanStep("server", "SERVER_CCS_AFTER_HELLO_RETRY_REQUEST")
    /\ WriteCcs("server", [s EXCEPT !.state = "CLIENT_HELLO"])

WriteServerHello ==
    /\ CanStep("server", "SERVER_HELLO")
    /\ LET m == [t |-> "server_hello", hrr |-> FALSE, share |-> s.share,
                 psk |-> IF s.mode \in PskModes THEN s.selected ELSE 0]
       IN  ServerWrites(s, m,
               [s EXCEPT !.handshake_key = Key("handshake", s.psk, s.share, Append(s.tr, m)),
                         !.state = IF conf.compat THEN "SERVER_CCS_AFTER_SERVER_HELLO"
                                   ELSE "ENCRYPTED_EXTENSIONS"])

ServerCcsAfterServerHello ==
    /\ CanStep("server", "SERVER_CCS_AFTER_SERVER_HELLO")
    /\ WriteCcs("server", [s EXCEPT !.state = "ENCRYPTED_EXTENSIONS"])

WriteEncryptedExtensions ==
    /\ CanStep("server", "ENCRYPTED_EXTENSIONS")
    /\ LET ep == [s EXCEPT !.tout = s.handshake_key]
       IN  ServerWrites(ep, [t |-> "encrypted_extensions", early |-> s.early_accepted],
               [ep EXCEPT !.state = IF s.mode \in PskModes THEN "SERVER_FINISHED"
                                    ELSE "CERTIFICATE_REQUEST"])

WriteCertificateRequest ==
    /\ CanStep("server", "CERTIFICATE_REQUEST")
    /\ LET next == [s EXCEPT !.state = "SERVER_CERTIFICATE"]
       IN  IF conf.s_authmode = "none"
           THEN s' = next /\ UNCHANGED <<conf, c, out, net, app, failed>>
           ELSE ServerWrites(s, [t |-> "certificate_request"],
                             [next EXCEPT !.certificate_request_sent = TRUE])

WriteServerCertificate ==
    /\ CanStep("server", "SERVER_CERTIFICATE")
    /\ IF conf.s_cert = "none"
       THEN GivesUp("server", "own certificate") /\ net' = net
       ELSE ServerWrites(s, [t |-> "certificate", cert |-> conf.s_cert],
                         [s EXCEPT !.state = "CERTIFICATE_VERIFY"])

WriteServerCertificateVerify ==
    /\ CanStep("server", "CERTIFICATE_VERIFY")
    /\ ServerWrites(s, [t |-> "certificate_verify"], [s EXCEPT !.state = "SERVER_FINISHED"])

\* ssl_tls13_prepare_for_handshake_second_flight().
SecondFlight ==
    IF s.certificate_request_sent THEN "CLIENT_CERTIFICATE" ELSE "CLIENT_FINISHED"

WriteServerFinished ==
    /\ CanStep("server", "SERVER_FINISHED")
    /\ LET m == [t |-> "finished"]
           next == [s EXCEPT !.application_key =
                                 Key("application", s.psk, s.share, Append(s.tr, m))]
       IN  ServerWrites(s, m,
               IF s.early_accepted
               THEN [next EXCEPT !.tin = s.early_key, !.state = "END_OF_EARLY_DATA"]
               ELSE [next EXCEPT !.tin = s.handshake_key, !.state = SecondFlight])

\* ssl_tls13_process_end_of_early_data() meets early data: the call returns
\* RECEIVED_EARLY_DATA and the application reads it.
ReadEarlyData ==
    /\ Reading("server")
    /\ IsEarlyData("server", Head(net.server))
    /\ IF FitsEarlyLimit(1)
       THEN /\ s' = [s EXCEPT !.total = @ + 1]
            /\ app' = [app EXCEPT !.received = Append(@, Head(net.server).item)]
            /\ Consume("server")
            /\ UNCHANGED <<conf, c, out, failed>>
       ELSE Refuses("server", "early data limit")

ProcessEndOfEarlyData ==
    /\ Receives("server", "end_of_early_data")
    /\ ServerReads([s EXCEPT !.tin = s.handshake_key, !.tr = Append(@, Message("server")),
                             !.state = SecondFlight])

ProcessClientCertificate ==
    /\ Receives("server", "certificate")
    /\ LET m == Message("server")
       IN  IF ~Accepts(conf.s_authmode, m.cert) THEN Refuses("server", "peer certificate")
           ELSE ServerReads(
                    [s EXCEPT !.peer_cert = m.cert, !.tr = Append(@, m),
                              !.discard = "NO_DISCARD",
                              !.state = IF m.cert = "none" THEN "CLIENT_FINISHED"
                                        ELSE "CLIENT_CERTIFICATE_VERIFY"])

ProcessClientCertificateVerify ==
    /\ Receives("server", "certificate_verify")
    /\ IF Head(net.server).over = s.tr
       THEN ServerReads([s EXCEPT !.tr = Append(@, Message("server")),
                                  !.state = "CLIENT_FINISHED"])
       ELSE Refuses("server", "signature")

ProcessClientFinished ==
    /\ Receives("server", "finished")
    /\ LET tr == Append(s.tr, Message("server"))
       IN  IF Head(net.server).over # s.tr THEN Refuses("server", "finished")
           ELSE ServerReads(
                    [s EXCEPT !.tr = tr, !.discard = "NO_DISCARD",
                              !.resumption = Key("resumption", s.psk, s.share, tr),
                              !.state = "HANDSHAKE_WRAPUP"])

\* Tickets are for clients that advertised a PSK mode.
ServerHandshakeWrapup ==
    /\ CanStep("server", "HANDSHAKE_WRAPUP")
    /\ s' = [s EXCEPT !.tin = s.application_key, !.tout = s.application_key,
                      !.state = IF s.psk_modes # {} THEN "NEW_SESSION_TICKET"
                                ELSE "HANDSHAKE_OVER"]
    /\ UNCHANGED <<conf, c, out, net, app, failed>>

\* A mutant: the handshake is over as soon as the last ticket is written.
WriteNewSessionTicketUnflushed ==
    /\ CanStep("server", "NEW_SESSION_TICKET")
    /\ LET nonce == Len(s.tickets) + 1
       IN  IF s.count = 0
           THEN s' = [s EXCEPT !.state = "HANDSHAKE_OVER"] /\ out' = out
           ELSE /\ Emit("server", HandshakeRecord(s, [t |-> "new_session_ticket",
                                                      nonce |-> nonce]))
                /\ s' = [s EXCEPT !.tickets = Append(@, [secret |-> s.resumption,
                                                         nonce |-> nonce]),
                                  !.count = @ - 1,
                                  !.state = IF s.count = 1 THEN "HANDSHAKE_OVER"
                                            ELSE "NEW_SESSION_TICKET_FLUSH"]
    /\ UNCHANGED <<conf, c, net, app, failed>>

\* ssl_tls13_write_new_session_ticket(): one ticket if this is a resumption.
\* A ticket is not part of the transcript.
WriteNewSessionTicket ==
    /\ CanStep("server", "NEW_SESSION_TICKET")
    /\ LET nonce == Len(s.tickets) + 1
       IN  IF conf.new_session_tickets_count = 0 \/ s.count = 0
           THEN s' = [s EXCEPT !.state = "HANDSHAKE_OVER"] /\ out' = out
           ELSE /\ Emit("server", HandshakeRecord(s, [t |-> "new_session_ticket",
                                                      nonce |-> nonce]))
                /\ s' = [s EXCEPT !.tickets = Append(@, [secret |-> s.resumption,
                                                         nonce |-> nonce]),
                                  !.count = IF s.resume THEN 0 ELSE @ - 1,
                                  !.state = "NEW_SESSION_TICKET_FLUSH"]
    /\ UNCHANGED <<conf, c, net, app, failed>>

ServerNewSessionTicketFlush ==
    /\ CanStep("server", "NEW_SESSION_TICKET_FLUSH")
    /\ s' = [s EXCEPT !.state = IF s.count = 0 THEN "HANDSHAKE_OVER"
                                ELSE "NEW_SESSION_TICKET"]
    /\ UNCHANGED <<conf, c, out, net, app, failed>>
-----------------------------------------------------------------------------
(* The specification.                                                      *)

ClientStep ==
    \/ WriteClientHello \/ ClientCcsAfterClientHello \/ ProcessHelloRetryRequest
    \/ ClientCcsBefore2ndClientHello \/ ProcessServerHello \/ ProcessEncryptedExtensions
    \/ ProcessCertificateRequest \/ ProcessServerCertificate
    \/ ProcessServerCertificateVerify \/ ProcessServerFinished \/ WriteEndOfEarlyData
    \/ ClientCcsAfterServerFinished \/ WriteClientCertificate
    \/ WriteClientCertificateVerify \/ WriteClientFinished \/ ClientFlushBuffers
    \/ ClientHandshakeWrapup \/ ProcessNewSessionTicket

ServerStep ==
    \/ SkipEarlyData \/ ProcessClientHello \/ WriteHelloRetryRequest
    \/ ServerCcsAfterHelloRetryRequest \/ WriteServerHello \/ ServerCcsAfterServerHello
    \/ WriteEncryptedExtensions \/ WriteCertificateRequest \/ WriteServerCertificate
    \/ WriteServerCertificateVerify \/ WriteServerFinished \/ ReadEarlyData
    \/ ProcessEndOfEarlyData \/ ProcessClientCertificate
    \/ ProcessClientCertificateVerify \/ ProcessClientFinished \/ ServerHandshakeWrapup
    \/ WriteNewSessionTicket \/ ServerNewSessionTicketFlush

CommonStep(e) == HelloRequest(e) \/ DropCcs(e) \/ RefuseRecord(e) \/ PeerIsGone(e)

Next ==
    \/ ClientStep
    \/ ServerStep
    \/ \E e \in Endpoints : CommonStep(e) \/ Flush(e)
    \/ \E taken \in BOOLEAN : WriteEarlyData(taken)

\* Both applications repeat the call until it stops returning WANT_READ or
\* WANT_WRITE, and the transport takes what it is given in the end.
Fairness ==
    /\ WF_vars(ClientStep \/ CommonStep("client"))
    /\ WF_vars(ServerStep \/ CommonStep("server"))
    /\ \A e \in Endpoints : WF_vars(Flush(e))

Spec == Init /\ [][Next]_vars /\ Fairness
-----------------------------------------------------------------------------
(* Properties.                                                             *)

Over(e) == failed[e] = "no" /\ Context(e).state = "HANDSHAKE_OVER"

\* When the client's handshake is over, both sides have negotiated the same
\* mode and PSK, hold the same application keys, and agree on whether early
\* data was accepted; when the server's is over too, they hashed the same
\* messages and derive the same keys for the tickets.
Agreement ==
    /\ Over("client") =>
           /\ c.mode = s.mode
           /\ c.psk = s.psk /\ c.share = s.share
           /\ c.application_key = s.application_key
           /\ (c.early = "SERVER_FINISHED_RECEIVED") = s.early_accepted
    /\ Over("client") /\ Over("server") =>
           /\ c.tr = s.tr /\ c.resumption = s.resumption
           /\ c.tin = s.tout /\ s.tin = c.tout
           /\ c.tickets = SubSeq(s.tickets, 1, Len(c.tickets))

\* An endpoint that insists on a certificate is satisfied with a good one.
Satisfies(cert, authmode) == authmode = "required" => cert = "good"

\* An endpoint that insists on the peer's identity has it when its handshake
\* is over: the peer holds the PSK, or showed a certificate that verifies and
\* signed the handshake with it.
Authentication ==
    /\ Over("client") =>
           \/ c.mode \in PskModes /\ ServerKnows(c.psk)
           \/ /\ c.mode = "ephemeral"
              /\ c.peer_cert = conf.s_cert /\ Satisfies(c.peer_cert, conf.c_authmode)
    /\ Over("server") =>
           \/ s.mode \in PskModes /\ s.psk \in ToSet(ClientPsks)
           \/ /\ s.mode = "ephemeral"
              /\ Satisfies(s.peer_cert, conf.s_authmode)
              /\ s.peer_cert \in IF conf.s_authmode = "none" THEN {"none"} ELSE {conf.c_cert}

\* The early data the server's application reads is what the client's
\* application wrote, complete and in order, if it was accepted, and nothing
\* if it was not.  Only an item whose write returned WANT_WRITE may come
\* twice: the handshake step of the repeated call flushes the record, and the
\* item is written again.
EarlyDataExact ==
    LET got == app.received
    IN  /\ \A i, j \in DOMAIN got : i < j =>
               got[i] < got[j] \/ (got[i] = got[j] /\ got[i] \in app.retried)
        /\ ToSet(got) \subseteq 1 .. app.next - 1 \cup app.retried
        /\ ~s.early_accepted => got = <<>>
        /\ s.early_accepted /\ s.state \notin {"SERVER_HELLO", "ENCRYPTED_EXTENSIONS",
               "SERVER_CCS_AFTER_SERVER_HELLO", "SERVER_FINISHED", "END_OF_EARLY_DATA"}
               => 1 .. app.next - 1 \subseteq ToSet(got)

\* The PSKs both sides hold and can use in a mode both enable.
SharedPsks == {i \in DOMAIN ClientPsks : /\ ServerKnows(ClientPsks[i])
                                         /\ conf.c_modes \cap conf.s_modes \cap PskModes # {}}

\* The client offered early data with its ticket and the server selected the
\* configured PSK that came second.
SecondPskAfterEarlyData == OffersEarlyData /\ s.mode \in PskModes /\ s.selected = 2

\* How many records of early data the client wrote, one for each call that
\* returned WANT_WRITE included; what each counts against the limit of the
\* server; and the limit, which is that of the ticket if the server knows it and
\* can use it, and otherwise zero.
EarlyDataSent == app.next - 1 + Cardinality(app.retried)

EarlyDataCost == IF s.early_accepted THEN 1 ELSE 1 + Overhead

EarlyDataLimit == IF 1 \in SharedPsks THEN MaxEarly ELSE 0

\* A handshake fails only because of the configurations: no key exchange mode
\* or group in common, a certificate that is missing or refused, or early data:
\* the server gives up only if all that the client wrote is beyond the limit, so
\* it counts each record once, at its cost, and no other records
\* (mbedtls_ssl_tls13_check_early_data_len()).  No record is ever met that
\* cannot be opened or is out of place: the two sides switch keys at the same
\* points of the stream whatever is in flight.  The exception is a server that
\* selects the second PSK of a client that offered early data.
OnlyExpectedFailures ==
    /\ \/ failed.client \in {"no", "peer"}
       \/ failed.client = "peer certificate" /\ ~Satisfies(conf.s_cert, conf.c_authmode)
       \/ failed.client = "bad mac" /\ SecondPskAfterEarlyData
    /\ \/ failed.server \in {"no", "peer"}
       \/ failed.server = "peer certificate" /\ ~Satisfies(conf.c_cert, conf.s_authmode)
       \/ failed.server = "own certificate" /\ conf.s_cert = "none"
       \/ failed.server = "group" /\ ToSet(conf.c_groups) \cap conf.s_groups = {}
       \/ /\ failed.server = "key exchange"
          /\ "ephemeral" \notin conf.c_modes \cap conf.s_modes
          /\ SharedPsks = {}
       \/ /\ failed.server = "early data limit"
          /\ EarlyDataSent * EarlyDataCost > EarlyDataLimit

\* The handshake comes to an end on both sides, with the tickets of the server
\* in the hands of the client, or fails on both sides.
Completes ==
    <>(\/ Over("client") /\ Over("server") /\ c.tickets = s.tickets
       \/ \A e \in Endpoints : failed[e] # "no")

\* The comment of ssl_tls13_postprocess_server_hello(): when early data was
\* offered and a PSK was selected, the early secret is that of the selected
\* PSK.
EarlySecretIsOfSelectedPsk ==
    c.mode \in PskModes => c.psk = ClientPsks[c.selected]
=============================================================================
