-------------------------- MODULE MCTls13Handshake --------------------------
(* Instances of Tls13Handshake for TLC: families of configurations.        *)
EXTENDS Tls13Handshake

Plain ==
    [c_modes |-> {"ephemeral"}, s_modes |-> {"ephemeral"}, ticket |-> "none",
     ticket_early |-> FALSE, c_early |-> FALSE, s_early |-> FALSE,
     c_psk |-> FALSE, s_psk |-> FALSE, c_groups |-> <<"x", "y">>, s_groups |-> {"x"},
     c_cert |-> "good", s_cert |-> "good", c_authmode |-> "required",
     s_authmode |-> "none", compat |-> TRUE, new_session_tickets_count |-> 0]

AllModes == {"psk", "psk_ephemeral", "ephemeral"}

\* Certificates, authentication modes and the CertificateRequest.
CertificateConfigs ==
    {[Plain EXCEPT !.c_cert = cc, !.s_cert = sc, !.c_authmode = ca, !.s_authmode = sa,
                   !.s_groups = g] :
        cc \in {"good", "bad", "none"}, sc \in {"good", "bad", "none"},
        ca \in {"none", "required"}, sa \in {"none", "optional", "required"},
        g \in {{"x"}, {"y"}}}

\* Negotiation of the mode, the PSK and the group, without early data.
NegotiationConfigs ==
    {[Plain EXCEPT !.c_modes = cm, !.s_modes = sm, !.ticket = t, !.c_psk = p, !.s_psk = q,
                   !.s_groups = g, !.new_session_tickets_count = 2] :
        cm \in SUBSET AllModes \ {{}}, sm \in SUBSET AllModes \ {{}},
        t \in {"none", "known", "unknown"}, p \in BOOLEAN, q \in BOOLEAN,
        g \in {{"x"}, {"y"}, {"z"}}}

\* Early data accepted, rejected, and rejected with a HelloRetryRequest.
EarlyDataConfigs ==
    {[Plain EXCEPT !.c_modes = cm, !.s_modes = sm, !.ticket = t, !.ticket_early = TRUE,
                   !.c_early = TRUE, !.s_early = e, !.c_psk = p, !.s_psk = p,
                   !.s_groups = g, !.compat = k, !.new_session_tickets_count = 2] :
        cm \in {AllModes, {"psk"}}, sm \in {AllModes, {"psk", "ephemeral"}},
        t \in {"known", "unknown"}, e \in BOOLEAN, p \in BOOLEAN,
        g \in {{"x"}, {"y"}}, k \in BOOLEAN}

AllConfigs == CertificateConfigs \cup NegotiationConfigs \cup EarlyDataConfigs

\* A ticket the server lost, and a configured PSK it has.
SecondPskConfigs ==
    {[Plain EXCEPT !.c_modes = AllModes, !.s_modes = AllModes, !.ticket = "unknown",
                   !.ticket_early = TRUE, !.c_early = TRUE, !.s_early = TRUE,
                   !.c_psk = TRUE, !.s_psk = TRUE]}
=============================================================================
