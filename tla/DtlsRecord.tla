----------------------------- MODULE DtlsRecord -----------------------------
(***************************************************************************)
(* How a DTLS endpoint receives records (ssl_msg.c): the epoch filter, the *)
(* anti-replay window, the count of records with a bad MAC, the one        *)
(* buffered record of the next epoch, and what resets, reconnections,      *)
(* renegotiations and the serialisation of a context (ssl_tls.c) do to     *)
(* them.                                                                   *)
(*                                                                         *)
(* The network is arbitrary: any record arrives at any time, any number of *)
(* times, authentic or not.  A record that is dropped without any effect   *)
(* is not an action.                                                       *)
(***************************************************************************)
EXTENDS Integers

CONSTANTS
    WindowBits,     \* width of in_window: 64
    MaxSeq,         \* largest record number: 2^48 - 1
    MaxEpoch,       \* largest value of in_epoch: 2^16 - 1
    BadmacLimit,    \* conf->badmac_limit, 0 for none
    AntiReplay,     \* conf->anti_replay
    None            \* a null pointer

Seqs == 0 .. MaxSeq
Epochs == 0 .. MaxEpoch
Bits == 0 .. WindowBits - 1
Records == [epoch : Epochs, seq : Seqs, auth : BOOLEAN, type : {"handshake", "other"}]

ASSUME WindowIsPositive == WindowBits \in Nat \ {0}
ASSUME CountersAreNat == MaxSeq \in Nat /\ MaxEpoch \in Nat \ {0} /\ BadmacLimit \in Nat
ASSUME FlagIsBoolean == AntiReplay \in BOOLEAN
ASSUME NoneIsNull == None \notin Records

VARIABLES
    in_epoch,
    in_window_top,
    in_window,      \* the bits that are set
    badmac_seen,    \* badmac_seen_or_in_hsfraglen, in its DTLS meaning
    in_msgtype,     \* the type of the message being processed
    in_hslen,       \* whether in_hslen is the length of a message, or zero
    future,         \* handshake->buffering.future_record
    phase,          \* see Phases
    renegotiation,  \* conf->disable_renegotiation is not set; fixed
    saved,          \* a serialised context
    seen            \* history: how often each record of this association
                    \* was handed to the layer above

window == <<in_epoch, in_window_top, in_window>>
message == <<in_msgtype, in_hslen>>
recordVars == <<window, badmac_seen, message, future, phase, renegotiation, saved, seen>>

\* hello     handshake in progress, before the peer's ChangeCipherSpec
\* finished  waiting for the peer's Finished
\* over      handshake complete, ssl->handshake kept for the last flight
\* idle      ssl->handshake freed
\* closed    a call failed and the application gave the connection up
Phases == {"hello", "finished", "over", "idle", "closed"}
Unseen == [r \in Epochs \X Seqs |-> 0]

SavedContexts == [valid : BOOLEAN, top : Seqs, window : SUBSET Bits, badmac : Nat,
                  seen : [Epochs \X Seqs -> Nat]]
NothingSaved == [valid |-> FALSE, top |-> 0, window |-> {}, badmac |-> 0, seen |-> Unseen]

\* Every variable has its type.
RecordTypeOK ==
    /\ in_epoch \in Epochs
    /\ in_window_top \in Seqs
    /\ in_window \in SUBSET Bits
    /\ badmac_seen \in Nat
    /\ in_msgtype \in {"none", "handshake", "other"}
    /\ in_hslen \in {"zero", "message"}
    /\ future \in Records \cup {None}
    /\ phase \in Phases
    /\ renegotiation \in BOOLEAN
    /\ saved \in SavedContexts
    /\ seen \in [Epochs \X Seqs -> Nat]

-----------------------------------------------------------------------------
(* The anti-replay window.                                                 *)

\* Fault: the width of the window is off by one.
ReplayCheckOffByOne(seq) ==
    \/ ~AntiReplay
    \/ seq > in_window_top
    \/ in_window_top - seq <= WindowBits /\ in_window_top - seq \notin in_window

\* mbedtls_ssl_dtls_replay_check() == 0
ReplayCheck(seq) ==
    \/ ~AntiReplay
    \/ seq > in_window_top
    \/ in_window_top - seq < WindowBits /\ in_window_top - seq \notin in_window

\* in_window <<= shift, in WindowBits bits
ShiftLeft(bits, shift) == {b \in Bits : b - shift \in bits}

\* mbedtls_ssl_dtls_replay_update()
ReplayUpdate(seq) ==
    IF ~AntiReplay THEN UNCHANGED <<in_window_top, in_window>>
    ELSE IF seq > in_window_top
    THEN /\ in_window' = {0} \cup IF seq - in_window_top >= WindowBits THEN {}
                                  ELSE ShiftLeft(in_window, seq - in_window_top)
         /\ in_window_top' = seq
    ELSE /\ in_window' = in_window \cup ({in_window_top - seq} \cap Bits)
         /\ UNCHANGED in_window_top

\* Fault: only the top is reset.
ReplayResetTop ==
    /\ in_window_top' = 0
    /\ UNCHANGED in_window

\* mbedtls_ssl_dtls_replay_reset()
ReplayReset ==
    /\ in_window_top' = 0
    /\ in_window' = {}

-----------------------------------------------------------------------------
(* ssl_get_next_record().                                                  *)

Open == phase # "closed"
HandshakeOver == phase \in {"over", "idle"}
HandshakeExists == phase \in {"hello", "finished", "over"}

\* The next record comes from the network, or is the buffered one when its
\* epoch has become current.  A buffered record that is loaded is freed.
Arrives(r) ==
    \/ r \in Records /\ UNCHANGED future
    \/ future # None /\ future.epoch = in_epoch /\ r = future /\ future' = None

\* ssl_parse_record_header() lets the record through.
Expected(r) == r.epoch = in_epoch /\ ReplayCheck(r.seq)

\* There is no transform, hence no MAC, in epoch 0.
Authentic(r) == r.auth \/ in_epoch = 0

\* ssl_prepare_record_content() and mbedtls_ssl_prepare_handshake_record():
\* in_hslen was zeroed when the previous message was consumed, and is written
\* when badmac_seen_or_in_hsfraglen is zero.
AcceptRecord(r) ==
    /\ Open
    /\ Arrives(r)
    /\ Expected(r)
    /\ Authentic(r)
    /\ ReplayUpdate(r.seq)
    /\ seen' = [seen EXCEPT ![<<r.epoch, r.seq>>] = @ + 1]
    /\ in_msgtype' = r.type
    /\ in_hslen' = IF r.type = "handshake" /\ badmac_seen = 0 THEN "message" ELSE "zero"
    /\ UNCHANGED <<in_epoch, badmac_seen, phase, saved>>

\* Fault: the window is updated before the record is authenticated.
BadMacUpdates(r) ==
    /\ Open
    /\ Arrives(r)
    /\ Expected(r)
    /\ ~Authentic(r)
    /\ ReplayUpdate(r.seq)
    /\ UNCHANGED <<in_epoch, badmac_seen, message, phase, saved, seen>>

\* A record that fails authentication is dropped, unless the Finished message
\* is expected or too many were seen.
BadMac(r) ==
    /\ Open
    /\ Arrives(r)
    /\ Expected(r)
    /\ ~Authentic(r)
    /\ badmac_seen' = IF phase # "finished" /\ BadmacLimit # 0 THEN badmac_seen + 1
                      ELSE badmac_seen
    /\ phase' = IF \/ phase = "finished"
                   \/ BadmacLimit # 0 /\ badmac_seen + 1 >= BadmacLimit
                THEN "closed" ELSE phase
    /\ in_msgtype' = "none"
    /\ in_hslen' = "zero"
    /\ UNCHANGED <<window, saved, seen>>

\* A buffered record that was received again in the meantime is dropped.
DropBuffered ==
    /\ Open
    /\ future # None
    /\ future.epoch = in_epoch
    /\ ~ReplayCheck(future.seq)
    /\ future' = None
    /\ UNCHANGED <<window, badmac_seen, message, phase, saved, seen>>

\* ssl_buffer_future_record()
BufferFutureRecord(r) ==
    /\ Open
    /\ HandshakeExists
    /\ r.epoch = in_epoch + 1
    /\ r.type = "handshake"
    /\ future = None
    /\ future' = r
    /\ UNCHANGED <<window, badmac_seen, message, phase, saved, seen>>

-----------------------------------------------------------------------------
(* What the handshake and the application do.                              *)

\* mbedtls_ssl_recv_flight_completed() frees the buffered record, as does
\* ssl_buffer_make_space() before.
RecvFlightCompleted ==
    /\ phase = "hello"
    /\ in_msgtype = "handshake"
    /\ in_hslen = "message"
    /\ future' = None
    /\ UNCHANGED <<window, badmac_seen, message, phase, saved, seen>>

\* mbedtls_ssl_parse_change_cipher_spec()
ParseChangeCipherSpec ==
    /\ phase = "hello"
    /\ ReplayReset
    /\ in_epoch' = (in_epoch + 1) % (MaxEpoch + 1)
    /\ phase' = IF in_epoch = MaxEpoch THEN "closed" ELSE "finished"
    /\ in_msgtype' = "other"
    /\ in_hslen' = "zero"
    /\ UNCHANGED <<badmac_seen, future, saved, seen>>

\* mbedtls_ssl_parse_finished() on the Finished message.
ParseFinished ==
    /\ phase = "finished"
    /\ in_msgtype = "handshake"
    /\ in_hslen = "message"
    /\ phase' = "over"
    /\ future' = None
    /\ UNCHANGED <<window, badmac_seen, message, saved, seen>>

\* mbedtls_ssl_handshake_wrapup_free_hs_transform()
FreeHandshake ==
    /\ phase = "over"
    /\ phase' = "idle"
    /\ future' = None
    /\ UNCHANGED <<window, badmac_seen, message, saved, seen>>

\* mbedtls_ssl_start_renegotiation(), on either side
StartRenegotiation ==
    /\ renegotiation
    /\ HandshakeOver
    /\ phase' = "hello"
    /\ future' = None
    /\ UNCHANGED <<window, badmac_seen, message, saved, seen>>

\* A call failed for another reason, or the application closes.
Close ==
    /\ Open
    /\ phase' = "closed"
    /\ UNCHANGED <<window, badmac_seen, message, future, saved, seen>>

\* mbedtls_ssl_session_reset_int(): a new association begins.
Reset(partial) ==
    /\ in_epoch' = 0
    /\ ReplayReset
    /\ badmac_seen' = IF partial THEN badmac_seen ELSE 0
    /\ in_msgtype' = "none"
    /\ in_hslen' = "zero"
    /\ future' = None
    /\ phase' = "hello"
    /\ seen' = Unseen

SessionReset == Reset(FALSE) /\ UNCHANGED saved

\* ssl_handle_possible_reconnect(): a ClientHello of epoch 0 with a valid
\* cookie, from the address of the peer, when a connection is established.
ClientReconnect ==
    /\ HandshakeOver
    /\ in_epoch # 0
    /\ Reset(TRUE)
    /\ UNCHANGED saved

\* mbedtls_ssl_context_save()
ContextSave ==
    /\ phase = "idle"
    /\ ~renegotiation
    /\ saved' = [valid |-> TRUE, top |-> in_window_top, window |-> in_window,
                 badmac |-> badmac_seen, seen |-> seen]
    /\ Reset(FALSE)

\* Fault: the window is not restored.
ContextLoadFresh ==
    /\ saved.valid
    /\ phase = "hello" /\ in_epoch = 0 /\ seen = Unseen
    /\ in_epoch' = 1
    /\ badmac_seen' = saved.badmac
    /\ phase' = "idle"
    /\ seen' = saved.seen
    /\ saved' = NothingSaved
    /\ UNCHANGED <<in_window_top, in_window, message, future>>

\* mbedtls_ssl_context_load() into a context that was not used.  A context
\* must not be loaded twice.
ContextLoad ==
    /\ saved.valid
    /\ phase = "hello" /\ in_epoch = 0 /\ seen = Unseen
    /\ in_epoch' = 1
    /\ in_window_top' = saved.top
    /\ in_window' = saved.window
    /\ badmac_seen' = saved.badmac
    /\ phase' = "idle"
    /\ future' = None
    /\ seen' = saved.seen
    /\ saved' = NothingSaved
    /\ UNCHANGED message

-----------------------------------------------------------------------------
RecordInit ==
    /\ in_epoch = 0
    /\ in_window_top = 0
    /\ in_window = {}
    /\ badmac_seen = 0
    /\ in_msgtype = "none"
    /\ in_hslen = "zero"
    /\ future = None
    /\ phase = "hello"
    /\ renegotiation \in BOOLEAN
    /\ saved = NothingSaved
    /\ seen = Unseen

RecordNext ==
    /\ \/ \E r \in Records : AcceptRecord(r) \/ BadMac(r) \/ BufferFutureRecord(r)
       \/ DropBuffered
       \/ RecvFlightCompleted
       \/ ParseChangeCipherSpec
       \/ ParseFinished
       \/ FreeHandshake
       \/ StartRenegotiation
       \/ Close
       \/ SessionReset
       \/ ClientReconnect
       \/ ContextSave
       \/ ContextLoad
    /\ UNCHANGED renegotiation

RecordSpec == RecordInit /\ [][RecordNext]_recordVars

-----------------------------------------------------------------------------
(* Properties.                                                             *)

(* No record of an association is handed to the layer above twice, however *)
(* the network duplicates and reorders records, across changes of epoch,   *)
(* the buffered record of the next epoch, and a context that is serialised *)
(* and loaded again.                                                       *)
NoReplay == AntiReplay => \A r \in Epochs \X Seqs : seen[r] <= 1

\* The window and its top tell which records of an epoch were seen.
Tracks(bits, top, epoch, counts) ==
    /\ \A n \in Bits : n \in bits <=> n <= top /\ counts[<<epoch, top - n>>] > 0
    /\ \A s \in Seqs : s > top => counts[<<epoch, s>>] = 0

(* What the comment on in_window promises: bit n is set iff the record     *)
(* in_window_top - n of this epoch has been seen; and in_window_top is the *)
(* last record seen, so that no record above it has been.                  *)
WindowIsExact == AntiReplay /\ Open => Tracks(in_window, in_window_top, in_epoch, seen)

(* The window refuses nothing it need not refuse: a record is let through  *)
(* if it was not seen and is newer than the WindowBits latest numbers.     *)
FreshIsAccepted ==
    Open => \A s \in Seqs :
        seen[<<in_epoch, s>>] = 0 /\ s > in_window_top - WindowBits => ReplayCheck(s)

(* include/mbedtls/ssl.h says that in DTLS badmac_seen_or_in_hsfraglen     *)
(* counts the records with a bad MAC and does not hold the length of       *)
(* handshake fragments.  Then a handshake message reaches the handshake    *)
(* layer with in_hslen set, whatever was received before.                  *)
HandshakeLengthIsSet == in_msgtype = "handshake" => in_hslen = "message"
=============================================================================
