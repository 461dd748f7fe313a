----------------------------- MODULE DtlsFlight -----------------------------
(***************************************************************************)
(* How a DTLS endpoint sends its flights of handshake messages and sends   *)
(* them again (ssl_msg.c, with write_finished and handshake_wrapup of      *)
(* ssl_tls.c): messages are queued, fragmented and packed into datagrams;  *)
(* the transport may refuse to take a datagram (WANT_WRITE), which ends    *)
(* the call in the middle of the loop; the retransmission timer doubles    *)
(* and reduces the MTU; the two outgoing epochs are swapped so that the    *)
(* Finished message alone goes out under the new one.                      *)
(*                                                                         *)
(* One iteration of the loop of mbedtls_ssl_flight_transmit() is an action.*)
(* What the peer answers is arbitrary.                                     *)
(***************************************************************************)
EXTENDS Integers, Sequences

CONSTANTS
    Configs,        \* the endpoints considered: the flights one sends in a
                    \* handshake, whether it is a client (conf->endpoint)
                    \* and whether it sends the last flight
    HsHdr,          \* length of the handshake header: 12
    Expansion,      \* mbedtls_ssl_get_record_expansion() in either epoch
    OutBuf,         \* MBEDTLS_SSL_OUT_BUFFER_LEN
    MaxFrag,        \* the maximum fragment length in force
    Mtus,           \* values the application gives to mbedtls_ssl_set_mtu()
    ReducedMtu,     \* what handshake->mtu backs off to: 508
    Packing,        \* disable_datagram_packing is 0
    TimeoutMin,     \* conf->hs_timeout_min
    TimeoutMax,     \* conf->hs_timeout_max
    MaxCtr,         \* largest record number in an epoch: 2^48 - 1
    MaxPeerResends, \* bound: how often the peer retransmits
    MaxMtuChanges   \* bound: how often the application sets the MTU

Types == {"handshake", "ccs", "finished"}
Messages == [type : Types, len : Nat]
EpochSet == {0, 1}
Ctrs == 0 .. MaxCtr

ASSUME ConfigsAreEndpoints ==
    Configs \subseteq [flights : Seq(Seq(Messages) \ {<<>>}) \ {<<>>},
                      client : BOOLEAN, sends_last : BOOLEAN]
ASSUME SizesAreNat ==
    /\ {HsHdr, OutBuf, MaxFrag, ReducedMtu, MaxCtr, MaxPeerResends, MaxMtuChanges} \subseteq Nat
    /\ Mtus \subseteq Nat
    /\ Expansion \in [EpochSet -> Nat \ {0}]
\* mbedtls_ssl_write_finished() is called once, at the end of the last flight.
ASSUME FinishedIsLast ==
    \A c \in Configs : \A s \in 1 .. Len(c.flights) : \A i \in 1 .. Len(c.flights[s]) :
        c.flights[s][i].type = "finished" <=> s = Len(c.flights) /\ i = Len(c.flights[s])
ASSUME TimeoutsAreOrdered ==
    TimeoutMin \in Nat \ {0} /\ TimeoutMax \in Nat /\ TimeoutMin <= TimeoutMax
ASSUME SwitchIsBoolean == Packing \in BOOLEAN

VARIABLES
    conf,           \* the endpoint this is; never changes
    step,           \* the flight being prepared or waiting for an answer
    in_hello,       \* state is CLIENT_HELLO or SERVER_HELLO
    phase,          \* handshake, over (state HANDSHAKE_OVER), freed (and
                    \* ssl->handshake freed), failed (the call returned an error)
    pc,             \* loop: inside mbedtls_ssl_flight_transmit(); out: the
                    \* application has control
    flight,         \* handshake->flight
    cur_msg,        \* index of handshake->cur_msg in flight, 0 for NULL
    cur_msg_p,      \* offset in the body of the current message
    epochs,         \* cur: transform_out and cur_out_ctr; alt: the alternative ones
    out_left,
    out_buf,        \* history: what the records waiting in out_buf contain
    retransmit_state,
    retransmit_timeout,
    timer,          \* the timer is running
    mtu,            \* ssl->mtu
    hs_mtu,         \* handshake->mtu
    resends,        \* bound: retransmissions of the peer so far
    mtu_changes,    \* bound: changes of the MTU so far
    uses,           \* history: records written with each number
    given,          \* history: bytes of the flight given to the transport
                    \* since its transmission began
    app_epochs      \* history: the epochs application data was written in

Flights == conf.flights
IsClient == conf.client
SendsLast == conf.sends_last
LastFlight == Len(Flights)

control == <<step, in_hello, phase, pc, flight>>
position == <<cur_msg, cur_msg_p>>
output == <<epochs, out_left, out_buf, uses, given>>
retrans == <<retransmit_state, retransmit_timeout, timer>>
limits == <<mtu, hs_mtu, mtu_changes>>
vars == <<conf, control, position, output, retrans, limits, resends, app_epochs>>

\* The bytes of the messages of a flight, each with an end mark.
Bytes(f) == UNION {{i} \X (0 .. f[i].len) : i \in 1 .. Len(f)}

-----------------------------------------------------------------------------
(* Room in the datagram.                                                   *)

Smaller(a, b) == IF a < b THEN a ELSE b

\* mbedtls_ssl_get_current_mtu(): no limit while the ClientHello is sent
CurrentMtu ==
    IF in_hello THEN 0
    ELSE IF phase = "freed" \/ hs_mtu = 0 THEN mtu
    ELSE IF mtu = 0 THEN hs_mtu
    ELSE Smaller(mtu, hs_mtu)

\* ssl_get_maximum_datagram_size()
MaxDatagram == IF CurrentMtu # 0 THEN Smaller(CurrentMtu, OutBuf) ELSE OutBuf

\* ssl_get_remaining_payload_in_datagram(), with left bytes waiting, in epoch e
RemainingPayload(left, e) ==
    IF MaxFrag <= left \/ MaxDatagram <= left + Expansion[e] THEN 0
    ELSE Smaller(MaxDatagram - left - Expansion[e], MaxFrag - left)

-----------------------------------------------------------------------------
(* Records.                                                                *)

Current == flight[cur_msg]
IsFinished == Current.type = "finished"

\* Fault: the alternative counter is not remembered.
SwapEpochsForgetful(p) ==
    IF p.cur.epoch = p.alt.epoch THEN p
    ELSE [cur |-> [p.alt EXCEPT !.ctr = 0], alt |-> p.cur]

\* ssl_swap_epochs()
SwapEpochs(p) == IF p.cur.epoch = p.alt.epoch THEN p ELSE [cur |-> p.alt, alt |-> p.cur]

\* mbedtls_ssl_flush_output(), when left bytes holding content are waiting;
\* ok is whether the transport takes them.
FlushReturns0(left, ok) == left = 0 \/ ok
FlushOutput(left, content, ok) ==
    IF FlushReturns0(left, ok)
    THEN /\ out_left' = 0
         /\ out_buf' = {}
         /\ given' = given \cup content
    ELSE /\ out_left' = left
         /\ out_buf' = content
         /\ UNCHANGED given

\* Fault: a datagram that is full is not flushed.
MustFlushIfForced(left, e, force) == force

\* mbedtls_ssl_write_record() of len bytes holding content, in the current
\* epoch of p.  The counter must not wrap.
MustFlush(left, e, force) == force \/ RemainingPayload(left, e) = 0
WriteRecord(p, len, content, force, ok) ==
    LET e == p.cur.epoch
        left == out_left + len + Expansion[e]
    IN  /\ uses' = [uses EXCEPT ![<<e, p.cur.ctr>>] = @ + 1]
        /\ epochs' = [p EXCEPT !.cur.ctr = IF @ = MaxCtr THEN 0 ELSE @ + 1]
        /\ IF p.cur.ctr # MaxCtr /\ MustFlush(left, e, force)
           THEN FlushOutput(left, out_buf \cup content, ok)
           ELSE /\ out_left' = left
                /\ out_buf' = out_buf \cup content
                /\ UNCHANGED given
        /\ phase' = IF p.cur.ctr = MaxCtr THEN "failed" ELSE phase
        /\ pc' = IF \/ p.cur.ctr = MaxCtr
                    \/ (MustFlush(left, e, force) /\ ~FlushReturns0(left, ok))
                 THEN "out" ELSE pc

-----------------------------------------------------------------------------
(* mbedtls_ssl_flight_transmit().                                          *)

\* Enter the function with f as the flight and p as the epochs.
StartTransmit(f, p) ==
    /\ pc' = "loop"
    /\ cur_msg' = 1
    /\ cur_msg_p' = 0
    /\ epochs' = SwapEpochs(p)
    /\ retransmit_state' = "SENDING"
    /\ given' = {}

\* The epochs once "swap epochs before sending Finished" was passed.
EpochsToSend == IF IsFinished /\ cur_msg_p = 0 THEN SwapEpochs(epochs) ELSE epochs

\* Fault: a handshake message is sent whole.
NoRoomUnfragmented ==
    LET room == RemainingPayload(out_left, EpochsToSend.cur.epoch)
    IN  IF Current.type = "ccs" THEN room = 0 ELSE room < HsHdr + Current.len

\* A handshake message needs room for its header and a byte of its body.
NoRoom ==
    LET room == RemainingPayload(out_left, EpochsToSend.cur.epoch)
    IN  IF Current.type = "ccs" THEN room = 0
        ELSE room < HsHdr \/ (room = HsHdr /\ Current.len # 0)

Looping == phase # "failed" /\ pc = "loop" /\ cur_msg # 0

\* What is waiting is flushed to make room, and the loop starts over.
TransmitMakesRoom(ok) ==
    /\ Looping
    /\ NoRoom
    /\ epochs' = IF IsFinished THEN SwapEpochs(EpochsToSend) ELSE EpochsToSend
    /\ FlushOutput(out_left, out_buf, ok)
    /\ pc' = IF FlushReturns0(out_left, ok) THEN "loop" ELSE "out"
    /\ UNCHANGED <<step, in_hello, phase, flight, position, uses, retrans, limits, resends, app_epochs>>

FragmentLength ==
    Smaller(Current.len - cur_msg_p,
            RemainingPayload(out_left, EpochsToSend.cur.epoch) - HsHdr)

\* The next position, when len bytes of the current message were copied.
Advance(len) ==
    IF Current.type = "ccs" \/ cur_msg_p + len = Current.len
    THEN cur_msg' = (IF cur_msg < Len(flight) THEN cur_msg + 1 ELSE 0) /\ cur_msg_p' = 0
    ELSE cur_msg_p' = cur_msg_p + len /\ UNCHANGED cur_msg

\* The bytes of the body copied into a record, and its end, with the epoch.
Copied(len) ==
    LET last == IF cur_msg_p + len = Current.len THEN Current.len ELSE cur_msg_p + len - 1
    IN  {[msg |-> cur_msg, byte |-> b, epoch |-> EpochsToSend.cur.epoch] : b \in cur_msg_p .. last}

\* Fault: a message that did not fit is cut off.
TransmitTruncates(ok) ==
    LET len == IF Current.type = "ccs" THEN Current.len ELSE FragmentLength
        hdr == IF Current.type = "ccs" THEN 0 ELSE HsHdr
    IN  /\ Looping
        /\ ~NoRoom
        /\ WriteRecord(EpochsToSend, hdr + len, Copied(len), ~Packing, ok)
        /\ cur_msg' = (IF cur_msg < Len(flight) THEN cur_msg + 1 ELSE 0)
        /\ cur_msg_p' = 0
        /\ UNCHANGED <<step, in_hello, flight, retrans, limits, resends, app_epochs>>

\* A fragment of the current message, or a ChangeCipherSpec, is written.
TransmitFragment(ok) ==
    LET len == IF Current.type = "ccs" THEN Current.len ELSE FragmentLength
        hdr == IF Current.type = "ccs" THEN 0 ELSE HsHdr
    IN  /\ Looping
        /\ ~NoRoom
        /\ WriteRecord(EpochsToSend, hdr + len, Copied(len), ~Packing, ok)
        /\ Advance(len)
        /\ UNCHANGED <<step, in_hello, flight, retrans, limits, resends, app_epochs>>

\* Fault: the timer is not started.
TransmitEndsTimerless(ok) ==
    /\ phase # "failed"
    /\ pc = "loop"
    /\ cur_msg = 0
    /\ FlushOutput(out_left, out_buf, ok)
    /\ pc' = "out"
    /\ retransmit_state' = IF ~FlushReturns0(out_left, ok) THEN retransmit_state
                           ELSE IF phase = "over" THEN "FINISHED" ELSE "WAITING"
    /\ UNCHANGED <<step, in_hello, phase, flight, position, epochs, uses, retransmit_timeout, timer,
                   limits, resends, app_epochs>>

\* The last message was written: the rest is flushed.
TransmitEnds(ok) ==
    /\ phase # "failed"
    /\ pc = "loop"
    /\ cur_msg = 0
    /\ FlushOutput(out_left, out_buf, ok)
    /\ pc' = "out"
    /\ IF ~FlushReturns0(out_left, ok) THEN UNCHANGED <<retransmit_state, timer>>
       ELSE IF phase = "over" THEN retransmit_state' = "FINISHED" /\ UNCHANGED timer
       ELSE retransmit_state' = "WAITING" /\ timer' = TRUE
    /\ UNCHANGED <<step, in_hello, phase, flight, position, epochs, uses, retransmit_timeout, limits, resends,
                   app_epochs>>

\* ssl_prepare_handshake_step() and mbedtls_ssl_read(): what is waiting is
\* flushed, then the transmission goes on.  Nothing changes if the transport
\* still takes nothing.
Resume ==
    /\ phase \in {"handshake", "over"}
    /\ pc = "out"
    /\ out_left # 0 \/ retransmit_state = "SENDING"
    /\ FlushOutput(out_left, out_buf, TRUE)
    /\ pc' = IF retransmit_state = "SENDING" THEN "loop" ELSE "out"
    /\ UNCHANGED <<step, in_hello, phase, flight, position, epochs, uses, retrans, limits, resends, app_epochs>>

-----------------------------------------------------------------------------
(* The handshake.                                                          *)

\* A handshake step is taken: everything before it was sent.
Ready == pc = "out" /\ out_left = 0 /\ retransmit_state # "SENDING"
Preparing == phase = "handshake" /\ Ready /\ step > 0 /\ Len(flight) < Len(Flights[step])
NextMessage == Flights[step][Len(flight) + 1]

\* mbedtls_ssl_write_handshake_msg() only queues the message.
WriteHandshakeMsg ==
    /\ Preparing
    /\ Len(flight) + 1 < Len(Flights[step])
    /\ flight' = Append(flight, NextMessage)
    /\ UNCHANGED <<step, in_hello, phase, pc, position, output, retrans, limits, resends, app_epochs>>

\* The epochs after mbedtls_ssl_write_finished() switched to the new one.
SwitchEpoch(p) == [cur |-> [epoch |-> 1, ctr |-> 0], alt |-> p.cur]

\* The last message of the flight: mbedtls_ssl_send_flight_completed(), the
\* message is queued, and the transmission starts.
WriteLastMsg ==
    /\ Preparing
    /\ Len(flight) + 1 = Len(Flights[step])
    /\ flight' = Append(flight, NextMessage)
    /\ StartTransmit(flight', IF NextMessage.type = "finished" THEN SwitchEpoch(epochs) ELSE epochs)
    /\ retransmit_timeout' = TimeoutMin
    /\ timer' = TRUE
    /\ UNCHANGED <<step, in_hello, phase, out_left, out_buf, uses, limits, resends, app_epochs>>

\* The whole flight is queued: the peer's answer is read.
Reading ==
    /\ Ready
    /\ \/ phase = "handshake" /\ (step > 0 => Len(flight) = Len(Flights[step]))
       \/ phase = "over"
Waiting == Reading /\ phase = "handshake" /\ ~(step = LastFlight /\ SendsLast)

\* mbedtls_ssl_recv_flight_completed(): the answer is complete.  A Finished
\* message ends it if it is the peer's last flight.
RecvFlightCompleted ==
    /\ Waiting
    /\ flight' = <<>>
    /\ given' = {}
    /\ cur_msg' = 0
    /\ timer' = FALSE
    /\ retransmit_state' = IF step = LastFlight \/ (SendsLast /\ step + 1 = LastFlight)
                           THEN "FINISHED" ELSE "PREPARING"
    /\ IF step = LastFlight THEN phase' = "freed" /\ UNCHANGED step
       ELSE step' = step + 1 /\ UNCHANGED phase
    /\ in_hello' = FALSE
    /\ UNCHANGED <<pc, cur_msg_p, epochs, out_left, out_buf, uses, retransmit_timeout, limits,
                   resends, app_epochs>>

\* The ServerHello arrived, which is not the end of the answer.
ReceiveServerHello ==
    /\ Waiting
    /\ in_hello
    /\ in_hello' = FALSE
    /\ UNCHANGED <<step, phase, pc, flight, position, output, retrans, limits, resends, app_epochs>>

\* ssl_double_retransmit_timeout()
DoubledTimeout == Smaller(2 * retransmit_timeout, TimeoutMax)

\* mbedtls_ssl_fetch_input() finds that the timer expired: retransmit, with
\* a smaller MTU from the second time on, or give up.
TimerExpires ==
    /\ Reading
    /\ phase = "handshake"
    /\ timer
    /\ IF retransmit_timeout >= TimeoutMax
       THEN /\ phase' = "failed"
            /\ timer' = FALSE
            /\ UNCHANGED <<pc, position, epochs, given, retransmit_state, retransmit_timeout, hs_mtu>>
       ELSE /\ retransmit_timeout' = DoubledTimeout
            /\ hs_mtu' = IF retransmit_timeout # TimeoutMin THEN ReducedMtu ELSE hs_mtu
            /\ StartTransmit(flight, epochs)
            /\ timer' = FALSE
            /\ UNCHANGED phase
    /\ UNCHANGED <<step, in_hello, flight, out_left, out_buf, uses, mtu, mtu_changes, resends, app_epochs>>

\* The last message of the peer's previous flight arrives again
\* (mbedtls_ssl_prepare_handshake_record()): the flight is sent again.
PeerRetransmits ==
    /\ Reading
    /\ flight # <<>>
    /\ step > 1 \/ ~IsClient
    /\ resends < MaxPeerResends
    /\ resends' = resends + 1
    /\ StartTransmit(flight, epochs)
    /\ UNCHANGED <<step, in_hello, phase, flight, out_left, out_buf, uses, retransmit_timeout, timer, limits,
                   app_epochs>>

\* mbedtls_ssl_handshake_wrapup() after the last flight: it is kept in case
\* the peer needs it again.
HandshakeWrapup ==
    /\ Reading
    /\ phase = "handshake"
    /\ step = LastFlight
    /\ SendsLast
    /\ phase' = "over"
    /\ timer' = FALSE
    /\ UNCHANGED <<step, in_hello, pc, flight, position, output, retransmit_state, retransmit_timeout, limits,
                   resends, app_epochs>>

\* mbedtls_ssl_handshake_wrapup_free_hs_transform(), when application data
\* shows that the peer finished the handshake
FreeHandshake ==
    /\ Reading
    /\ phase = "over"
    /\ phase' = "freed"
    /\ flight' = <<>>
    /\ given' = {}
    /\ cur_msg' = 0
    /\ hs_mtu' = 0
    /\ UNCHANGED <<step, in_hello, pc, cur_msg_p, epochs, out_left, out_buf, uses, retrans, mtu,
                   mtu_changes, resends, app_epochs>>

-----------------------------------------------------------------------------
(* The application.                                                        *)

\* ssl_write_real(): what is waiting is taken for the data and flushed,
\* otherwise the data is written in a record and flushed. The application
\* repeats the call that returned WANT_WRITE before it makes another one.
WriteReal(ok) ==
    /\ phase \in {"over", "freed"}
    /\ pc = "out"
    /\ retransmit_state # "SENDING"
    /\ IF out_left # 0
       THEN /\ FlushOutput(out_left, out_buf, ok)
            /\ UNCHANGED <<phase, pc, epochs, uses, app_epochs>>
       ELSE /\ MaxDatagram > Expansion[epochs.cur.epoch]
            /\ WriteRecord(epochs, 1, {}, TRUE, ok)
            /\ app_epochs' = app_epochs \cup {epochs.cur.epoch}
    /\ UNCHANGED <<step, in_hello, flight, position, retrans, limits, resends>>

\* mbedtls_ssl_set_mtu() may be called at any point.
SetMtu(m) ==
    /\ pc = "out"
    /\ phase # "failed"
    /\ mtu_changes < MaxMtuChanges
    /\ m # mtu
    /\ mtu' = m
    /\ mtu_changes' = mtu_changes + 1
    /\ UNCHANGED <<control, position, output, retrans, hs_mtu, resends, app_epochs>>

\* The connection has ended, or is used for application data only.
Terminated ==
    /\ phase \in {"failed", "freed"}
    /\ UNCHANGED vars

-----------------------------------------------------------------------------
Init ==
    /\ conf \in Configs
    /\ step = IF IsClient THEN 1 ELSE 0
    /\ in_hello = IsClient
    /\ phase = "handshake"
    /\ pc = "out"
    /\ flight = <<>>
    /\ cur_msg = 0
    /\ cur_msg_p = 0
    /\ epochs = [cur |-> [epoch |-> 0, ctr |-> 0], alt |-> [epoch |-> 0, ctr |-> 0]]
    /\ out_left = 0
    /\ out_buf = {}
    /\ retransmit_state = IF IsClient THEN "PREPARING" ELSE "WAITING"
    /\ retransmit_timeout = 0
    /\ timer = FALSE
    /\ mtu \in Mtus
    /\ hs_mtu = 0
    /\ resends = 0
    /\ mtu_changes = 0
    /\ uses = [n \in EpochSet \X Ctrs |-> 0]
    /\ given = {}
    /\ app_epochs = {}

Transmit(ok) == TransmitMakesRoom(ok) \/ TransmitFragment(ok) \/ TransmitEnds(ok)

Next ==
    /\ \/ WriteHandshakeMsg
       \/ WriteLastMsg
       \/ \E ok \in BOOLEAN : Transmit(ok) \/ WriteReal(ok)
       \/ Resume
       \/ ReceiveServerHello
       \/ RecvFlightCompleted
       \/ TimerExpires
       \/ PeerRetransmits
       \/ HandshakeWrapup
       \/ FreeHandshake
       \/ \E m \in Mtus : SetMtu(m)
       \/ Terminated
    /\ UNCHANGED conf

Spec == Init /\ [][Next]_vars

\* The application goes on with the handshake whenever a call returned
\* WANT_WRITE or WANT_READ; the transport takes a datagram sooner or later;
\* the timer expires if nothing stops it.
Fairness ==
    /\ WF_vars(WriteHandshakeMsg /\ UNCHANGED conf)
    /\ WF_vars(WriteLastMsg /\ UNCHANGED conf)
    /\ WF_vars((\E ok \in BOOLEAN : Transmit(ok)) /\ UNCHANGED conf)
    /\ WF_vars(Resume /\ UNCHANGED conf)
    /\ WF_vars(TimerExpires /\ UNCHANGED conf)
    /\ WF_vars(HandshakeWrapup /\ UNCHANGED conf)

FairSpec == Spec /\ Fairness

-----------------------------------------------------------------------------
(* Properties.                                                             *)

\* The buffer and every MTU that is set leave room for a fragment of one
\* byte, in either epoch.  mbedtls_ssl_set_mtu() takes any value.
FragmentsFit ==
    /\ MaxFrag > HsHdr
    /\ \A e \in EpochSet : \A m \in ((Mtus \cup {ReducedMtu}) \ {0}) \cup {OutBuf} :
           m > HsHdr + Expansion[e]

(* No two records are written with the same epoch and number, although the *)
(* epochs are swapped back and forth, in the middle of a flight and for    *)
(* every retransmission, and each swap exchanges two stored counters.      *)
RecordNumbersAreFresh == \A n \in EpochSet \X Ctrs : uses[n] <= 1

(* "Swap epochs before sending Finished": every byte of the Finished       *)
(* message, and application data written before or after the last flight   *)
(* is sent again, goes out under the new epoch, every other byte under the *)
(* old one.  This takes MTUs that leave room for a fragment.               *)
EpochsAreRight ==
    FragmentsFit =>
        /\ \A c \in given \cup out_buf : c.epoch = 1 <=> flight[c.msg].type = "finished"
        /\ app_epochs \subseteq {1}

(* When the endpoint reads, after any number of interrupted sendings with  *)
(* any sequence of MTUs, every byte of every message of its flight was     *)
(* given to the transport since the last (re)transmission began.           *)
FlightIsSentWhole ==
    Reading /\ flight # <<>> => {<<c.msg, c.byte>> : c \in given} = Bytes(flight)

(* With MTUs that leave room for a fragment, a transmission ends, however  *)
(* often it is interrupted and whatever the MTU is changed to in between:  *)
(* every round of the loop that only makes room is followed by a fragment. *)
TransmissionEnds ==
    FragmentsFit =>
        (retransmit_state = "SENDING" ~> retransmit_state # "SENDING" \/ phase = "failed")

(* With such MTUs, an endpoint that has a flight to send is answered, or   *)
(* it gives up.                                                            *)
HandshakeGoesOn ==
    FragmentsFit =>
        \A s \in UNION {1 .. Len(c.flights) : c \in Configs} :
            phase = "handshake" /\ step = s ~> phase # "handshake" \/ step # s

(* mbedtls_ssl_set_mtu() says that values lower than the record expansion  *)
(* will result in an error when trying to send data: a flight whose        *)
(* transmission finds such a value does not stay there for ever.           *)
BelowExpansion ==
    /\ retransmit_state = "SENDING"
    /\ CurrentMtu # 0
    /\ CurrentMtu < Expansion[epochs.cur.epoch]
LowMtuIsAnError == BelowExpansion ~> phase = "failed" \/ ~BelowExpansion
=============================================================================
