-------------------------- MODULE DtlsFlightProofs --------------------------
(***************************************************************************)
(* Proofs about DtlsFlight, for every list of flights, every limit on the  *)
(* size of records and every number of retransmissions and changes of the  *)
(* MTU: record numbers are not used twice, a flight is sent whole before   *)
(* the endpoint reads the answer and, with MTUs that leave room for a      *)
(* fragment, the Finished message alone goes out under the new epoch.      *)
(***************************************************************************)
EXTENDS DtlsFlight, TLAPS

Counters == [epoch : EpochSet, ctr : Ctrs]
SentBytes == [msg : Nat, byte : Nat, epoch : EpochSet]

(* The types of the variables. *)
TypeOK ==
    /\ conf \in Configs
    /\ step \in 0 .. LastFlight
    /\ in_hello \in BOOLEAN
    /\ phase \in {"handshake", "over", "freed", "failed"}
    /\ pc \in {"loop", "out"}
    /\ flight \in Seq(Messages)
    /\ cur_msg \in 0 .. Len(flight)
    /\ cur_msg_p \in Nat
    /\ epochs \in [cur : Counters, alt : Counters]
    /\ out_left \in Nat
    /\ out_buf \subseteq SentBytes
    /\ retransmit_state \in {"PREPARING", "SENDING", "WAITING", "FINISHED"}
    /\ mtu \in Mtus
    /\ hs_mtu \in {0, ReducedMtu}
    /\ uses \in [EpochSet \X Ctrs -> Nat]
    /\ given \subseteq SentBytes

\* The flight is queued whole.
Whole == step > 0 /\ Len(flight) = Len(Flights[step])

\* mbedtls_ssl_write_finished() has switched to the new epoch.
Switched == step = LastFlight /\ (Whole \/ phase = "freed")

\* What is queued are the first messages of the flight of this step.
FlightIsOfStep ==
    /\ step = 0 => flight = <<>>
    /\ step > 0 => /\ Len(flight) <= Len(Flights[step])
                   /\ \A i \in 1 .. Len(flight) : flight[i] = Flights[step][i]

\* Where the call is in the flight, and in the handshake.
PositionIsRight ==
    /\ timer => step > 0
    /\ pc = "loop" => retransmit_state = "SENDING"
    /\ retransmit_state = "SENDING" => Whole /\ phase # "freed"
    /\ cur_msg # 0 => /\ retransmit_state = "SENDING"
                      /\ cur_msg_p > 0 => /\ cur_msg_p < Current.len
                                          /\ Current.type # "ccs"
                                          /\ pc = "loop" => out_left = 0
    /\ phase = "over" => Whole /\ step = LastFlight
    /\ phase = "freed" => flight = <<>> /\ step = LastFlight

\* What is waiting in the buffer belongs to a transmission that goes on.
BufferIsOfFlight ==
    /\ out_left = 0 => out_buf = {}
    /\ retransmit_state # "SENDING" => out_buf = {}
    /\ ~Whole => given = {}

\* Which epoch is current.
EpochIsRight ==
    /\ ~Switched => epochs.cur.epoch = 0 /\ epochs.alt.epoch = 0
    /\ Switched => /\ epochs.cur.epoch # epochs.alt.epoch
                   /\ FragmentsFit => (epochs.cur.epoch = 1 <=>
                          (cur_msg = 0 \/ (IsFinished /\ cur_msg_p > 0)))

\* The numbers from a stored counter on were not used yet.
NumbersAreUnused ==
    /\ \A n \in Ctrs : n >= epochs.cur.ctr => uses[<<epochs.cur.epoch, n>>] = 0
    /\ epochs.alt.epoch # epochs.cur.epoch =>
           \A n \in Ctrs : n >= epochs.alt.ctr => uses[<<epochs.alt.epoch, n>>] = 0
    /\ ~Switched => \A n \in Ctrs : uses[<<1, n>>] = 0

\* What was written belongs to the flight, the Finished message to the new
\* epoch if fragments fit.
WrittenIsOfFlight ==
    \A c \in given \cup out_buf :
        /\ c.msg \in 1 .. Len(flight)
        /\ c.byte \in 0 .. flight[c.msg].len
        /\ FragmentsFit => (c.epoch = 1 <=> flight[c.msg].type = "finished")

\* Byte b of message m comes before the position.
IsBehind(m, b) == cur_msg = 0 \/ m < cur_msg \/ (m = cur_msg /\ b < cur_msg_p)

\* Everything before the position was written since the transmission began.
PrefixIsWritten ==
    Whole => \A m \in 1 .. Len(flight) : \A b \in 0 .. flight[m].len :
                 IsBehind(m, b) => \E c \in given \cup out_buf : c.msg = m /\ c.byte = b

Running ==
    /\ PositionIsRight
    /\ BufferIsOfFlight
    /\ EpochIsRight
    /\ NumbersAreUnused
    /\ PrefixIsWritten

(* The inductive invariant. *)
FlightInv ==
    /\ TypeOK
    /\ FlightIsOfStep
    /\ WrittenIsOfFlight
    /\ FragmentsFit => app_epochs \subseteq {1}
    /\ RecordNumbersAreFresh
    /\ phase # "failed" => Running

-----------------------------------------------------------------------------
(* The endpoints, the limits and the operators.                            *)

(* Every endpoint sends at least one flight, of at least one message.      *)
LEMMA Endpoint ==
    ASSUME TypeOK
    PROVE  /\ LastFlight \in Nat \ {0}
           /\ \A s \in 1 .. LastFlight : Flights[s] \in Seq(Messages) /\ Len(Flights[s]) \in Nat \ {0}
<1>1. Flights \in Seq(Seq(Messages) \ {<<>>}) \ {<<>>}
  BY ConfigsAreEndpoints DEF TypeOK, Flights
<1>2. LastFlight \in Nat \ {0}
  BY <1>1 DEF LastFlight
<1>3. \A s \in 1 .. LastFlight : Flights[s] \in Seq(Messages) \ {<<>>}
  BY <1>1 DEF LastFlight
<1> QED
  BY <1>2, <1>3

(* A datagram has room for a fragment if every MTU has.                    *)
LEMMA DatagramIsLarge ==
    ASSUME TypeOK
    PROVE  /\ MaxDatagram \in Nat
           /\ FragmentsFit => \A e \in EpochSet : MaxDatagram > HsHdr + Expansion[e]
BY SizesAreNat DEF FragmentsFit, TypeOK, MaxDatagram, CurrentMtu, Smaller, EpochSet

\* The room ssl_get_remaining_payload_in_datagram() finds is a natural
\* number, and an empty datagram has room for a fragment if one fits.
LEMMA RoomIsNat ==
    ASSUME TypeOK, NEW left \in Nat, NEW e \in EpochSet
    PROVE  /\ RemainingPayload(left, e) \in Nat
           /\ FragmentsFit /\ left = 0 => RemainingPayload(left, e) > HsHdr
<1>1. MaxDatagram \in Nat /\ (FragmentsFit => MaxDatagram > HsHdr + Expansion[e])
  BY DatagramIsLarge
<1>2. FragmentsFit => MaxFrag > HsHdr
  BY DEF FragmentsFit
<1> QED
  BY <1>1, <1>2, SizesAreNat DEF RemainingPayload, Smaller, EpochSet

(* A record that takes the room there is fills the datagram.               *)
LEMMA FullIsFlushed ==
    ASSUME TypeOK, NEW left \in Nat, NEW e \in EpochSet, RemainingPayload(left, e) > 0
    PROVE  RemainingPayload(left + RemainingPayload(left, e) + Expansion[e], e) = 0
<1>1. MaxDatagram \in Nat
  BY DatagramIsLarge
<1> QED
  BY <1>1, SizesAreNat DEF RemainingPayload, Smaller, EpochSet

\* mbedtls_ssl_swap_epochs() exchanges the two sets of counters unless they
\* are of the same epoch.
LEMMA Swapped ==
    ASSUME NEW p \in [cur : Counters, alt : Counters]
    PROVE  /\ SwapEpochs(p) \in [cur : Counters, alt : Counters]
           /\ p.cur.epoch = p.alt.epoch => SwapEpochs(p) = p
           /\ p.cur.epoch # p.alt.epoch => SwapEpochs(p).cur = p.alt /\ SwapEpochs(p).alt = p.cur
BY DEF SwapEpochs

(* mbedtls_ssl_flush_output() loses nothing.                               *)
LEMMA Flushed ==
    ASSUME NEW left \in Nat, NEW content \in SUBSET SentBytes, NEW ok,
           given \subseteq SentBytes, FlushOutput(left, content, ok)
    PROVE  /\ out_left' \in {0, left}
           /\ out_left' = 0 => out_buf' = {}
           /\ FlushReturns0(left, ok) => out_left' = 0
           /\ out_buf' \in {{}, content}
           /\ given' \subseteq SentBytes
           /\ given' \subseteq given \cup content
           /\ given' \cup out_buf' = given \cup content
BY DEF FlushOutput, FlushReturns0

(* mbedtls_ssl_write_record() takes the next number of the current epoch,  *)
(* fails when there is no other, and loses nothing.                        *)
LEMMA Written ==
    ASSUME TypeOK, NEW p \in [cur : Counters, alt : Counters], NEW len \in Nat,
           NEW content \in SUBSET SentBytes, NEW force, NEW ok,
           WriteRecord(p, len, content, force, ok)
    PROVE  /\ epochs' \in [cur : Counters, alt : Counters]
           /\ epochs'.cur.epoch = p.cur.epoch
           /\ epochs'.alt = p.alt
           /\ uses' = [uses EXCEPT ![<<p.cur.epoch, p.cur.ctr>>] = @ + 1]
           /\ phase' = (IF p.cur.ctr = MaxCtr THEN "failed" ELSE phase)
           /\ phase' # "failed" => epochs'.cur.ctr = p.cur.ctr + 1
           /\ pc' \in {pc, "out"}
           /\ out_left' \in Nat
           /\ out_left' = 0 => out_buf' = {}
           /\ out_buf' \in {{}, out_buf \cup content}
           /\ given' \subseteq SentBytes
           /\ given' \subseteq given \cup out_buf \cup content
           /\ given' \cup out_buf' = given \cup out_buf \cup content
           /\ pc' = "loop" /\ MustFlush(out_left + len + Expansion[p.cur.epoch], p.cur.epoch, force)
                  => out_left' = 0
<1> DEFINE left == out_left + len + Expansion[p.cur.epoch]
<1>1. left \in Nat \ {0} /\ p.cur.epoch \in EpochSet /\ p.cur.ctr \in Ctrs
  <2>1. p.cur.epoch \in EpochSet /\ p.cur.ctr \in Ctrs
    BY DEF Counters
  <2>2. Expansion[p.cur.epoch] \in Nat \ {0}
    BY <2>1, SizesAreNat
  <2>3. out_left \in Nat
    BY DEF TypeOK
  <2> QED
    BY <2>1, <2>2, <2>3
<1>2. epochs' = [p EXCEPT !.cur.ctr = IF @ = MaxCtr THEN 0 ELSE @ + 1]
  BY DEF WriteRecord
<1>3. /\ epochs' \in [cur : Counters, alt : Counters]
      /\ epochs'.cur.epoch = p.cur.epoch
      /\ epochs'.alt = p.alt
      /\ p.cur.ctr # MaxCtr => epochs'.cur.ctr = p.cur.ctr + 1
  BY <1>1, <1>2, SizesAreNat DEF Counters, Ctrs
<1>4. /\ uses' = [uses EXCEPT ![<<p.cur.epoch, p.cur.ctr>>] = @ + 1]
      /\ phase' = (IF p.cur.ctr = MaxCtr THEN "failed" ELSE phase)
      /\ pc' \in {pc, "out"}
  BY DEF WriteRecord
<1>5. CASE p.cur.ctr # MaxCtr /\ MustFlush(left, p.cur.epoch, force)
  <2>1. FlushOutput(left, out_buf \cup content, ok)
    BY <1>5 DEF WriteRecord
  <2>2. /\ out_left' \in {0, left}
        /\ out_left' = 0 => out_buf' = {}
        /\ FlushReturns0(left, ok) => out_left' = 0
        /\ out_buf' \in {{}, out_buf \cup content}
        /\ given' \subseteq SentBytes
        /\ given' \subseteq given \cup (out_buf \cup content)
        /\ given' \cup out_buf' = given \cup (out_buf \cup content)
    BY <1>1, <2>1, Flushed DEF TypeOK
  <2>3. pc' = "loop" => FlushReturns0(left, ok)
    BY <1>5 DEF WriteRecord
  <2> QED
    BY <1>1, <1>3, <1>4, <2>2, <2>3
<1>6. CASE ~(p.cur.ctr # MaxCtr /\ MustFlush(left, p.cur.epoch, force))
  <2>1. out_left' = left /\ out_buf' = out_buf \cup content /\ given' = given
    BY <1>6 DEF WriteRecord
  <2>2. pc' = "loop" => ~MustFlush(left, p.cur.epoch, force)
    BY <1>6 DEF WriteRecord
  <2> QED
    BY <1>1, <1>3, <1>4, <2>1, <2>2 DEF TypeOK
<1> QED
  BY <1>5, <1>6

-----------------------------------------------------------------------------
(* The steps of mbedtls_ssl_flight_transmit().                             *)

(* Inside the loop the position is at a message of the whole flight, and   *)
(* the Finished message is that message exactly when the epochs differ     *)
(* and it is the last one.                                                 *)
LEMMA AtAMessage ==
    ASSUME FlightInv, phase # "failed", cur_msg # 0
    PROVE  /\ Whole
           /\ Current \in Messages
           /\ Current = Flights[step][cur_msg]
           /\ IsFinished <=> step = LastFlight /\ cur_msg = Len(flight)
           /\ IsFinished => Switched
<1>1. /\ Whole /\ phase # "freed"
      /\ cur_msg \in 1 .. Len(flight)
      /\ step \in 1 .. LastFlight
  BY DEF FlightInv, Running, PositionIsRight, TypeOK, Whole
<1>2. Current \in Messages /\ Current = Flights[step][cur_msg]
  BY <1>1 DEF FlightInv, TypeOK, FlightIsOfStep, Current
<1>3. Flights[step][cur_msg].type = "finished" <=> step = LastFlight /\ cur_msg = Len(Flights[step])
  BY <1>1, FinishedIsLast DEF FlightInv, TypeOK, Whole, Flights, LastFlight
<1> QED
  BY <1>1, <1>2, <1>3 DEF IsFinished, Whole, Switched

(* The epoch a fragment goes out in.                                       *)
LEMMA EpochOfFragment ==
    ASSUME FlightInv, phase # "failed", cur_msg # 0
    PROVE  /\ EpochsToSend \in [cur : Counters, alt : Counters]
           /\ FragmentsFit => (EpochsToSend.cur.epoch = 1 <=> IsFinished)
           /\ \/ EpochsToSend = epochs
              \/ /\ EpochsToSend.cur = epochs.alt /\ EpochsToSend.alt = epochs.cur
                 /\ epochs.cur.epoch # epochs.alt.epoch
           /\ ~Switched => EpochsToSend = epochs
<1>1. epochs \in [cur : Counters, alt : Counters]
  BY DEF FlightInv, TypeOK
<1>2. IsFinished => Switched
  BY AtAMessage
<1>3. EpochIsRight
  BY DEF FlightInv, Running
<1>4. cur_msg_p \in Nat
  BY DEF FlightInv, TypeOK
<1>5. epochs.cur.epoch \in {0, 1} /\ epochs.alt.epoch \in {0, 1}
  BY <1>1 DEF Counters, EpochSet
<1> QED
  BY <1>1, <1>2, <1>3, <1>4, <1>5, Swapped DEF EpochsToSend, EpochIsRight

(* In the middle of a message the datagram is empty, so there is room.     *)
LEMMA RoomInTheMiddle ==
    ASSUME FlightInv, Looping, NoRoom, FragmentsFit
    PROVE  cur_msg_p = 0
<1>1. cur_msg # 0 /\ phase # "failed" /\ pc = "loop"
  BY DEF Looping
<1>2. EpochsToSend.cur.epoch \in EpochSet
  BY <1>1, EpochOfFragment DEF Counters
<1>3. CASE cur_msg_p > 0
  <2>1. out_left = 0 /\ Current.type # "ccs"
    BY <1>1, <1>3 DEF FlightInv, Running, PositionIsRight
  <2>2. RemainingPayload(out_left, EpochsToSend.cur.epoch) \in Nat
        /\ RemainingPayload(out_left, EpochsToSend.cur.epoch) > HsHdr
    BY <1>2, <2>1, RoomIsNat DEF FlightInv
  <2> QED
    BY <2>1, <2>2, SizesAreNat DEF NoRoom
<1> QED
  BY <1>3 DEF FlightInv, TypeOK

(* Only the buffer is flushed, and the epochs may be swapped if fragments  *)
(* do not fit: the rest of the invariant follows.                          *)
LEMMA FlushKeeps ==
    ASSUME FlightInv, phase # "failed", NEW ok,
           FlushOutput(out_left, out_buf, ok),
           pc' \in {"loop", "out"}, pc' = "loop" => retransmit_state = "SENDING",
           cur_msg # 0 /\ cur_msg_p > 0 => (pc' = "loop" => out_left' = 0),
           epochs' \in {epochs, SwapEpochs(epochs)}, FragmentsFit => epochs' = epochs,
           UNCHANGED <<conf, step, in_hello, phase, flight, position, uses,
                       retransmit_state, timer, mtu, hs_mtu, app_epochs>>
    PROVE  FlightInv'
<1> USE DEF position
<1>0. /\ epochs' \in [cur : Counters, alt : Counters]
      /\ epochs.cur.epoch = epochs.alt.epoch => epochs' = epochs
      /\ epochs' # epochs => epochs'.cur = epochs.alt /\ epochs'.alt = epochs.cur
  BY Swapped DEF FlightInv, TypeOK
<1>1. /\ out_left' \in {0, out_left}
      /\ out_left' = 0 => out_buf' = {}
      /\ out_buf' \in {{}, out_buf}
      /\ given' \subseteq SentBytes
      /\ given' \subseteq given \cup out_buf
      /\ given' \cup out_buf' = given \cup out_buf
  BY Flushed DEF FlightInv, TypeOK
<1>2. TypeOK'
  BY <1>0, <1>1 DEF FlightInv, TypeOK, Flights, LastFlight
<1>3. FlightIsOfStep'
  BY DEF FlightInv, FlightIsOfStep, Flights
<1>4. WrittenIsOfFlight'
  BY <1>1 DEF FlightInv, WrittenIsOfFlight
<1>5. (FragmentsFit => app_epochs \subseteq {1})' /\ RecordNumbersAreFresh'
  BY DEF FlightInv, RecordNumbersAreFresh
<1>6. PositionIsRight'
  BY DEF FlightInv, Running, PositionIsRight, Whole, Flights, LastFlight, Current
<1>7. BufferIsOfFlight'
  BY <1>1 DEF FlightInv, Running, BufferIsOfFlight, PositionIsRight, Whole, Flights
<1>8. EpochIsRight'
  BY <1>0 DEF FlightInv, Running, EpochIsRight, Switched, Whole, Flights, LastFlight, IsFinished, Current
<1>9. NumbersAreUnused'
  BY <1>0 DEF FlightInv, Running, NumbersAreUnused, Switched, Whole, Flights, LastFlight
<1>10. PrefixIsWritten'
  BY <1>1 DEF FlightInv, Running, PrefixIsWritten, Whole, Flights, IsBehind
<1> QED
  BY <1>2, <1>3, <1>4, <1>5, <1>6, <1>7, <1>8, <1>9, <1>10 DEF FlightInv, Running

\* A flush that makes room in mbedtls_ssl_flight_transmit() keeps the
\* invariant.
LEMMA MakesRoomKeeps ==
    ASSUME FlightInv, NEW ok \in BOOLEAN, TransmitMakesRoom(ok), UNCHANGED conf
    PROVE  FlightInv'
<1>1. phase # "failed" /\ pc = "loop" /\ cur_msg # 0
  BY DEF TransmitMakesRoom, Looping
<1>2. epochs \in [cur : Counters, alt : Counters]
  BY DEF FlightInv, TypeOK
<1>3. SwapEpochs(SwapEpochs(epochs)) = epochs
  BY <1>2 DEF SwapEpochs
<1>4. epochs' \in {epochs, SwapEpochs(epochs)}
  BY <1>3 DEF TransmitMakesRoom, EpochsToSend
<1>5. FragmentsFit => epochs' = epochs
  <2>1. FragmentsFit => cur_msg_p = 0
    BY RoomInTheMiddle DEF TransmitMakesRoom
  <2> QED
    BY <1>3, <2>1 DEF TransmitMakesRoom, EpochsToSend
<1>6. retransmit_state = "SENDING" /\ (cur_msg_p > 0 => out_left = 0)
  BY <1>1 DEF FlightInv, Running, PositionIsRight
<1>7. out_left' \in {0, out_left}
  BY DEF TransmitMakesRoom, FlushOutput
<1> QED
  BY <1>1, <1>4, <1>5, <1>6, <1>7, FlushKeeps DEF TransmitMakesRoom, retrans, limits

\* The end of a transmission, with its last flush, keeps the invariant.
LEMMA EndsKeeps ==
    ASSUME FlightInv, NEW ok \in BOOLEAN, TransmitEnds(ok), UNCHANGED conf
    PROVE  FlightInv'
<1> USE DEF TransmitEnds, position, limits
<1>1. /\ out_left' \in {0, out_left}
      /\ out_left' = 0 => out_buf' = {}
      /\ FlushReturns0(out_left, ok) => out_left' = 0
      /\ out_buf' \in {{}, out_buf}
      /\ given' \subseteq SentBytes
      /\ given' \subseteq given \cup out_buf
      /\ given' \cup out_buf' = given \cup out_buf
  BY Flushed DEF FlightInv, TypeOK
<1>2. /\ phase # "failed" /\ pc' = "out" /\ cur_msg = 0
      /\ retransmit_state = "SENDING"
      /\ retransmit_state' \in {"SENDING", "FINISHED", "WAITING"}
      /\ retransmit_state' = "SENDING" \/ out_left' = 0
  BY <1>1 DEF FlightInv, Running, PositionIsRight
<1>3. TypeOK'
  BY <1>1, <1>2 DEF FlightInv, TypeOK, Flights, LastFlight
<1>4. FlightIsOfStep'
  BY DEF FlightInv, FlightIsOfStep, Flights
<1>5. WrittenIsOfFlight'
  BY <1>1 DEF FlightInv, WrittenIsOfFlight
<1>6. (FragmentsFit => app_epochs \subseteq {1})' /\ RecordNumbersAreFresh'
  BY DEF FlightInv, RecordNumbersAreFresh
<1>7. PositionIsRight'
  BY <1>2 DEF FlightInv, Running, PositionIsRight, Whole, Flights, LastFlight
<1>8. BufferIsOfFlight'
  BY <1>1, <1>2 DEF FlightInv, Running, BufferIsOfFlight, PositionIsRight, Whole, Flights
<1>9. EpochIsRight'
  BY <1>2 DEF FlightInv, Running, EpochIsRight, Switched, Whole, Flights, LastFlight
<1>10. NumbersAreUnused'
  BY DEF FlightInv, Running, NumbersAreUnused, Switched, Whole, Flights, LastFlight
<1>11. PrefixIsWritten'
  BY <1>1, <1>2 DEF FlightInv, Running, PrefixIsWritten, Whole, Flights, IsBehind
<1> QED
  BY <1>3, <1>4, <1>5, <1>6, <1>7, <1>8, <1>9, <1>10, <1>11 DEF FlightInv, Running

\* A transmission that is resumed after WANT_WRITE keeps the invariant.
LEMMA ResumeKeeps ==
    ASSUME FlightInv, Resume, UNCHANGED conf
    PROVE  FlightInv'
<1>1. out_left' = 0
  BY DEF Resume, FlushOutput, FlushReturns0
<1>2. phase # "failed" /\ pc' \in {"loop", "out"} /\ (pc' = "loop" => retransmit_state = "SENDING")
  BY DEF Resume
<1>3. FlushOutput(out_left, out_buf, TRUE)
  BY DEF Resume
<1> QED
  BY <1>1, <1>2, <1>3, FlushKeeps DEF Resume, retrans, limits

(* A fragment moves the position over the bytes it copied.                 *)
LEMMA Copying ==
    ASSUME FlightInv, phase # "failed", cur_msg # 0,
           NEW len \in Nat, Advance(len), UNCHANGED flight,
           Current.type = "ccs" => len = Current.len,
           cur_msg_p + len <= Current.len,
           cur_msg_p + len < Current.len => len > 0
    PROVE  /\ Copied(len) \in SUBSET SentBytes
           /\ \A c \in Copied(len) : /\ c.msg = cur_msg
                                      /\ c.byte \in 0 .. Current.len
                                      /\ c.epoch = EpochsToSend.cur.epoch
           /\ cur_msg' \in 0 .. Len(flight) /\ cur_msg_p' \in Nat
           /\ cur_msg' # 0 /\ cur_msg_p' > 0 =>
                  /\ cur_msg' = cur_msg
                  /\ Current.type # "ccs"
                  /\ cur_msg_p' = cur_msg_p + len
                  /\ cur_msg_p' < Current.len
           /\ cur_msg' # 0 /\ cur_msg_p' = 0 => cur_msg' = cur_msg + 1
           /\ cur_msg' = 0 => cur_msg = Len(flight)
           /\ \A m \in 1 .. Len(flight) : \A b \in 0 .. flight[m].len :
                  IsBehind(m, b)' => \/ m < cur_msg \/ (m = cur_msg /\ b < cur_msg_p)
                                     \/ \E c \in Copied(len) : c.msg = m /\ c.byte = b
<1>1. /\ cur_msg \in 1 .. Len(flight)
      /\ cur_msg_p \in Nat
      /\ Len(flight) \in Nat
  BY DEF FlightInv, TypeOK
<1>2. Current \in Messages /\ Current.len \in Nat
  BY AtAMessage DEF Messages
<1>3. EpochsToSend.cur.epoch \in EpochSet
  BY EpochOfFragment DEF Counters
<1>4. Current.type = "ccs" => cur_msg_p = 0 /\ len = Current.len
  BY <1>1 DEF FlightInv, Running, PositionIsRight
<1> DEFINE done == cur_msg_p + len = Current.len
           last == IF done THEN Current.len ELSE cur_msg_p + len - 1
<1>5. Copied(len) = {[msg |-> cur_msg, byte |-> b, epoch |-> EpochsToSend.cur.epoch] : b \in cur_msg_p .. last}
  BY DEF Copied
<1>6. last \in Int /\ last <= Current.len
  BY <1>1, <1>2
<1>7. /\ done => cur_msg' = (IF cur_msg < Len(flight) THEN cur_msg + 1 ELSE 0) /\ cur_msg_p' = 0
      /\ ~done => cur_msg_p' = cur_msg_p + len /\ cur_msg' = cur_msg /\ Current.type # "ccs"
  BY <1>1, <1>2, <1>4 DEF Advance
<1> HIDE DEF last
<1>8. \A b \in cur_msg_p .. last : \E c \in Copied(len) : c.msg = cur_msg /\ c.byte = b
  <2> TAKE b \in cur_msg_p .. last
  <2> DEFINE c == [msg |-> cur_msg, byte |-> b, epoch |-> EpochsToSend.cur.epoch]
  <2>1. c \in Copied(len)
    BY <1>5
  <2>2. c.msg = cur_msg /\ c.byte = b
    OBVIOUS
  <2> HIDE DEF c
  <2> QED
    BY <2>1, <2>2
<1>9. Copied(len) \in SUBSET SentBytes
  BY <1>1, <1>3, <1>5, <1>6 DEF SentBytes
<1>10. \A c \in Copied(len) : /\ c.msg = cur_msg
                              /\ c.byte \in 0 .. Current.len
                              /\ c.epoch = EpochsToSend.cur.epoch
  <2> TAKE c \in Copied(len)
  <2>1. PICK b \in cur_msg_p .. last :
            c = [msg |-> cur_msg, byte |-> b, epoch |-> EpochsToSend.cur.epoch]
    BY <1>5
  <2>2. b \in 0 .. Current.len
    BY <1>1, <1>2, <1>6
  <2> QED
    BY <2>1, <2>2
<1>11. \A m \in 1 .. Len(flight) : \A b \in 0 .. flight[m].len :
          IsBehind(m, b)' => \/ m < cur_msg \/ (m = cur_msg /\ b < cur_msg_p)
                             \/ \E c \in Copied(len) : c.msg = m /\ c.byte = b
  <2> SUFFICES ASSUME NEW m \in 1 .. Len(flight), NEW b \in 0 .. flight[m].len,
                      IsBehind(m, b)', ~(m < cur_msg), ~(m = cur_msg /\ b < cur_msg_p)
               PROVE  \E c \in Copied(len) : c.msg = m /\ c.byte = b
    OBVIOUS
  <2>1. m = cur_msg /\ b \in cur_msg_p .. Current.len
    <3>1. CASE done
      BY <1>1, <1>2, <1>7, <3>1 DEF IsBehind, Current
    <3>2. CASE ~done
      BY <1>1, <1>2, <1>7, <3>2 DEF IsBehind, Current
    <3> QED
      BY <3>1, <3>2
  <2>2. b \in cur_msg_p .. last
    <3>1. CASE done
      BY <2>1, <3>1 DEF last
    <3>2. CASE ~done
      BY <1>1, <1>2, <1>7, <2>1, <3>2 DEF IsBehind, last
    <3> QED
      BY <3>1, <3>2
  <2> QED
    BY <1>8, <2>1, <2>2
<1> QED
  BY <1>1, <1>2, <1>7, <1>9, <1>10, <1>11

(* The number of a record was not used before, and the next one was not.   *)
LEMMA NumbersAfterWrite ==
    ASSUME FlightInv, phase # "failed",
           NEW p \in [cur : Counters, alt : Counters],
           \/ p = epochs
           \/ /\ p.cur = epochs.alt /\ p.alt = epochs.cur
              /\ epochs.cur.epoch # epochs.alt.epoch,
           uses' = [uses EXCEPT ![<<p.cur.epoch, p.cur.ctr>>] = @ + 1],
           ~Switched => p = epochs
    PROVE  /\ uses' \in [EpochSet \X Ctrs -> Nat]
           /\ RecordNumbersAreFresh'
           /\ \A n \in Ctrs : n >= p.cur.ctr + 1 => uses'[<<p.cur.epoch, n>>] = 0
           /\ p.alt.epoch # p.cur.epoch =>
                  \A n \in Ctrs : n >= p.alt.ctr => uses'[<<p.alt.epoch, n>>] = 0
           /\ ~Switched => \A n \in Ctrs : uses'[<<1, n>>] = 0
<1>1. uses \in [EpochSet \X Ctrs -> Nat]
  BY DEF FlightInv, TypeOK
<1>2. /\ p.cur.epoch \in EpochSet /\ p.cur.ctr \in Ctrs
      /\ p.alt.epoch \in EpochSet /\ p.alt.ctr \in Ctrs
  BY DEF Counters
<1>3. NumbersAreUnused
  BY DEF FlightInv, Running
<1>4. /\ \A n \in Ctrs : n >= p.cur.ctr => uses[<<p.cur.epoch, n>>] = 0
      /\ p.alt.epoch # p.cur.epoch =>
             \A n \in Ctrs : n >= p.alt.ctr => uses[<<p.alt.epoch, n>>] = 0
  BY <1>3 DEF NumbersAreUnused
<1>5. \A n \in Ctrs : n \in Nat
  BY SizesAreNat DEF Ctrs
<1>6. \A n \in EpochSet \X Ctrs : uses'[n] = IF n = <<p.cur.epoch, p.cur.ctr>> THEN uses[n] + 1 ELSE uses[n]
  BY <1>1, <1>2
<1>7. uses[<<p.cur.epoch, p.cur.ctr>>] = 0
  BY <1>2, <1>4, <1>5
<1>8. uses' \in [EpochSet \X Ctrs -> Nat]
  BY <1>1, <1>2
<1>9. RecordNumbersAreFresh'
  BY <1>1, <1>6, <1>7 DEF FlightInv, RecordNumbersAreFresh
<1>10. \A n \in Ctrs : n >= p.cur.ctr + 1 => uses'[<<p.cur.epoch, n>>] = 0
  BY <1>2, <1>4, <1>5, <1>6
<1>11. p.alt.epoch # p.cur.epoch => \A n \in Ctrs : n >= p.alt.ctr => uses'[<<p.alt.epoch, n>>] = 0
  BY <1>2, <1>4, <1>6
<1>12. ~Switched => \A n \in Ctrs : uses'[<<1, n>>] = 0
  <2>1. ~Switched => p.cur.epoch = 0
    BY DEF FlightInv, Running, EpochIsRight
  <2>2. \A n \in Ctrs : <<1, n>> \in EpochSet \X Ctrs
    BY DEF EpochSet
  <2>3. ~Switched => \A n \in Ctrs : <<1, n>> # <<p.cur.epoch, p.cur.ctr>>
    BY <2>1
  <2> QED
    BY <1>3, <1>6, <2>2, <2>3 DEF NumbersAreUnused
<1> QED
  BY <1>8, <1>9, <1>10, <1>11, <1>12

\* Writing one message or fragment of the flight keeps the invariant.
LEMMA FragmentKeeps ==
    ASSUME FlightInv, NEW ok \in BOOLEAN, TransmitFragment(ok), UNCHANGED conf
    PROVE  FlightInv'
<1> DEFINE p == EpochsToSend
           e == p.cur.epoch
           room == RemainingPayload(out_left, e)
           len == IF Current.type = "ccs" THEN Current.len ELSE FragmentLength
           hdr == IF Current.type = "ccs" THEN 0 ELSE HsHdr
<1>1. /\ phase # "failed" /\ pc = "loop" /\ cur_msg # 0 /\ ~NoRoom
      /\ WriteRecord(p, hdr + len, Copied(len), ~Packing, ok)
      /\ Advance(len)
      /\ UNCHANGED <<conf, step, in_hello, flight, retransmit_state, timer, mtu, hs_mtu, app_epochs>>
  BY DEF TransmitFragment, Looping, retrans, limits
<1>2. /\ p \in [cur : Counters, alt : Counters]
      /\ FragmentsFit => (e = 1 <=> IsFinished)
      /\ \/ p = epochs
         \/ /\ p.cur = epochs.alt /\ p.alt = epochs.cur
            /\ epochs.cur.epoch # epochs.alt.epoch
      /\ ~Switched => p = epochs
  BY <1>1, EpochOfFragment
<1>3. e \in EpochSet /\ out_left \in Nat /\ TypeOK /\ cur_msg_p \in Nat
  BY <1>2 DEF Counters, FlightInv, TypeOK
<1>4. /\ Whole
      /\ Current \in Messages /\ Current.len \in Nat
      /\ IsFinished <=> step = LastFlight /\ cur_msg = Len(flight)
      /\ IsFinished => Switched
  BY <1>1, AtAMessage DEF Messages
<1>5. room \in Nat
  BY <1>3, RoomIsNat
<1>6. retransmit_state = "SENDING" /\ phase # "freed"
  BY <1>1 DEF FlightInv, Running, PositionIsRight
<1>7. /\ cur_msg_p > 0 => cur_msg_p < Current.len /\ Current.type # "ccs"
  BY <1>1 DEF FlightInv, Running, PositionIsRight
<1>8. /\ len \in Nat /\ hdr + len \in Nat
      /\ cur_msg_p + len <= Current.len
      /\ Current.type = "ccs" => len = Current.len
      /\ cur_msg_p + len < Current.len => len > 0 /\ hdr + len = room /\ room > 0
  <2>1. CASE Current.type = "ccs"
    <3>1. cur_msg_p = 0
      BY <1>3, <1>7, <2>1
    <3> QED
      BY <1>4, <2>1, <3>1
  <2>2. CASE Current.type # "ccs"
    <3>1. cur_msg_p <= Current.len
      BY <1>3, <1>4, <1>7
    <3>2. HsHdr \in Nat /\ room >= HsHdr /\ (room > HsHdr \/ Current.len = 0)
      BY <1>1, <1>5, <2>2, SizesAreNat DEF NoRoom
    <3>3. len = Smaller(Current.len - cur_msg_p, room - HsHdr) /\ hdr = HsHdr
      BY <2>2 DEF FragmentLength
    <3> HIDE DEF room, len, hdr
    <3> QED
      BY <1>3, <1>4, <1>5, <2>2, <3>1, <3>2, <3>3, SMTT(30) DEF Smaller
  <2> QED
    BY <2>1, <2>2
<1> HIDE DEF len, hdr, room, p
<1>9. /\ Copied(len) \in SUBSET SentBytes
      /\ \A c \in Copied(len) : /\ c.msg = cur_msg
                                 /\ c.byte \in 0 .. Current.len
                                 /\ c.epoch = e
      /\ cur_msg' \in 0 .. Len(flight) /\ cur_msg_p' \in Nat
      /\ cur_msg' # 0 /\ cur_msg_p' > 0 =>
             /\ cur_msg' = cur_msg
             /\ Current.type # "ccs"
             /\ cur_msg_p' = cur_msg_p + len
             /\ cur_msg_p' < Current.len
      /\ cur_msg' # 0 /\ cur_msg_p' = 0 => cur_msg' = cur_msg + 1
      /\ cur_msg' = 0 => cur_msg = Len(flight)
      /\ \A m \in 1 .. Len(flight) : \A b \in 0 .. flight[m].len :
             IsBehind(m, b)' => \/ m < cur_msg \/ (m = cur_msg /\ b < cur_msg_p)
                                \/ \E c \in Copied(len) : c.msg = m /\ c.byte = b
  <2>1. UNCHANGED flight /\ phase # "failed" /\ cur_msg # 0 /\ Advance(len)
    BY <1>1
  <2>2. e = EpochsToSend.cur.epoch
    BY DEF p
  <2> HIDE DEF e
  <2> QED
    BY <1>8, <2>1, <2>2, Copying
<1>10. /\ epochs' \in [cur : Counters, alt : Counters]
       /\ epochs'.cur.epoch = e
       /\ epochs'.alt = p.alt
       /\ uses' = [uses EXCEPT ![<<p.cur.epoch, p.cur.ctr>>] = @ + 1]
       /\ phase' = (IF p.cur.ctr = MaxCtr THEN "failed" ELSE phase)
       /\ phase' # "failed" => epochs'.cur.ctr = p.cur.ctr + 1
       /\ pc' \in {pc, "out"}
       /\ out_left' \in Nat
       /\ out_left' = 0 => out_buf' = {}
       /\ out_buf' \in {{}, out_buf \cup Copied(len)}
       /\ given' \subseteq SentBytes
       /\ given' \subseteq given \cup out_buf \cup Copied(len)
       /\ given' \cup out_buf' = given \cup out_buf \cup Copied(len)
       /\ pc' = "loop" /\ MustFlush(out_left + (hdr + len) + Expansion[e], e, ~Packing)
              => out_left' = 0
  BY <1>1, <1>2, <1>3, <1>8, <1>9, Written, ZenonT(40)
<1>11. pc' = "loop" /\ cur_msg_p + len < Current.len => out_left' = 0
  <2>1. CASE cur_msg_p + len < Current.len
    <3>1. RemainingPayload(out_left + room + Expansion[e], e) = 0
      BY <1>3, <1>8, <2>1, FullIsFlushed DEF room
    <3> QED
      BY <1>8, <1>10, <2>1, <3>1 DEF MustFlush
  <2> QED
    BY <2>1
<1>12. /\ uses' \in [EpochSet \X Ctrs -> Nat]
       /\ RecordNumbersAreFresh'
       /\ \A n \in Ctrs : n >= p.cur.ctr + 1 => uses'[<<p.cur.epoch, n>>] = 0
       /\ p.alt.epoch # p.cur.epoch =>
              \A n \in Ctrs : n >= p.alt.ctr => uses'[<<p.alt.epoch, n>>] = 0
       /\ ~Switched => \A n \in Ctrs : uses'[<<1, n>>] = 0
  BY <1>1, <1>2, <1>10, NumbersAfterWrite
<1>13. TypeOK'
  BY <1>1, <1>3, <1>9, <1>10, <1>12 DEF TypeOK, Flights, LastFlight
<1>14. FlightIsOfStep'
  BY <1>1 DEF FlightInv, FlightIsOfStep, Flights
<1>15. WrittenIsOfFlight'
  <2> SUFFICES ASSUME NEW c \in given' \cup out_buf'
               PROVE  /\ c.msg \in 1 .. Len(flight)
                      /\ c.byte \in 0 .. flight[c.msg].len
                      /\ FragmentsFit => (c.epoch = 1 <=> flight[c.msg].type = "finished")
    BY <1>1 DEF WrittenIsOfFlight
  <2>1. CASE c \in given \cup out_buf
    BY <2>1 DEF FlightInv, WrittenIsOfFlight
  <2>2. CASE c \in Copied(len)
    <3>1. cur_msg \in 1 .. Len(flight)
      BY <1>1, <1>3 DEF TypeOK
    <3> QED
      BY <1>2, <1>9, <2>2, <3>1 DEF Current, IsFinished
  <2> QED
    BY <1>10, <2>1, <2>2
<1>16. (FragmentsFit => app_epochs \subseteq {1})'
  BY <1>1 DEF FlightInv
<1>17. ASSUME phase' # "failed"
       PROVE  Running'
  <2>1. phase' = phase /\ Whole' /\ (Switched' <=> Switched)
    BY <1>1, <1>4, <1>10, <1>17 DEF Whole, Switched, Flights, LastFlight
  <2>2. PositionIsRight'
    BY <1>1, <1>6, <1>9, <1>10, <1>11, <2>1
    DEF FlightInv, Running, PositionIsRight, Flights, LastFlight, Current
  <2>3. BufferIsOfFlight'
    BY <1>1, <1>6, <1>10, <2>1 DEF BufferIsOfFlight
  <2>4. EpochIsRight'
    <3>1. CASE ~Switched
      BY <1>1, <1>2, <1>10, <2>1, <3>1 DEF FlightInv, Running, EpochIsRight
    <3>2. CASE Switched
      <4>1. epochs'.cur.epoch # epochs'.alt.epoch
        BY <1>1, <1>2, <1>10, <3>2 DEF FlightInv, Running, EpochIsRight
      <4>2. FragmentsFit => (e = 1 <=> (cur_msg' = 0 \/ (IsFinished' /\ cur_msg_p' > 0)))
        <5>1. CASE IsFinished
          <6>1. cur_msg' = 0 \/ (cur_msg' = cur_msg /\ cur_msg_p' > 0)
            BY <1>3, <1>4, <1>9, <5>1 DEF TypeOK
          <6> QED
            BY <1>1, <1>2, <5>1, <6>1 DEF IsFinished, Current
        <5>2. CASE ~IsFinished
          <6>1. cur_msg' # 0
            BY <1>4, <1>9, <3>2, <5>2 DEF Switched
          <6> QED
            BY <1>1, <1>2, <1>9, <5>2, <6>1 DEF IsFinished, Current
        <5> QED
          BY <5>1, <5>2
      <4> QED
        BY <1>10, <2>1, <3>2, <4>1, <4>2 DEF EpochIsRight
    <3> QED
      BY <3>1, <3>2
  <2>5. NumbersAreUnused'
    BY <1>10, <1>12, <1>17, <2>1 DEF NumbersAreUnused
  <2>6. PrefixIsWritten'
    <3> SUFFICES ASSUME NEW m \in 1 .. Len(flight), NEW b \in 0 .. flight[m].len, IsBehind(m, b)'
                 PROVE  \E c \in given' \cup out_buf' : c.msg = m /\ c.byte = b
      BY <1>1 DEF PrefixIsWritten
    <3>1. CASE IsBehind(m, b)
      BY <1>1, <1>4, <1>10, <3>1 DEF FlightInv, Running, PrefixIsWritten
    <3>2. CASE \E c \in Copied(len) : c.msg = m /\ c.byte = b
      BY <1>10, <3>2
    <3> QED
      BY <1>9, <3>1, <3>2 DEF IsBehind
  <2> QED
    BY <2>2, <2>3, <2>4, <2>5, <2>6 DEF Running
<1> QED
  BY <1>12, <1>13, <1>14, <1>15, <1>16, <1>17 DEF FlightInv

-----------------------------------------------------------------------------
(* The handshake.                                                          *)

(* An endpoint that reads has sent its flight, and nothing waits.          *)
LEMMA AtRest ==
    ASSUME FlightInv, phase # "failed", Ready
    PROVE  out_buf = {} /\ cur_msg = 0 /\ (Whole \/ given = {})
BY DEF FlightInv, Running, BufferIsOfFlight, PositionIsRight, Ready

(* The flight is sent again from its beginning, under the old epoch.       *)
LEMMA RestartKeeps ==
    ASSUME FlightInv, phase \in {"handshake", "over"}, Ready, Whole,
           StartTransmit(flight, epochs),
           timer' \in {timer, FALSE}, hs_mtu' \in {hs_mtu, ReducedMtu},
           UNCHANGED <<conf, step, in_hello, phase, flight, out_left, out_buf, uses, mtu, app_epochs>>
    PROVE  FlightInv'
<1>1. /\ pc' = "loop" /\ cur_msg' = 1 /\ cur_msg_p' = 0 /\ epochs' = SwapEpochs(epochs)
      /\ retransmit_state' = "SENDING" /\ given' = {}
  BY DEF StartTransmit
<1>2. out_buf = {} /\ cur_msg = 0 /\ out_left = 0
  BY AtRest DEF Ready
<1>3. epochs \in [cur : Counters, alt : Counters]
  BY DEF FlightInv, TypeOK
<1>4. /\ epochs' \in [cur : Counters, alt : Counters]
      /\ epochs.cur.epoch = epochs.alt.epoch => epochs' = epochs
      /\ epochs.cur.epoch # epochs.alt.epoch => epochs'.cur = epochs.alt /\ epochs'.alt = epochs.cur
  BY <1>1, <1>3, Swapped
<1>5. Len(flight) \in Nat /\ Len(flight) > 0
  BY Endpoint DEF FlightInv, TypeOK, Whole
<1>6. TypeOK'
  BY <1>1, <1>4, <1>5 DEF FlightInv, TypeOK, Flights, LastFlight
<1>7. FlightIsOfStep'
  BY DEF FlightInv, FlightIsOfStep, Flights
<1>8. WrittenIsOfFlight'
  BY <1>1, <1>2 DEF WrittenIsOfFlight
<1>9. (FragmentsFit => app_epochs \subseteq {1})' /\ RecordNumbersAreFresh'
  BY DEF FlightInv, RecordNumbersAreFresh
<1>10. PositionIsRight'
  BY <1>1 DEF FlightInv, Running, PositionIsRight, Whole, Flights, LastFlight
<1>11. BufferIsOfFlight'
  BY <1>1, <1>2 DEF BufferIsOfFlight
<1>12. Switched' <=> Switched
  BY DEF Switched, Whole, Flights, LastFlight
<1>13. EpochIsRight'
  <2>1. CASE ~Switched
    BY <1>4, <1>12, <2>1 DEF FlightInv, Running, EpochIsRight
  <2>2. CASE Switched
    <3>1. /\ epochs.cur.epoch # epochs.alt.epoch
          /\ FragmentsFit => epochs.cur.epoch = 1
      BY <1>2, <2>2 DEF FlightInv, Running, EpochIsRight
    <3> QED
      BY <1>1, <1>4, <1>12, <2>2, <3>1 DEF EpochIsRight
  <2> QED
    BY <2>1, <2>2
<1>14. NumbersAreUnused'
  BY <1>4, <1>12 DEF FlightInv, Running, NumbersAreUnused
<1>15. PrefixIsWritten'
  BY <1>1, <1>5 DEF PrefixIsWritten, IsBehind
<1> QED
  BY <1>6, <1>7, <1>8, <1>9, <1>10, <1>11, <1>13, <1>14, <1>15 DEF FlightInv, Running

\* The expiry of the timer, which doubles it and sends the flight again or
\* gives up, keeps the invariant.
LEMMA TimerKeeps ==
    ASSUME FlightInv, TimerExpires, UNCHANGED conf
    PROVE  FlightInv'
<1>1. /\ phase = "handshake" /\ Ready /\ timer
      /\ step > 0 => Len(flight) = Len(Flights[step])
  BY DEF TimerExpires, Reading
<1>2. Whole
  BY <1>1 DEF FlightInv, Running, PositionIsRight, Whole
<1>3. CASE retransmit_timeout >= TimeoutMax
  <2>1. /\ phase' = "failed"
        /\ UNCHANGED <<conf, step, in_hello, flight, pc, cur_msg, cur_msg_p, epochs, given, out_left,
                       out_buf, uses, retransmit_state, mtu, hs_mtu, app_epochs>>
    BY <1>3 DEF TimerExpires, position
  <2>2. TypeOK'
    BY <2>1 DEF FlightInv, TypeOK, Flights, LastFlight
  <2>3. FlightIsOfStep' /\ WrittenIsOfFlight' /\ RecordNumbersAreFresh' /\ (FragmentsFit => app_epochs \subseteq {1})'
    BY <2>1 DEF FlightInv, FlightIsOfStep, WrittenIsOfFlight, RecordNumbersAreFresh, Flights
  <2> QED
    BY <2>1, <2>2, <2>3 DEF FlightInv
<1>4. CASE ~(retransmit_timeout >= TimeoutMax)
  <2>1. /\ StartTransmit(flight, epochs)
        /\ timer' = FALSE
        /\ hs_mtu' \in {hs_mtu, ReducedMtu}
        /\ UNCHANGED <<conf, step, in_hello, phase, flight, out_left, out_buf, uses, mtu, app_epochs>>
    BY <1>4 DEF TimerExpires
  <2> QED
    BY <1>1, <1>2, <2>1, RestartKeeps
<1> QED
  BY <1>3, <1>4

\* A retransmission by the peer, answered by a new transmission, keeps the
\* invariant.
LEMMA PeerRetransmitsKeeps ==
    ASSUME FlightInv, PeerRetransmits, UNCHANGED conf
    PROVE  FlightInv'
<1>1. /\ Ready /\ flight # <<>> /\ phase \in {"handshake", "over"}
      /\ phase = "handshake" /\ step > 0 => Len(flight) = Len(Flights[step])
      /\ StartTransmit(flight, epochs)
      /\ UNCHANGED <<conf, step, in_hello, phase, flight, out_left, out_buf, uses, timer, mtu, hs_mtu, app_epochs>>
  BY DEF PeerRetransmits, Reading, limits
<1>2. Whole
  <2>1. CASE phase = "over"
    BY <2>1 DEF FlightInv, Running, PositionIsRight
  <2>2. CASE phase = "handshake"
    BY <1>1, <2>2 DEF FlightInv, TypeOK, FlightIsOfStep, Whole
  <2> QED
    BY <1>1, <2>1, <2>2
<1> QED
  BY <1>1, <1>2, RestartKeeps

(* The next message of the flight of this step is queued.                  *)
LEMMA Queued ==
    ASSUME FlightInv, Preparing, flight' = Append(flight, NextMessage), UNCHANGED <<conf, step>>
    PROVE  /\ flight' \in Seq(Messages)
           /\ Len(flight') = Len(flight) + 1
           /\ Len(flight) \in Nat
           /\ FlightIsOfStep'
           /\ step \in 1 .. LastFlight
           /\ NextMessage.type = "finished" <=> step = LastFlight /\ Len(flight') = Len(Flights[step])
<1>1. /\ step \in 1 .. LastFlight
      /\ flight \in Seq(Messages) /\ Len(flight) < Len(Flights[step])
  BY DEF FlightInv, TypeOK, Preparing
<1>2. Flights[step] \in Seq(Messages)
  BY <1>1, Endpoint DEF FlightInv
<1>3. NextMessage \in Messages
  BY <1>1, <1>2 DEF NextMessage
<1>4. /\ flight' \in Seq(Messages)
      /\ Len(flight') = Len(flight) + 1
      /\ Len(flight) \in Nat
  BY <1>1, <1>3
<1>5. FlightIsOfStep'
  <2>1. \A i \in 1 .. Len(flight') : flight'[i] = Flights[step][i]
    BY <1>1, <1>4 DEF FlightInv, FlightIsOfStep, NextMessage
  <2> QED
    BY <1>1, <1>2, <1>4, <2>1 DEF FlightIsOfStep, Flights
<1>6. NextMessage.type = "finished" <=> step = LastFlight /\ Len(flight') = Len(Flights[step])
  <2>1. Len(flight) + 1 \in 1 .. Len(Flights[step])
    BY <1>1, <1>2
  <2>2. Flights[step][Len(flight) + 1].type = "finished"
            <=> step = LastFlight /\ Len(flight) + 1 = Len(Flights[step])
    BY <1>1, <2>1, FinishedIsLast DEF FlightInv, TypeOK, Flights, LastFlight
  <2> QED
    BY <1>4, <2>2 DEF NextMessage
<1> QED
  BY <1>1, <1>4, <1>5, <1>6

\* mbedtls_ssl_write_handshake_msg() keeps the invariant.
LEMMA QueueKeeps ==
    ASSUME FlightInv, WriteHandshakeMsg, UNCHANGED conf
    PROVE  FlightInv'
<1>1. /\ Preparing /\ phase = "handshake" /\ Ready /\ step > 0
      /\ Len(flight) + 1 < Len(Flights[step])
      /\ flight' = Append(flight, NextMessage)
      /\ UNCHANGED <<conf, step, in_hello, phase, pc, cur_msg, cur_msg_p, epochs, out_left, out_buf, uses, given,
                     retransmit_state, timer, mtu, hs_mtu, app_epochs>>
  BY DEF WriteHandshakeMsg, Preparing, position, output, retrans, limits
<1>2. /\ flight' \in Seq(Messages)
      /\ Len(flight') = Len(flight) + 1
      /\ Len(flight) \in Nat
      /\ FlightIsOfStep'
      /\ step \in 1 .. LastFlight
  BY <1>1, Queued
<1>3. /\ ~Whole /\ ~Whole' /\ ~Switched /\ ~Switched'
  <2>1. Len(Flights[step]) \in Nat
    BY <1>2, Endpoint DEF FlightInv
  <2> QED
    BY <1>1, <1>2, <2>1 DEF Whole, Switched, Flights, LastFlight
<1>4. out_buf = {} /\ cur_msg = 0 /\ given = {} /\ retransmit_state # "SENDING" /\ pc = "out"
  BY <1>1, <1>3, AtRest DEF Ready
<1>5. TypeOK'
  BY <1>1, <1>2, <1>4 DEF FlightInv, TypeOK, Flights, LastFlight
<1>6. WrittenIsOfFlight'
  BY <1>1, <1>4 DEF WrittenIsOfFlight
<1>7. (FragmentsFit => app_epochs \subseteq {1})' /\ RecordNumbersAreFresh'
  BY <1>1 DEF FlightInv, RecordNumbersAreFresh
<1>8. PositionIsRight'
  BY <1>1, <1>4 DEF PositionIsRight
<1>9. BufferIsOfFlight'
  BY <1>1, <1>4 DEF BufferIsOfFlight
<1>10. EpochIsRight'
  BY <1>1, <1>3 DEF FlightInv, Running, EpochIsRight
<1>11. NumbersAreUnused'
  BY <1>1, <1>3 DEF FlightInv, Running, NumbersAreUnused
<1>12. PrefixIsWritten'
  BY <1>3 DEF PrefixIsWritten
<1> QED
  BY <1>2, <1>5, <1>6, <1>7, <1>8, <1>9, <1>10, <1>11, <1>12 DEF FlightInv, Running

\* The last message of a flight, which starts its transmission, keeps the
\* invariant.
LEMMA QueueLastKeeps ==
    ASSUME FlightInv, WriteLastMsg, UNCHANGED conf
    PROVE  FlightInv'
<1> DEFINE p == IF NextMessage.type = "finished" THEN SwitchEpoch(epochs) ELSE epochs
<1>1. /\ Preparing /\ phase = "handshake" /\ Ready /\ step > 0
      /\ Len(flight) + 1 = Len(Flights[step])
      /\ flight' = Append(flight, NextMessage)
      /\ StartTransmit(flight', p)
      /\ timer' = TRUE
      /\ UNCHANGED <<conf, step, in_hello, phase, out_left, out_buf, uses, mtu, hs_mtu, app_epochs>>
  BY DEF WriteLastMsg, Preparing, limits
<1>2. /\ pc' = "loop" /\ cur_msg' = 1 /\ cur_msg_p' = 0 /\ epochs' = SwapEpochs(p)
      /\ retransmit_state' = "SENDING" /\ given' = {}
  BY <1>1 DEF StartTransmit
<1>3. /\ flight' \in Seq(Messages)
      /\ Len(flight') = Len(flight) + 1
      /\ Len(flight) \in Nat
      /\ FlightIsOfStep'
      /\ step \in 1 .. LastFlight
      /\ NextMessage.type = "finished" <=> step = LastFlight /\ Len(flight') = Len(Flights[step])
  BY <1>1, Queued
<1>4. /\ ~Whole /\ Whole' /\ ~Switched
      /\ Switched' <=> NextMessage.type = "finished"
  <2>1. Len(Flights[step]) \in Nat
    BY <1>3, Endpoint DEF FlightInv
  <2> QED
    BY <1>1, <1>3, <2>1 DEF Whole, Switched, Flights, LastFlight
<1>5. out_buf = {} /\ out_left = 0
  BY <1>1, AtRest DEF Ready
<1>6. /\ epochs \in [cur : Counters, alt : Counters]
      /\ epochs.cur.epoch = 0 /\ epochs.alt.epoch = 0
      /\ NumbersAreUnused
  BY <1>1, <1>4 DEF FlightInv, TypeOK, Running, EpochIsRight
<1>7. /\ Switched' => epochs' = [cur |-> epochs.cur, alt |-> [epoch |-> 1, ctr |-> 0]]
      /\ ~Switched' => epochs' = epochs
  BY <1>2, <1>4, <1>6 DEF SwapEpochs, SwitchEpoch
<1>8. epochs' \in [cur : Counters, alt : Counters]
  <2>1. [epoch |-> 1, ctr |-> 0] \in Counters
    BY SizesAreNat DEF Counters, EpochSet, Ctrs
  <2> QED
    BY <1>6, <1>7, <2>1
<1>9. TypeOK'
  BY <1>1, <1>2, <1>3, <1>8 DEF FlightInv, TypeOK, Flights, LastFlight
<1>10. WrittenIsOfFlight'
  BY <1>1, <1>2, <1>5 DEF WrittenIsOfFlight
<1>11. (FragmentsFit => app_epochs \subseteq {1})' /\ RecordNumbersAreFresh'
  BY <1>1 DEF FlightInv, RecordNumbersAreFresh
<1>12. PositionIsRight'
  BY <1>1, <1>2, <1>4 DEF PositionIsRight
<1>13. BufferIsOfFlight'
  BY <1>1, <1>2, <1>4, <1>5 DEF BufferIsOfFlight
<1>14. EpochIsRight'
  <2>1. CASE Switched'
    <3>1. epochs'.cur.epoch = 0 /\ epochs'.alt.epoch = 1
      BY <1>6, <1>7, <2>1
    <3> QED
      BY <1>2, <2>1, <3>1 DEF EpochIsRight
  <2>2. CASE ~Switched'
    BY <1>6, <1>7, <2>2 DEF EpochIsRight
  <2> QED
    BY <2>1, <2>2
<1>15. NumbersAreUnused'
  <2>1. CASE Switched'
    <3>1. /\ epochs'.cur = epochs.cur
          /\ epochs'.alt.epoch = 1 /\ epochs'.alt.ctr = 0
      BY <1>7, <2>1
    <3> QED
      BY <1>1, <1>4, <1>6, <2>1, <3>1 DEF NumbersAreUnused
  <2>2. CASE ~Switched'
    BY <1>1, <1>4, <1>6, <1>7, <2>2 DEF NumbersAreUnused
  <2> QED
    BY <2>1, <2>2
<1>16. PrefixIsWritten'
  BY <1>2, <1>3 DEF PrefixIsWritten, IsBehind
<1> QED
  BY <1>3, <1>9, <1>10, <1>11, <1>12, <1>13, <1>14, <1>15, <1>16 DEF FlightInv, Running

(* The flight was answered, or is not needed any more, and is dropped.     *)
LEMMA DropKeeps ==
    ASSUME FlightInv, Ready, phase # "failed",
           flight' = <<>>, given' = {}, cur_msg' = 0,
           \/ phase' = "freed" /\ step' = step /\ Switched
           \/ phase' = "handshake" /\ step' = step + 1 /\ step < LastFlight,
           timer' \in {timer, FALSE}, retransmit_state' \in {"PREPARING", "WAITING", "FINISHED"},
           hs_mtu' \in {hs_mtu, 0}, in_hello' \in BOOLEAN,
           UNCHANGED <<conf, pc, cur_msg_p, epochs, out_left, out_buf, uses, mtu, app_epochs>>
    PROVE  FlightInv'
<1>1. out_buf = {} /\ cur_msg = 0 /\ out_left = 0 /\ pc = "out"
  BY AtRest DEF Ready
<1>2. step' \in 0 .. LastFlight' /\ LastFlight \in Nat \ {0} /\ LastFlight' = LastFlight
  BY Endpoint DEF FlightInv, TypeOK, Flights, LastFlight
<1>3. ~Whole'
  <2>1. step' > 0 => Len(Flights[step']) > 0
    BY <1>2, Endpoint DEF FlightInv
  <2> QED
    BY <2>1 DEF Whole, Flights
<1>4. Switched' <=> Switched
  <2>1. CASE phase' = "freed" /\ step' = step /\ Switched
    BY <1>2, <2>1 DEF Switched
  <2>2. CASE phase' = "handshake" /\ step' = step + 1 /\ step < LastFlight
    BY <1>3, <2>2 DEF Switched, FlightInv, TypeOK
  <2> QED
    BY <2>1, <2>2
<1>5. TypeOK'
  BY <1>2 DEF FlightInv, TypeOK
<1>6. FlightIsOfStep'
  BY <1>2, Endpoint DEF FlightInv, FlightIsOfStep, Flights
<1>7. WrittenIsOfFlight'
  BY <1>1 DEF WrittenIsOfFlight
<1>8. (FragmentsFit => app_epochs \subseteq {1})' /\ RecordNumbersAreFresh'
  BY DEF FlightInv, RecordNumbersAreFresh
<1>9. PositionIsRight'
  BY <1>1, <1>2 DEF FlightInv, TypeOK, Running, PositionIsRight, Switched
<1>10. BufferIsOfFlight'
  BY <1>1 DEF BufferIsOfFlight
<1>11. EpochIsRight'
  BY <1>1, <1>4 DEF FlightInv, Running, EpochIsRight
<1>12. NumbersAreUnused'
  BY <1>4 DEF FlightInv, Running, NumbersAreUnused
<1>13. PrefixIsWritten'
  BY <1>3 DEF PrefixIsWritten
<1> QED
  BY <1>5, <1>6, <1>7, <1>8, <1>9, <1>10, <1>11, <1>12, <1>13 DEF FlightInv, Running

\* mbedtls_ssl_recv_flight_completed() keeps the invariant.
LEMMA RecvFlightCompletedKeeps ==
    ASSUME FlightInv, RecvFlightCompleted, UNCHANGED conf
    PROVE  FlightInv'
<1>1. /\ Ready /\ phase = "handshake"
      /\ step > 0 => Len(flight) = Len(Flights[step])
      /\ step \in 0 .. LastFlight /\ LastFlight \in Nat \ {0}
  BY Endpoint DEF RecvFlightCompleted, Waiting, Reading, FlightInv, TypeOK
<1>2. CASE step = LastFlight
  <2>1. Switched
    BY <1>1, <1>2 DEF Switched, Whole
  <2> QED
    BY <1>1, <1>2, <2>1, DropKeeps DEF RecvFlightCompleted, limits
<1>3. CASE step # LastFlight
  <2>1. step < LastFlight
    BY <1>1, <1>3
  <2>2. phase' = "handshake" /\ step' = step + 1
    BY <1>1, <1>3 DEF RecvFlightCompleted
  <2> QED
    BY <1>1, <2>1, <2>2, DropKeeps DEF RecvFlightCompleted, limits
<1> QED
  BY <1>2, <1>3

\* Freeing the handshake keeps the invariant.
LEMMA FreeKeeps ==
    ASSUME FlightInv, FreeHandshake, UNCHANGED conf
    PROVE  FlightInv'
<1>1. Ready /\ phase = "over"
  BY DEF FreeHandshake, Reading
<1>2. Switched /\ in_hello \in BOOLEAN
  BY <1>1 DEF FlightInv, Running, PositionIsRight, Switched, TypeOK
<1>3. retransmit_state \in {"PREPARING", "WAITING", "FINISHED"}
  BY <1>1 DEF Ready, FlightInv, TypeOK
<1> QED
  BY <1>1, <1>2, <1>3, DropKeeps DEF FreeHandshake, retrans

\* mbedtls_ssl_handshake_wrapup() keeps the invariant.
LEMMA WrapupKeeps ==
    ASSUME FlightInv, HandshakeWrapup, UNCHANGED conf
    PROVE  FlightInv'
<1>1. /\ phase = "handshake" /\ phase' = "over" /\ step = LastFlight /\ timer' = FALSE
      /\ step > 0 => Len(flight) = Len(Flights[step])
      /\ UNCHANGED <<conf, step, in_hello, flight, pc, cur_msg, cur_msg_p, epochs, out_left, out_buf, uses,
                     given, retransmit_state, mtu, hs_mtu, app_epochs>>
  BY DEF HandshakeWrapup, Reading, position, output, limits
<1>2. Whole /\ Whole' /\ Switched /\ Switched'
  BY <1>1, Endpoint DEF FlightInv, Whole, Switched, Flights, LastFlight
<1>3. TypeOK'
  BY <1>1 DEF FlightInv, TypeOK, Flights, LastFlight
<1>4. FlightIsOfStep' /\ WrittenIsOfFlight' /\ RecordNumbersAreFresh' /\ (FragmentsFit => app_epochs \subseteq {1})'
  BY <1>1 DEF FlightInv, FlightIsOfStep, WrittenIsOfFlight, RecordNumbersAreFresh, Flights
<1>5. PositionIsRight'
  BY <1>1, <1>2 DEF FlightInv, Running, PositionIsRight, Current, Flights, LastFlight
<1>6. BufferIsOfFlight'
  BY <1>1, <1>2 DEF FlightInv, Running, BufferIsOfFlight
<1>7. EpochIsRight'
  BY <1>1, <1>2 DEF FlightInv, Running, EpochIsRight, IsFinished, Current
<1>8. NumbersAreUnused'
  BY <1>1, <1>2 DEF FlightInv, Running, NumbersAreUnused
<1>9. PrefixIsWritten'
  BY <1>1, <1>2 DEF FlightInv, Running, PrefixIsWritten, IsBehind
<1> QED
  BY <1>3, <1>4, <1>5, <1>6, <1>7, <1>8, <1>9 DEF FlightInv, Running

(* Steps that change neither the flight nor what was written of it.        *)
LEMMA LimitsKeep ==
    ASSUME FlightInv, mtu' \in Mtus, in_hello' \in BOOLEAN,
           UNCHANGED <<conf, step, phase, pc, flight, cur_msg, cur_msg_p, epochs, out_left, out_buf, uses,
                       given, retransmit_state, timer, hs_mtu, app_epochs>>
    PROVE  FlightInv'
<1>1. /\ Whole' <=> Whole
      /\ Switched' <=> Switched
      /\ Flights' = Flights /\ LastFlight' = LastFlight
  BY DEF Whole, Switched, Flights, LastFlight
<1>2. TypeOK'
  BY <1>1 DEF FlightInv, TypeOK
<1>3. FlightIsOfStep' /\ WrittenIsOfFlight' /\ RecordNumbersAreFresh' /\ (FragmentsFit => app_epochs \subseteq {1})'
  BY <1>1 DEF FlightInv, FlightIsOfStep, WrittenIsOfFlight, RecordNumbersAreFresh
<1>4. phase # "failed" => PositionIsRight'
  BY <1>1 DEF FlightInv, Running, PositionIsRight, Current
<1>5. phase # "failed" => BufferIsOfFlight' /\ NumbersAreUnused'
  BY <1>1 DEF FlightInv, Running, BufferIsOfFlight, NumbersAreUnused
<1>6. phase # "failed" => EpochIsRight'
  BY <1>1 DEF FlightInv, Running, EpochIsRight, IsFinished, Current
<1>7. phase # "failed" => PrefixIsWritten'
  BY <1>1 DEF FlightInv, Running, PrefixIsWritten, IsBehind
<1> QED
  BY <1>2, <1>3, <1>4, <1>5, <1>6, <1>7 DEF FlightInv, Running

-----------------------------------------------------------------------------
(* The application.                                                        *)

\* Application data written by ssl_write_real() keep the invariant.
LEMMA WriteRealKeeps ==
    ASSUME FlightInv, NEW ok \in BOOLEAN, WriteReal(ok), UNCHANGED conf
    PROVE  FlightInv'
<1>1. /\ phase \in {"over", "freed"} /\ pc = "out" /\ retransmit_state # "SENDING"
      /\ UNCHANGED <<conf, step, in_hello, flight, cur_msg, cur_msg_p, retransmit_state, timer, mtu, hs_mtu>>
  BY DEF WriteReal, position, retrans, limits
<1>2. CASE out_left # 0
  <2>1. FlushOutput(out_left, out_buf, ok) /\ UNCHANGED <<phase, pc, epochs, uses, app_epochs>>
    BY <1>2 DEF WriteReal
  <2> QED
    BY <1>1, <2>1, FlushKeeps DEF position
<1>3. CASE out_left = 0
  <2>1. /\ WriteRecord(epochs, 1, {}, TRUE, ok)
        /\ app_epochs' = app_epochs \cup {epochs.cur.epoch}
    BY <1>3 DEF WriteReal
  <2>2. /\ TypeOK
        /\ epochs \in [cur : Counters, alt : Counters]
        /\ out_buf = {} /\ cur_msg = 0 /\ Switched
    BY <1>1 DEF FlightInv, TypeOK, Running, BufferIsOfFlight, PositionIsRight, Switched
  <2>3. /\ epochs' \in [cur : Counters, alt : Counters]
        /\ epochs'.cur.epoch = epochs.cur.epoch
        /\ epochs'.alt = epochs.alt
        /\ uses' = [uses EXCEPT ![<<epochs.cur.epoch, epochs.cur.ctr>>] = @ + 1]
        /\ phase' = (IF epochs.cur.ctr = MaxCtr THEN "failed" ELSE phase)
        /\ phase' # "failed" => epochs'.cur.ctr = epochs.cur.ctr + 1
        /\ pc' \in {pc, "out"}
        /\ out_left' \in Nat
        /\ out_left' = 0 => out_buf' = {}
        /\ out_buf' \in {{}, out_buf \cup {}}
        /\ given' \subseteq SentBytes
        /\ given' \subseteq given \cup out_buf \cup {}
        /\ given' \cup out_buf' = given \cup out_buf \cup {}
    BY <2>1, <2>2, Written
  <2>4. out_buf' = {} /\ given' = given /\ pc' = "out"
    BY <1>1, <2>2, <2>3
  <2>5. /\ uses' \in [EpochSet \X Ctrs -> Nat]
        /\ RecordNumbersAreFresh'
        /\ \A n \in Ctrs : n >= epochs.cur.ctr + 1 => uses'[<<epochs.cur.epoch, n>>] = 0
        /\ epochs.alt.epoch # epochs.cur.epoch =>
               \A n \in Ctrs : n >= epochs.alt.ctr => uses'[<<epochs.alt.epoch, n>>] = 0
        /\ ~Switched => \A n \in Ctrs : uses'[<<1, n>>] = 0
    BY <1>1, <2>2, <2>3, NumbersAfterWrite
  <2>6. TypeOK'
    BY <1>1, <2>2, <2>3, <2>4, <2>5 DEF TypeOK, Flights, LastFlight
  <2>7. FlightIsOfStep'
    BY <1>1 DEF FlightInv, FlightIsOfStep, Flights
  <2>8. WrittenIsOfFlight'
    BY <1>1, <2>2, <2>4 DEF FlightInv, WrittenIsOfFlight
  <2>9. (FragmentsFit => app_epochs \subseteq {1})'
    <3>1. FragmentsFit => epochs.cur.epoch = 1
      BY <1>1, <2>2 DEF FlightInv, Running, EpochIsRight
    <3> QED
      BY <2>1, <3>1 DEF FlightInv
  <2>10. ASSUME phase' # "failed"
         PROVE  Running'
    <3>1. phase' = phase /\ (Whole' <=> Whole) /\ Switched'
      BY <1>1, <2>2, <2>3, <2>10 DEF Whole, Switched, Flights, LastFlight
    <3>2. PositionIsRight'
      BY <1>1, <2>2, <2>4, <3>1 DEF FlightInv, Running, PositionIsRight, Flights, LastFlight
    <3>3. BufferIsOfFlight'
      BY <1>1, <2>2, <2>4, <3>1 DEF FlightInv, Running, BufferIsOfFlight
    <3>4. EpochIsRight'
      BY <1>1, <2>2, <2>3, <3>1 DEF FlightInv, Running, EpochIsRight
    <3>5. NumbersAreUnused'
      BY <2>3, <2>5, <2>10, <3>1 DEF NumbersAreUnused
    <3>6. PrefixIsWritten'
      BY <1>1, <2>2, <2>4, <3>1 DEF FlightInv, Running, PrefixIsWritten, IsBehind
    <3> QED
      BY <3>2, <3>3, <3>4, <3>5, <3>6 DEF Running
  <2> QED
    BY <2>5, <2>6, <2>7, <2>8, <2>9, <2>10 DEF FlightInv
<1> QED
  BY <1>2, <1>3

-----------------------------------------------------------------------------
(* The specification.                                                      *)

\* A new handshake satisfies the invariant.
LEMMA InitIsGood ==
    ASSUME Init
    PROVE  FlightInv
<1>1. conf \in Configs /\ LastFlight \in Nat \ {0}
  BY ConfigsAreEndpoints DEF Init, Flights, LastFlight
<1>2. IsClient \in BOOLEAN
  BY <1>1, ConfigsAreEndpoints DEF IsClient
<1>3. [epoch |-> 0, ctr |-> 0] \in Counters
  BY SizesAreNat DEF Counters, EpochSet, Ctrs
<1>4. TypeOK
  BY <1>1, <1>2, <1>3 DEF Init, TypeOK
<1>5. step > 0 => Len(Flights[step]) > 0
  BY <1>1, <1>4, Endpoint DEF TypeOK
<1>6. ~Whole /\ ~Switched /\ FlightIsOfStep
  BY <1>1, <1>5, Endpoint, <1>4 DEF Init, Whole, Switched, FlightIsOfStep
<1>7. WrittenIsOfFlight /\ (FragmentsFit => app_epochs \subseteq {1}) /\ RecordNumbersAreFresh
  BY DEF Init, WrittenIsOfFlight, RecordNumbersAreFresh
<1>8. PositionIsRight /\ BufferIsOfFlight
  BY DEF Init, PositionIsRight, BufferIsOfFlight
<1>9. EpochIsRight /\ NumbersAreUnused
  BY <1>6 DEF Init, EpochIsRight, NumbersAreUnused, EpochSet
<1>10. PrefixIsWritten
  BY <1>6 DEF PrefixIsWritten
<1> QED
  BY <1>4, <1>6, <1>7, <1>8, <1>9, <1>10 DEF FlightInv, Running

\* Every step keeps the invariant.
LEMMA StepKeeps ==
    ASSUME FlightInv, [Next]_vars
    PROVE  FlightInv'
<1>1. CASE UNCHANGED vars
  BY <1>1, LimitsKeep DEF FlightInv, TypeOK, vars, control, position, output, retrans, limits
<1>2. CASE Next
  <2>1. UNCHANGED conf
    BY <1>2 DEF Next
  <2>2. CASE WriteHandshakeMsg
    BY <2>1, <2>2, QueueKeeps
  <2>3. CASE WriteLastMsg
    BY <2>1, <2>3, QueueLastKeeps
  <2>4. CASE \E ok \in BOOLEAN : Transmit(ok) \/ WriteReal(ok)
    BY <2>1, <2>4, MakesRoomKeeps, FragmentKeeps, EndsKeeps, WriteRealKeeps DEF Transmit
  <2>5. CASE Resume
    BY <2>1, <2>5, ResumeKeeps
  <2>6. CASE ReceiveServerHello
    BY <2>1, <2>6, LimitsKeep
    DEF FlightInv, TypeOK, ReceiveServerHello, position, output, retrans, limits
  <2>7. CASE RecvFlightCompleted
    BY <2>1, <2>7, RecvFlightCompletedKeeps
  <2>8. CASE TimerExpires
    BY <2>1, <2>8, TimerKeeps
  <2>9. CASE PeerRetransmits
    BY <2>1, <2>9, PeerRetransmitsKeeps
  <2>10. CASE HandshakeWrapup
    BY <2>1, <2>10, WrapupKeeps
  <2>11. CASE FreeHandshake
    BY <2>1, <2>11, FreeKeeps
  <2>12. CASE \E m \in Mtus : SetMtu(m)
    BY <2>1, <2>12, LimitsKeep DEF FlightInv, TypeOK, SetMtu, control, position, output, retrans
  <2>13. CASE Terminated
    BY <2>13, <1>1, LimitsKeep
    DEF FlightInv, TypeOK, Terminated, vars, control, position, output, retrans, limits
  <2> QED
    BY <1>2, <2>2, <2>3, <2>4, <2>5, <2>6, <2>7, <2>8, <2>9, <2>10, <2>11, <2>12, <2>13 DEF Next
<1> QED
  BY <1>1, <1>2

(* The invariant the properties follow from.                               *)
THEOREM FlightInvariant == Spec => []FlightInv
BY InitIsGood, StepKeeps, PTL DEF Spec

(* ssl_swap_epochs() and mbedtls_ssl_write_record() never use a record     *)
(* number twice, for any flights, limits and retransmissions.              *)
THEOREM NumbersAreFresh == Spec => []RecordNumbersAreFresh
<1>1. FlightInv => RecordNumbersAreFresh
  BY DEF FlightInv
<1> QED
  BY <1>1, FlightInvariant, PTL

(* The Finished message and application data alone go out under the new    *)
(* epoch, if every MTU that is set leaves room for a fragment.             *)
THEOREM FinishedIsProtected == Spec => []EpochsAreRight
<1>1. FlightInv => EpochsAreRight
  BY DEF FlightInv, WrittenIsOfFlight, EpochsAreRight
<1> QED
  BY <1>1, FlightInvariant, PTL

(* mbedtls_ssl_flight_transmit() does not return success before every byte *)
(* of the flight was given to the transport.                               *)
THEOREM FlightsAreWhole == Spec => []FlightIsSentWhole
<1>1. FlightInv => FlightIsSentWhole
  <2> SUFFICES ASSUME FlightInv, Reading, flight # <<>>
               PROVE  {<<c.msg, c.byte>> : c \in given} = Bytes(flight)
    BY DEF FlightIsSentWhole
  <2>1. phase # "failed" /\ Ready
    BY DEF Reading
  <2>2. Whole
    <3>1. CASE phase = "over"
      BY <3>1 DEF FlightInv, Running, PositionIsRight
    <3>2. CASE phase = "handshake"
      BY <3>2 DEF Reading, FlightInv, TypeOK, FlightIsOfStep, Whole
    <3> QED
      BY <3>1, <3>2 DEF Reading
  <2>3. out_buf = {} /\ cur_msg = 0
    BY <2>1, AtRest
  <2>4. \A m \in 1 .. Len(flight) : \A b \in 0 .. flight[m].len : \E c \in given : c.msg = m /\ c.byte = b
    BY <2>1, <2>2, <2>3 DEF FlightInv, Running, PrefixIsWritten, IsBehind
  <2>5. \A c \in given : c.msg \in 1 .. Len(flight) /\ c.byte \in 0 .. flight[c.msg].len
    BY DEF FlightInv, WrittenIsOfFlight
  <2>6. \A x : x \in Bytes(flight) <=>
                \E m \in 1 .. Len(flight) : \E b \in 0 .. flight[m].len : x = <<m, b>>
    BY DEF Bytes
  <2> QED
    BY <2>4, <2>5, <2>6, SMTT(30)
<1> QED
  BY <1>1, FlightInvariant, PTL
=============================================================================
