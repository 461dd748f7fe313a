--------------------------- MODULE DtlsReassembly ---------------------------
(***************************************************************************)
(* The receiving side of a DTLS handshake (ssl_msg.c): handshake messages  *)
(* arrive in fragments, out of order, again and again, over a transport    *)
(* that loses records; ssl->handshake->buffering holds the messages that   *)
(* are not complete or not expected yet, within                            *)
(* MBEDTLS_SSL_DTLS_MAX_BUFFERING bytes, and hands them to the handshake   *)
(* in order.                                                               *)
(*                                                                         *)
(* The handshake is a script of what the state machine reads next: a       *)
(* message, the last message of a flight, or a ChangeCipherSpec.  The      *)
(* content of a message is the set of the offsets of its bytes that were   *)
(* copied.  What a resend does is in DtlsFlight, replay and MAC checks in  *)
(* DtlsRecord.                                                             *)
(***************************************************************************)
EXTENDS DtlsBitmask, Sequences, FiniteSetsExt

CONSTANTS
    Script,         \* what is read: "msg", "last" (of a flight) or "ccs"
    PeerFragments,  \* the handshake records of a peer that follows the
                    \* protocol: [seq, total, off, len, epoch]
    StrayFragments, \* records of nobody that does
    MaxBufferedHs,  \* MBEDTLS_SSL_MAX_BUFFERED_HS
    MaxBuffering,   \* MBEDTLS_SSL_DTLS_MAX_BUFFERING
    InContentLen,   \* MBEDTLS_SSL_IN_CONTENT_LEN
    BitmaskLen      \* bound: lengths for which the bitmask is checked

Fragments == PeerFragments \cup StrayFragments

ASSUME ReassemblyConstants ==
    /\ Script \in Seq({"msg", "last", "ccs"})
    /\ \A f \in Fragments :
         /\ {f.seq, f.total, f.off, f.len, f.epoch} \subseteq Nat
         /\ f.off + f.len <= f.total        \* ssl_check_hs_header()
    /\ MaxBufferedHs \in Nat \ {0}
    /\ MaxBuffering \in Nat
    /\ InContentLen \in Nat
    /\ BitmaskLen \in Nat

HsHeader == 12          \* mbedtls_ssl_hs_hdr_len() for DTLS
RecordOverhead == 13    \* the record header, part of a buffered record

VARIABLES
    hostile,                \* mbedtls_calloc() may fail and stray records may
                            \* arrive; never changes
    pos,                    \* what of the script is expected
    in_msg_seq,             \* number of the next handshake message
    in_flight_start_seq,    \* number of the first message of this flight
    in_epoch,               \* epoch of the records that are read
    buffering,              \* ssl->handshake->buffering
    in_datagram,            \* records of the last datagram are still unread
    delivered,              \* the messages given to the handshake
    failed                  \* the error mbedtls_ssl_read_record() returned, or "no"

vars == <<hostile, pos, in_msg_seq, in_flight_start_seq, in_epoch, buffering, in_datagram,
          delivered, failed>>

Slots == 0 .. MaxBufferedHs - 1

\* A zeroed mbedtls_ssl_hs_buffer.
NoMessage ==
    [is_valid |-> FALSE, is_complete |-> FALSE, is_fragmented |-> FALSE,
     seq |-> 0, total |-> 0, data |-> {}, mask |-> {}, data_len |-> 0]
NoRecord == [data |-> {}, epoch |-> 0, len |-> 0]

Init ==
    /\ hostile \in BOOLEAN
    /\ pos = 1
    /\ in_msg_seq = 0
    /\ in_flight_start_seq = 0
    /\ in_epoch = 0
    /\ buffering = [hs |-> [i \in Slots |-> NoMessage], total_bytes_buffered |-> 0,
                    seen_ccs |-> FALSE, future_record |-> NoRecord]
    /\ in_datagram = FALSE
    /\ delivered = <<>>
    /\ failed = "no"

-----------------------------------------------------------------------------
(* The buffer *)

Fits(b, size) == size <= MaxBuffering - b.total_bytes_buffered

\* ssl_get_reassembly_buffer_size()
ReassemblyBufferSize(msg_len, add_bitmap) ==
    HsHeader + msg_len +
        (IF add_bitmap THEN (msg_len \div 8) + (IF msg_len % 8 # 0 THEN 1 ELSE 0) ELSE 0)

\* ssl_hs_is_proper_fragment()
IsProperFragment(f) == f.off # 0 \/ f.len # f.total

\* The bytes allocated for the slots.
HeldBytes(hs, slots) == MapThenSumSet(LAMBDA i : hs[i].data_len, slots)

\* Fault: the bytes of the freed slots stay on the account.
FreeSlotsUncounted(b, slots) ==
    [b EXCEPT !.hs = [i \in Slots |-> IF i \in slots THEN NoMessage ELSE b.hs[i]]]

\* ssl_buffering_free_slot() of each of the slots.
FreeSlots(b, slots) ==
    [b EXCEPT !.hs = [i \in Slots |-> IF i \in slots THEN NoMessage ELSE b.hs[i]],
              !.total_bytes_buffered = @ - HeldBytes(b.hs, slots)]

\* ssl_free_buffered_record(): len and epoch stay.
FreeRecord(b) ==
    IF b.future_record.data = {} THEN b
    ELSE [b EXCEPT !.future_record.data = {},
                   !.total_bytes_buffered = @ - b.future_record.len]

\* Fault: the record of the next epoch is forgotten.
BufferingFreeSlots(b) == FreeSlots(b, Slots)

\* mbedtls_ssl_buffering_free()
BufferingFree(b) == FreeSlots(FreeRecord(b), Slots)

\* Fault: only the messages that are still to come are given up.
MakeSpaceKeepsRecord(b, desired) ==
    LET Freed(first) == FreeSlots(b, first .. MaxBufferedHs - 1)
        enough == {first \in 0 .. MaxBufferedHs : Fits(Freed(first), desired)}
    IN  Freed(Max(enough \cup {0}))

\* ssl_buffer_make_space(): the future record, then the most distant messages.
MakeSpace(b, desired) ==
    LET Freed(first) == FreeSlots(FreeRecord(b), first .. MaxBufferedHs - 1)
        enough == {first \in 0 .. MaxBufferedHs : Fits(Freed(first), desired)}
    IN  Freed(Max(enough \cup {0}))

\* A new, empty slot for the message of f, in b which has room for it.
OpenSlot(b, i, f) ==
    LET size == ReassemblyBufferSize(f.total, IsProperFragment(f))
    IN  [b EXCEPT !.hs[i] = [NoMessage EXCEPT !.is_valid = TRUE,
                                              !.is_fragmented = IsProperFragment(f),
                                              !.seq = f.seq, !.total = f.total,
                                              !.data_len = size],
                  !.total_bytes_buffered = @ + size]

\* The fragment f is copied to the slot of its message, unless the message is
\* complete or f is of another length.
Filled(slot, f) ==
    LET marked == BitmaskSet(slot.mask, f.off, f.len)
    IN  IF slot.total # f.total \/ slot.is_complete THEN slot
        ELSE [slot EXCEPT
                !.data = @ \cup (f.off .. f.off + f.len - 1),
                !.mask = IF slot.is_fragmented THEN marked ELSE @,
                !.is_complete = slot.is_fragmented => BitmaskCheck(marked, f.total)]

AddFragment(b, i, f) == [b EXCEPT !.hs[i] = Filled(b.hs[i], f)]

-----------------------------------------------------------------------------
(* What is read *)

\* Fault: the slots move up while the first one still counts as used.
ShiftSlotsOnly(b) ==
    [b EXCEPT !.hs = [i \in Slots |-> IF i + 1 \in Slots THEN b.hs[i + 1] ELSE NoMessage]]

\* The end of mbedtls_ssl_update_handshake_status()
ShiftSlots(b) ==
    LET freed == FreeSlots(b, {0})
    IN  [freed EXCEPT !.hs = [i \in Slots |->
            IF i + 1 \in Slots THEN freed.hs[i + 1] ELSE NoMessage]]

\* mbedtls_ssl_recv_flight_completed()
RecvFlightCompleted(b) == [BufferingFree(b) EXCEPT !.seen_ccs = FALSE]

\* A message goes to the handshake, which waits for it, or fails as it waits
\* for a ChangeCipherSpec; the last one completes the flight.
Deliver(b, message) ==
    LET shifted == ShiftSlots(b)
        last == Script[pos] = "last"
        expected == Script[pos] # "ccs"
    IN  /\ in_msg_seq' = in_msg_seq + 1
        /\ buffering' = IF last THEN RecvFlightCompleted(shifted) ELSE shifted
        /\ in_flight_start_seq' = IF last THEN in_msg_seq + 1 ELSE in_flight_start_seq
        /\ delivered' = IF expected THEN Append(delivered, message) ELSE delivered
        /\ pos' = IF expected THEN pos + 1 ELSE pos
        /\ failed' = IF expected THEN "no" ELSE "unexpected_message"
        /\ UNCHANGED in_epoch

\* mbedtls_ssl_parse_change_cipher_spec() on a CCS
ChangeCipherSpec ==
    /\ pos' = pos + 1
    /\ in_epoch' = in_epoch + 1
    /\ UNCHANGED <<in_msg_seq, in_flight_start_seq, delivered, failed>>

Reading == failed = "no" /\ pos <= Len(Script)

\* Only the buffer changes, and an error is returned.
BufferBecomes(b, error) ==
    /\ buffering' = b
    /\ failed' = error
    /\ UNCHANGED <<pos, in_msg_seq, in_flight_start_seq, in_epoch, delivered>>

\* A message of the past: a resend is up to DtlsFlight!PeerRetransmits.
DropOldMessage(b, f) ==
    /\ f.seq < in_msg_seq
    /\ BufferBecomes(b, "no")

DeliverWhole(b, f) ==
    /\ f.seq = in_msg_seq
    /\ ~IsProperFragment(f)
    /\ Deliver(b, [seq |-> f.seq, total |-> f.total, data |-> f.off .. f.off + f.len - 1])

\* ssl_buffer_message() of a handshake message.
Early(f) == f.seq > in_msg_seq \/ (f.seq = in_msg_seq /\ IsProperFragment(f))

BufferMessage(b, f) ==
    LET i == f.seq - in_msg_seq
        size == ReassemblyBufferSize(f.total, IsProperFragment(f))
        made == IF Fits(b, size) THEN b ELSE MakeSpace(b, size)
        \* a message beyond the window, or too large to be read or to be kept
        ignored == i < MaxBufferedHs =>
                       /\ ~b.hs[i].is_valid
                       /\ \/ f.total + HsHeader > InContentLen
                          \/ i > 0 /\ ~Fits(b, size)
    IN  /\ Early(f)
        /\ \/ /\ ignored
              /\ BufferBecomes(b, "no")
           \/ /\ ~ignored
              /\ b.hs[i].is_valid
              /\ BufferBecomes(AddFragment(b, i, f), "no")
           \/ /\ ~ignored
              /\ ~b.hs[i].is_valid
              /\ ~Fits(made, size)
              /\ BufferBecomes(made, "buffer_too_small")
           \/ /\ ~ignored
              /\ ~b.hs[i].is_valid
              /\ Fits(made, size)
              /\ BufferBecomes(AddFragment(OpenSlot(made, i, f), i, f), "no")
           \/ /\ hostile
              /\ ~ignored
              /\ ~b.hs[i].is_valid
              /\ Fits(made, size)
              /\ BufferBecomes(made, "alloc_failed")

\* mbedtls_ssl_handle_message_type() of a handshake record, and what
\* mbedtls_ssl_read_record() does with an early message.
HandleHandshake(b, f) ==
    \/ DropOldMessage(b, f)
    \/ DeliverWhole(b, f)
    \/ BufferMessage(b, f)

\* ssl_buffer_future_record(): one record of the next epoch is kept.
BufferFutureRecord(f) ==
    LET len == RecordOverhead + HsHeader + f.len
        kept == [buffering EXCEPT !.future_record = [data |-> {f}, epoch |-> in_epoch + 1, len |-> len],
                                  !.total_bytes_buffered = @ + len]
        \* calloc() failed
        lost == [buffering EXCEPT !.future_record = [data |-> {}, epoch |-> in_epoch + 1, len |-> len]]
    IN  /\ f.epoch = in_epoch + 1
        /\ IF buffering.future_record.data # {} \/ ~Fits(buffering, len)
           THEN BufferBecomes(buffering, "no")
           ELSE \/ BufferBecomes(kept, "no")
                \/ hostile /\ BufferBecomes(lost, "no")

-----------------------------------------------------------------------------
(* One pass of the loop of mbedtls_ssl_read_record() *)

\* Fault: a message of which some fragments are missing is loaded.
MessageIsBegun ==
    /\ ~in_datagram
    /\ IF Script[pos] = "ccs" THEN buffering.seen_ccs ELSE buffering.hs[0].is_valid

\* ssl_load_buffered_message() finds something.
MessageIsBuffered ==
    /\ ~in_datagram
    /\ IF Script[pos] = "ccs" THEN buffering.seen_ccs
       ELSE buffering.hs[0].is_valid /\ buffering.hs[0].is_complete

LoadBufferedMessage ==
    /\ Reading
    /\ MessageIsBuffered
    /\ Script[pos] # "ccs"
    /\ Deliver(buffering, [seq |-> buffering.hs[0].seq, total |-> buffering.hs[0].total,
                           data |-> buffering.hs[0].data])
    /\ UNCHANGED in_datagram

InjectBufferedCcs ==
    /\ Reading
    /\ MessageIsBuffered
    /\ Script[pos] = "ccs"
    /\ buffering' = [buffering EXCEPT !.seen_ccs = FALSE]
    /\ ChangeCipherSpec
    /\ UNCHANGED in_datagram

\* ssl_load_buffered_record() finds something.
RecordIsBuffered ==
    /\ ~in_datagram
    /\ buffering.future_record.data # {}
    /\ buffering.future_record.epoch = in_epoch

LoadBufferedRecord ==
    /\ Reading
    /\ ~MessageIsBuffered
    /\ RecordIsBuffered
    /\ \E f \in buffering.future_record.data : HandleHandshake(FreeRecord(buffering), f)
    /\ UNCHANGED in_datagram

\* A handshake record comes from the transport; more: another one follows it
\* in the datagram.  One of an old epoch is discarded.
ReceiveHandshake(f, more) ==
    /\ Reading
    /\ ~MessageIsBuffered
    /\ ~RecordIsBuffered
    /\ f \in PeerFragments \/ hostile
    /\ \/ f.epoch = in_epoch /\ HandleHandshake(buffering, f)
       \/ BufferFutureRecord(f)
       \/ f.epoch < in_epoch /\ BufferBecomes(buffering, "no")
    /\ in_datagram' = more

\* A ChangeCipherSpec comes, in epoch 0.
ReceiveCcs(more) ==
    /\ Reading
    /\ ~MessageIsBuffered
    /\ ~RecordIsBuffered
    /\ in_epoch = 0
    /\ IF Script[pos] = "ccs"
       THEN ChangeCipherSpec /\ UNCHANGED buffering
       ELSE BufferBecomes([buffering EXCEPT !.seen_ccs = TRUE], "no")
    /\ in_datagram' = more

Over == ~Reading /\ UNCHANGED vars

Next ==
    /\ \/ LoadBufferedMessage
       \/ InjectBufferedCcs
       \/ LoadBufferedRecord
       \/ \E more \in BOOLEAN : \E f \in Fragments : ReceiveHandshake(f, more)
       \/ \E more \in BOOLEAN : ReceiveCcs(more)
       \/ Over
    /\ UNCHANGED hostile

Spec == Init /\ [][Next]_vars

\* The application calls the handshake again until it is over; the peer sends
\* its flight again until it is answered, so each of its records comes again
\* and again, and datagrams end.
Fairness ==
    /\ WF_vars((LoadBufferedMessage \/ InjectBufferedCcs \/ LoadBufferedRecord) /\ UNCHANGED hostile)
    /\ \A f \in PeerFragments :
         SF_vars((\E more \in BOOLEAN : ReceiveHandshake(f, more)) /\ UNCHANGED hostile)
    /\ SF_vars((\E more \in BOOLEAN : ReceiveCcs(more)) /\ UNCHANGED hostile)
    /\ SF_vars(((\E f \in Fragments : ReceiveHandshake(f, FALSE)) \/ ReceiveCcs(FALSE))
                /\ UNCHANGED hostile)

FairSpec == Spec /\ Fairness

-----------------------------------------------------------------------------
(* Properties *)

(* total_bytes_buffered is what the slots and the future record hold: an   *)
(* amount that is lost on one path would close the buffer for good, one    *)
(* that is freed twice would wrap the unsigned difference to the limit.    *)
BudgetIsExact ==
    buffering.total_bytes_buffered =
        HeldBytes(buffering.hs, Slots) +
        (IF buffering.future_record.data = {} THEN 0 ELSE buffering.future_record.len)

(* The bitmask arithmetic is exact for every alignment: a fragment marks   *)
(* the bits of its bytes and no other, and a message counts as received    *)
(* for exactly the lengths all of whose bytes are marked; up to BitmaskLen *)
(* bytes on top of whatever the slots hold.                                *)
BitmaskIsExact ==
    \A i \in Slots : LET slot == buffering.hs[i] IN
        slot.is_valid /\ slot.is_fragmented =>
            \A off \in 0 .. BitmaskLen : \A len \in 0 .. BitmaskLen - off :
                LET mask == BitmaskSet(slot.mask, off, len)
                    offsets == slot.data \cup (off .. off + len - 1)
                IN  /\ mask = MaskOf(offsets)
                    /\ \A n \in {off, off + len} :
                         BitmaskCheck(mask, n) <=> 0 .. n - 1 \subseteq offsets

(* The handshake gets the messages in order, each once and whole.          *)
DeliveredInOrder ==
    \A n \in 1 .. Len(delivered) :
        /\ delivered[n].seq = n - 1
        /\ delivered[n].data = 0 .. delivered[n].total - 1

(* "If we can't buffer a future message because of space limitations --    *)
(* ignore": what was buffered for later never makes the handshake fail;    *)
(* only a message that does not fit in the empty buffer does.              *)
FutureNeverStarvesNext ==
    [][failed' = "buffer_too_small" /\ failed = "no" =>
        \E f \in Fragments :
            f.seq = in_msg_seq /\ ReassemblyBufferSize(f.total, TRUE) > MaxBuffering]_vars

(* Once the flight of the peer is complete nothing of it stays buffered,   *)
(* the ChangeCipherSpec included: it would be taken for one of the next    *)
(* flight.                                                                 *)
FlightLeavesNothing ==
    [][in_flight_start_seq' # in_flight_start_seq =>
        /\ ~buffering'.seen_ccs
        /\ buffering'.total_bytes_buffered = 0]_vars

(* A peer that repeats its flight is read to the end, in whatever order    *)
(* the records come, unless allocations fail or records of others arrive.  *)
AllIsRead == ~hostile => <>(pos > Len(Script))
=============================================================================
