---------------------------- MODULE DtlsBitmask -----------------------------
(***************************************************************************)
(* The bitmask of the bytes of a handshake message that were received      *)
(* (ssl_bitmask_set() and ssl_bitmask_check() of ssl_msg.c).  A mask is    *)
(* the set of its bits <<i, b>>: bit b, 0 the least significant, of byte i.*)
(* The offsets of a message go from the most significant bit of byte 0 on. *)
(***************************************************************************)
EXTENDS Integers

\* What the bitmask stands for.
BitOf(offset) == <<offset \div 8, 7 - (offset % 8)>>
MaskOf(offsets) == {BitOf(o) : o \in offsets}

\* memset(mask + first, 0xFF, count)
FullBytes(first, count) == (first .. first + count - 1) \X (0 .. 7)

\* The part after the first, incomplete byte: offset is a multiple of 8.
AlignedBits(offset, len) ==
    LET end_bits == len % 8
        last_byte_idx == (offset + len) \div 8
    IN  {<<last_byte_idx, 8 - n>> : n \in 1 .. end_bits}
            \cup FullBytes(offset \div 8, (len - end_bits) \div 8)

\* Fault: a fragment inside one byte is marked to the end of the byte.
BitmaskSetWide(mask, offset, len) ==
    LET start_bits == 8 - (offset % 8)
        first_byte_idx == offset \div 8
    IN  mask \cup (
        IF start_bits = 8 THEN AlignedBits(offset, len)
        ELSE IF len <= start_bits THEN {<<first_byte_idx, n - 1>> : n \in 1 .. start_bits}
        ELSE {<<first_byte_idx, n - 1>> : n \in 1 .. start_bits}
                \cup AlignedBits(offset + start_bits, len - start_bits))

\* ssl_bitmask_set()
BitmaskSet(mask, offset, len) ==
    LET start_bits == 8 - (offset % 8)
        first_byte_idx == offset \div 8
    IN  mask \cup (
        IF start_bits = 8 THEN AlignedBits(offset, len)
        ELSE IF len <= start_bits THEN {<<first_byte_idx, start_bits - n>> : n \in 1 .. len}
        ELSE {<<first_byte_idx, n - 1>> : n \in 1 .. start_bits}
                \cup AlignedBits(offset + start_bits, len - start_bits))

\* ssl_bitmask_check() == 0
BitmaskCheck(mask, len) ==
    /\ FullBytes(0, len \div 8) \subseteq mask
    /\ \A i \in 0 .. (len % 8) - 1 : <<len \div 8, 7 - i>> \in mask
=============================================================================
