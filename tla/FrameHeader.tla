----------------------------- MODULE FrameHeader -----------------------------
(***************************************************************************)
(* The header of include/Frame.hpp as the bytes it occupies in memory and  *)
(* on the wire: a byte of flags and opcode, a length byte and the field    *)
(* payload_length_ in network order.  In the code a byte has 256 values    *)
(* and the field 8 bytes; both are parameters, so that the boundaries of   *)
(* the three encodings come within reach of small payloads.  The host is   *)
(* little-endian, the case the code's conversions are written for.         *)
(***************************************************************************)
EXTENDS Naturals, Sequences

CONSTANTS
    Radix, \* number of values of a byte
    Wide   \* bytes of payload_length_

ASSUME HeaderConstants == Radix \in Nat /\ Radix > 2 /\ Wide \in Nat /\ Wide > 2

\* The number of values of w bytes.
Power[w \in Nat] == IF w = 0 THEN 1 ELSE Radix * Power[w - 1]

Byte == 0..Radix - 1
Basic == 2                  \* sizeof(BasicHeader)
Narrow == 2                 \* sizeof(uint16_t)
Mark16 == Radix - 2         \* 0b1111'1110
Mark64 == Radix - 1         \* 0b1111'1111
Max16 == Power[Narrow] - 1  \* numeric_limits<uint16_t>::max()
SizeT == Power[Wide]        \* arithmetic on size_t is modulo 2^64

\* The w bytes of k in network order, and the number such bytes stand for.
BigEndian(k, w) == [i \in 1..w |-> (k \div Power[w - i]) % Radix]

Value(bytes) ==
    LET v[i \in 0..Len(bytes)] == IF i = 0 THEN 0 ELSE Radix * v[i - 1] + bytes[i]
    IN  v[Len(bytes)]

\* void Length(uint64_t len): the length byte and the bytes of payload_length_.
LengthByte(len) ==
    IF len < Mark16 THEN len ELSE IF len <= Max16 THEN Mark16 ELSE Mark64

LengthField(len) ==
    IF len < Mark16 THEN BigEndian(0, Wide)
    ELSE IF len <= Max16 THEN BigEndian(len, Narrow) \o BigEndian(0, Wide - Narrow)
    ELSE BigEndian(len, Wide)

\* size_t Length() const, of a header at the start of the bytes mem.
Length(mem) ==
    CASE mem[2] = Mark64 -> Value(SubSeq(mem, Basic + 1, Basic + Wide))
      [] mem[2] = Mark16 -> Value(SubSeq(mem, Basic + 1, Basic + Narrow))
      [] OTHER -> mem[2]

\* int HeaderLength() const.
HeaderLength(mark) ==
    IF mark < Mark16 THEN Basic
    ELSE IF mark = Mark64 THEN Basic + Narrow ELSE Basic + Wide

\* WSocketContext::SendFrame: the header cut to HeaderLength(), then the payload.
Encode(f) ==
    SubSeq(<<f.tag, LengthByte(Len(f.data))>> \o LengthField(Len(f.data)),
           1, HeaderLength(LengthByte(Len(f.data))))
        \o f.data

=============================================================================
