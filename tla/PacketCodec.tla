---------------------------- MODULE PacketCodec -----------------------------
(***************************************************************************)
(* The wire format (packet_codec.cpp, crc16.cpp, wire_endian.h): a packet  *)
(* is a record, a frame the sequence of its bytes.                         *)
(***************************************************************************)
EXTENDS Integers, Sequences

CONSTANT MaxPayload   \* kMaxPayloadSize

(* uint8_t, uint16_t (payload_len is one), uint32_t. *)
Byte == 0..(2^8 - 1)
Word == 0..(2^16 - 1)
Long == {n \in Nat : n \div 2^16 \in Word}

ASSUME MaxPayloadAssumption == MaxPayload \in Word

Magic      == 19276   \* 0x4B4C
Version    == 1
HeaderSize == 19
CrcSize    == 2

(* The struct Packet of the code, its fields as wide as there. *)
PacketType ==
  [version : {Version}, type : Byte, flags : Byte, sequence : Word, source_id : Word, dest_id : Word,
   hop_count : Byte, ttl : Byte, timestamp : Long, payload : Seq(Byte)]

WireSize(pkt) == HeaderSize + Len(pkt.payload) + CrcSize

U16LE(n) == <<n % 256, (n \div 256) % 256>>
U32LE(n) == U16LE(n) \o U16LE(n \div 65536)

(* Reading at an offset counted from 0, as in the code. *)
ReadU16LE(bytes, at) == bytes[at + 1] + 256 * bytes[at + 2]
ReadU32LE(bytes, at) == ReadU16LE(bytes, at) + 65536 * ReadU16LE(bytes, at + 2)

-----------------------------------------------------------------------------
(* The CRC register takes in a message bit by bit, the top bit of each     *)
(* byte first; XOR with 0x1021 flips its bits 12, 5 and 0.                 *)
Bit(n, k)  == (n \div (2 ^ k)) % 2
Flip(n, k) == IF Bit(n, k) = 1 THEN n - 2 ^ k ELSE n + 2 ^ k

ShiftIn(crc, bit) ==
  LET shifted == (2 * crc) % 65536 IN
  IF Bit(crc, 15) # bit THEN Flip(Flip(Flip(shifted, 12), 5), 0) ELSE shifted

(* One byte, then all of them.  (takeIn is a function, so that TLC knows a *)
(* register before the next byte goes in.)                                 *)
TakeIn(crc, byte) ==
  LET reg[k \in 0..8] ==
        IF k = 0 THEN crc ELSE ShiftIn(reg[k - 1], Bit(byte, 8 - k))
  IN  reg[8]

CrcInit == 65535

Crc16(bytes) ==
  LET takeIn[pair \in Word \X Byte] == TakeIn(pair[1], pair[2])
      sum[i \in 0..Len(bytes)] ==
        IF i = 0 THEN CrcInit ELSE takeIn[<<sum[i - 1], bytes[i]>>]
  IN  sum[Len(bytes)]

-----------------------------------------------------------------------------
Encodable(pkt) == Len(pkt.payload) <= MaxPayload

Body(pkt) ==
  U16LE(Magic) \o <<pkt.version, pkt.type, pkt.flags>> \o U16LE(pkt.sequence)
    \o U16LE(pkt.source_id) \o U16LE(pkt.dest_id) \o <<pkt.hop_count, pkt.ttl>>
    \o U32LE(pkt.timestamp) \o U16LE(Len(pkt.payload)) \o pkt.payload

Encode(pkt) == Body(pkt) \o U16LE(Crc16(Body(pkt)))

(* What decode accepts: bytes behind the CRC are not looked at. *)
PayloadLen(bytes) == ReadU16LE(bytes, 17)
CrcAt(bytes)      == HeaderSize + PayloadLen(bytes)

(* Mutant: the mismatch is logged, and the packet used all the same. *)
CrcMatchesLogged(bytes) == Len(bytes) >= CrcAt(bytes) + CrcSize

CrcMatches(bytes) ==
  ReadU16LE(bytes, CrcAt(bytes)) = Crc16(SubSeq(bytes, 1, CrcAt(bytes)))

Decodable(bytes) ==
  /\ Len(bytes) >= HeaderSize + CrcSize
  /\ ReadU16LE(bytes, 0) = Magic
  /\ bytes[3] = Version
  /\ PayloadLen(bytes) <= MaxPayload
  /\ Len(bytes) >= CrcAt(bytes) + CrcSize
  /\ CrcMatches(bytes)

Decode(bytes) ==
  [version   |-> bytes[3],
   type      |-> bytes[4],
   flags     |-> bytes[5],
   sequence  |-> ReadU16LE(bytes, 5),
   source_id |-> ReadU16LE(bytes, 7),
   dest_id   |-> ReadU16LE(bytes, 9),
   hop_count |-> bytes[12],
   ttl       |-> bytes[13],
   timestamp |-> ReadU32LE(bytes, 13),
   payload   |-> SubSeq(bytes, HeaderSize + 1, CrcAt(bytes))]

=============================================================================
