---------------------------------- MODULE Tlv ----------------------------------
(***************************************************************************)
(* The TLV encoding of values, as the client writes it                     *)
(* (src/lwm2m_parser_serialize.c) and as it reads it                       *)
(* (src/lwm2m_parser_deserialize.c).  A message is a sequence of bytes, an *)
(* element of it a header (kind, id and length) and a value.               *)
(*                                                                         *)
(* An INTEGER is an int of 32 bits, a DOUBLE the eight bytes it has in     *)
(* memory, a LINK a pair of 16 bits each, a STRING the bytes before its    *)
(* terminating zero.  The machine is little-endian.  Whether char has a    *)
(* sign is up to the compiler, so the operators that read one are told.    *)
(***************************************************************************)
EXTENDS Integers, Sequences, SequencesExt

Byte == 0..255
Word == 0..65535
Int32 == {n \in Int : -2147483647 - 1 <= n /\ n <= 2147483647}

InstanceKind == 0           \* OBJECT_INSTANCE_TYPE
ResourceInstanceKind == 1   \* RESOURCE_INSTANCE_TYPE
ResourceKind == 3           \* RESOURCE_TYPE

(* The low n bytes of v, the lowest first. *)
Little(v, n) ==
  SubSeq(<<v % 256, (v \div 256) % 256, (v \div 65536) % 256, (v \div 16777216) % 256>>, 1, n)

-----------------------------------------------------------------------------
(* get_int_bytes() for an int: one byte for whatever is negative. *)
IntBytes(v) ==
  IF v < 255 THEN 1 ELSE IF v < 65535 THEN 2 ELSE IF v < 16777215 THEN 3 ELSE 4

(* The length, when it has a field of its own: a cast to unsigned char     *)
(* binds closer than the shift, so that all but the last byte are 0.       *)
LengthField(len) ==
  IF len < 4 THEN <<>> ELSE [k \in 1..IntBytes(len) |-> IF k = IntBytes(len) THEN len % 256 ELSE 0]

(* serialize_header() *)
Header(kind, id, len) ==
  LET bits == 64 * kind + (IF id < 255 THEN 0 ELSE 32)
              + (IF len < 4 THEN 0 ELSE 8 * IntBytes(len)) + (IF len < 8 THEN len ELSE 0)
  IN  <<bits>> \o Little(id, IF id < 255 THEN 1 ELSE 2) \o LengthField(len)

Element(kind, id, value) == Header(kind, id, Len(value)) \o value

(* Mutant of Encode: an INTEGER goes out in network order. *)
EncodeBig(type, v) ==
  CASE type = "INTEGER" -> Reverse(Little(v, IntBytes(v)))
    [] type = "BOOLEAN" -> <<IF v THEN 1 ELSE 0>>
    [] type = "LINK"    -> Little(v[1], 2) \o Little(v[2], 2)
    [] OTHER            -> v

(* serialize_value(): the bytes of an INTEGER or DOUBLE as they lie in     *)
(* memory.                                                                 *)
Encode(type, v) ==
  CASE type = "INTEGER" -> Little(v, IntBytes(v))
    [] type = "BOOLEAN" -> <<IF v THEN 1 ELSE 0>>
    [] type = "LINK"    -> Little(v[1], 2) \o Little(v[2], 2)
    [] OTHER            -> v

-----------------------------------------------------------------------------
(* A char as an int. *)
Char(signed, byte) == IF signed /\ byte >= 128 THEN byte - 256 ELSE byte

(* Mutant of TlvId: the id of two bytes is read in network order. *)
TlvIdBig(signed, bytes) ==
  IF Len(bytes) = 1 THEN Char(signed, bytes[1])
  ELSE 256 * Char(signed, bytes[1]) + Char(signed, bytes[2])

(* parse_tlv_header(): the identifier, the low byte first. *)
TlvId(signed, bytes) ==
  IF Len(bytes) = 1 THEN Char(signed, bytes[1])
  ELSE 256 * Char(signed, bytes[2]) + Char(signed, bytes[1])

(* ... and the length, which is signed if it has one byte. *)
TlvLength(signed, field) ==
  CASE Len(field) = 1 -> Char(signed, field[1])
    [] Len(field) = 2 -> 256 * field[1] + field[2]
    [] Len(field) = 3 -> 65536 * field[1] + 256 * field[2] + field[3]

(* parse_int(): the first byte is the highest, and the fourth of four is   *)
(* the sign.                                                               *)
ParseInt(bytes) ==
  LET byte(k) == IF k > Len(bytes) THEN 0 ELSE bytes[Len(bytes) + 1 - k]
  IN  byte(1) + 256 * byte(2) + 65536 * byte(3) + 16777216 * Char(TRUE, byte(4))

(* strcpy() of what is read, to the first zero. *)
Terminated(bytes) ==
  LET end == CHOOSE n \in 0..Len(bytes) :
               /\ n = Len(bytes) \/ bytes[n + 1] = 0
               /\ \A k \in 1..n : bytes[k] # 0
  IN  SubSeq(bytes, 1, end)

(* parse_value(), and __set_value() of what it returns *)
Decode(type, bytes) ==
  CASE type = "INTEGER" -> ParseInt(bytes)
    [] type = "BOOLEAN" -> ParseInt(bytes) # 0
    [] type = "DOUBLE"  -> Reverse(bytes)
    [] type = "LINK"    -> <<ParseInt(SubSeq(bytes, 3, 4)), ParseInt(SubSeq(bytes, 1, 2))>>
    [] type = "STRING"  -> Terminated(bytes)

(* What is read of an element that has no sensible end: memory that is not *)
(* the message's, or as many bytes as a negative number says.              *)
Astray == [kind |-> -1, id |-> -1, value |-> <<>>]

(* The element that starts after the first p bytes, and where the next     *)
(* does.                                                                   *)
Parsed(signed, message, p) ==
  LET bits    == message[p + 1]
      ids     == IF (bits \div 32) % 2 = 0 THEN 1 ELSE 2
      lengths == (bits \div 8) % 4
      start   == p + 1 + ids + lengths
      len     == IF lengths = 0 THEN bits % 8
                 ELSE TlvLength(signed, SubSeq(message, p + 2 + ids, start))
  IN  IF Len(message) < start \/ len < 0 \/ Len(message) < start + len
      THEN [element |-> Astray, next |-> Len(message)]
      ELSE [element |-> [kind  |-> bits \div 64,
                         id    |-> TlvId(signed, SubSeq(message, p + 2, p + 1 + ids)),
                         value |-> SubSeq(message, start + 1, start + len)],
            next    |-> start + len]

(* The loop of parse_instance(), parse_object() and                        *)
(* parse_multiple_resource(): the elements of a message up to its end.     *)
Elements(signed, message) ==
  LET read[n \in 0..Len(message)] ==
        IF n = 0 THEN [elements |-> <<>>, next |-> 0]
        ELSE LET before == read[n - 1]
                 parsed == Parsed(signed, message, before.next)
             IN  IF before.next = Len(message) THEN before
                 ELSE [elements |-> Append(before.elements, parsed.element),
                       next     |-> parsed.next]
  IN  read[CHOOSE n \in 0..Len(message) : read[n].next = Len(message)].elements
=============================================================================
