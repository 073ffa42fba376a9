------------------------------ MODULE CodecBase ------------------------------
(***************************************************************************)
(* Byte-level helpers the packet classes call but that live outside this   *)
(* listing (util/endian_convert.hpp, util/utf8validate.hpp,                *)
(* variable_bytes.hpp, fixed_header.hpp).  They are modelled from spec 4.1 *)
(* and shared by every codec module.  Bytes are naturals 0..255.           *)
(***************************************************************************)
EXTENDS Naturals, Sequences

(* utf8string_check, for bytes drawn from 1..255: single-byte UTF-8       *)
(* characters pass, any byte >= 0x80 alone is ill-formed.                  *)
Utf8Ok(s) == \A i \in DOMAIN s : s[i] \in 1..127

(* endian_store of a 16-bit value: two bytes, big-endian.                  *)
Be16(n) == <<n \div 256, n % 256>>

(* endian_load<std::uint16_t> of the first two bytes of s.                 *)
Load16(s) == 256 * s[1] + s[2]

(* val_to_variable_bytes: 7 data bits per byte, low group first, the      *)
(* continuation bit set on every byte but the last.                        *)
RECURSIVE VarBytes(_)
VarBytes(n) == IF n < 128 THEN <<n>> ELSE <<(n % 128) + 128>> \o VarBytes(n \div 128)

(* insert_advance_variable_length / variable_bytes_to_val: read at most 4 *)
(* bytes of a variable byte integer from s; n is the number of bytes it    *)
(* took.                                                                   *)
RECURSIVE VarLenFrom(_, _, _, _)
VarLenFrom(s, i, mult, acc) ==
    IF i > Len(s) THEN [ok |-> FALSE, val |-> 0, n |-> 0]
    ELSE LET v == acc + (s[i] % 128) * mult IN
         IF s[i] < 128 THEN [ok |-> TRUE, val |-> v, n |-> i]
         ELSE IF i = 4 THEN [ok |-> FALSE, val |-> 0, n |-> 0]
         ELSE VarLenFrom(s, i + 1, mult * 128, v)
VarLen(s) == VarLenFrom(s, 1, 1, 0)

(* The bytes of s after the first k.                                       *)
Drop(s, k) == SubSeq(s, k + 1, Len(s))

(* make_fixed_header(type, flags), and get_control_packet_type_with_check:*)
(* the type is the high nibble, and every packet but PUBLISH has fixed    *)
(* flag bits (0b0010 for SUBSCRIBE, UNSUBSCRIBE and PUBREL, 0 otherwise).  *)
SUBSCRIBE == 8
UNSUBSCRIBE == 10
PINGRESP == 13
FixedFlags(type) == IF type \in {6, SUBSCRIBE, UNSUBSCRIBE} THEN 2 ELSE 0
MakeFixedHeader(type) == type * 16 + FixedFlags(type)
FixedHeaderIs(fh, type) == fh = MakeFixedHeader(type)

=============================================================================
