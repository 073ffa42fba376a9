---------------------------- MODULE PingrespCodec ----------------------------
(***************************************************************************)
(* The MQTT v5 PINGRESP codec (v5::pingresp_packet): the constructor,      *)
(* const_buffer_sequence(), size(), num_of_const_buffer_sequence() and    *)
(* the decoding constructor pingresp_packet(buffer, error_code&).  The    *)
(* object is all_, a buffer of at most two bytes.  The variable picks one *)
(* input: a prefix of the wire form <<0xD0, 0>>, or a two-byte form with  *)
(* a wrong byte.  Longer inputs are not tried: the framing stream hands   *)
(* the decoder exactly one packet, 1 + 1 + remaining length bytes.         *)
(***************************************************************************)
EXTENDS Naturals, Sequences, SequencesExt, CodecBase

Malformed == "malformed_packet"
None == "none"

(* pingresp_packet(): all_ = fixed header, remaining length 0.             *)
Pingresp == [all |-> <<MakeFixedHeader(PINGRESP), 0>>]

(* type(): control_packet_type::pingresp.                               *)
Type == PINGRESP

(* const_buffer_sequence(): one slice, all_.                               *)
ConstBufferSequence(p) == <<p.all>>

(* size(): all_.size().                                                    *)
Size(p) == Len(p.all)

(* num_of_const_buffer_sequence(): always 1.                               *)
NumOfConstBufferSequence == 1

(* pingresp_packet(buffer, error_code&): the fixed header must be         *)
(* PINGRESP and the next byte must be 0; nothing after it is read.        *)
Decode(b) ==
    IF b = <<>> THEN [ec |-> Malformed, all |-> <<>>] ELSE
    IF ~FixedHeaderIs(b[1], PINGRESP) THEN [ec |-> Malformed, all |-> <<b[1]>>] ELSE
    IF Len(b) < 2 THEN [ec |-> Malformed, all |-> <<b[1]>>] ELSE
    IF b[2] # 0 THEN [ec |-> Malformed, all |-> SubSeq(b, 1, 2)] ELSE
    [ec |-> None, all |-> SubSeq(b, 1, 2)]

-----------------------------------------------------------------------------
VARIABLE input

(* The inputs: every prefix of the wire form, and the forms with a wrong  *)
(* fixed header (PINGREQ, or PINGRESP with flag bits) or a non-zero       *)
(* remaining length.                                                       *)
Inputs ==
    {SubSeq(<<208, 0>>, 1, k) : k \in 0..2} \cup {<<192, 0>>, <<209, 0>>, <<208, 1>>}

Init == input \in Inputs

Next == UNCHANGED input

Spec == Init /\ [][Next]_input

-----------------------------------------------------------------------------
(* Decoding yields malformed_packet or a two-byte object.                 *)
TypeOK ==
    LET d == Decode(input) IN
    d.ec \in {None, Malformed} /\ (d.ec = None => Len(d.all) = 2)

(* Round trip: the constructed packet is the spec's two-byte wire form in *)
(* num_of_const_buffer_sequence() slices of size() bytes, and decodes     *)
(* back to itself.                                                         *)
RoundTrip ==
    LET cbs == ConstBufferSequence(Pingresp) IN
    /\ FlattenSeq(cbs) = <<208, 0>>
    /\ Len(cbs) = NumOfConstBufferSequence /\ Size(Pingresp) = 2
    /\ Decode(FlattenSeq(cbs)) = [ec |-> None, all |-> Pingresp.all]

(* Decode accepts exactly the wire form: a truncated input, a wrong fixed *)
(* header or a non-zero remaining length is malformed_packet.             *)
DecodeExact == (Decode(input).ec = None) <=> (input = <<208, 0>>)

=============================================================================
