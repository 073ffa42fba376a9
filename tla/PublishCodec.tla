---------------------------- MODULE PublishCodec ----------------------------
(***************************************************************************)
(* The MQTT v3.1.1 PUBLISH codec (basic_publish_packet<2>): the checking   *)
(* constructor, const_buffer_sequence() and size(), and the decoding       *)
(* constructor, as operators over byte sequences (bytes are 0..255).       *)
(*                                                                         *)
(* A packet object is the record the class keeps: fixed_header_,           *)
(* remaining_length_buf_, topic_name_, packet_id_ and payloads_ (a list   *)
(* of byte chunks).  The state variables only pick one input: a field     *)
(* tuple and a cut of its reference wire form (a prefix, the whole form,  *)
(* or the form with one trailing byte), so that every invariant is         *)
(* checked on every input.                                                 *)
(***************************************************************************)
EXTENDS Naturals, Sequences, SequencesExt, CodecBase

CONSTANTS
    PacketIds,  \* packet_id arguments tried (0 included)
    Topics,     \* topic names tried, as byte sequences
    Payloads    \* payloads tried, as sequences of byte chunks

PacketIdBytes == 2
Qos == 0..3          \* the two QoS bits of pub::opts, 3 included

None == "none"
Malformed == "malformed_packet"
ProtocolError == "protocol_error"
TopicInvalid == "topic_name_invalid"

Fields == [pid : PacketIds, topic : Topics, payload : Payloads, qos : Qos,
           dup : BOOLEAN, retain : BOOLEAN]

-----------------------------------------------------------------------------
(* The helpers (Utf8Ok, Be16, VarBytes, VarLen) are in CodecBase.       *)

(* pub::get_qos of a fixed header byte.                                    *)
PubQos(fh) == (fh % 8) \div 2

-----------------------------------------------------------------------------
(* The packet as the constructor computes it: remaining_length_ counts    *)
(* the topic length field, the topic, the packet id for QoS 1 and 2, and  *)
(* the payload chunks.                                                     *)
RemainingLength(f) ==
    2 + Len(f.topic)
      + (IF f.qos \in {1, 2} THEN PacketIdBytes ELSE 0)
      + Len(FlattenSeq(f.payload))

(* The constructor's checks, in order: the topic is UTF-8, then the QoS   *)
(* switch (QoS 0 needs id 0, QoS 1 and 2 a non-zero id, QoS 3 is         *)
(* malformed).                                                             *)
CtorError(f) ==
    IF ~Utf8Ok(f.topic) THEN TopicInvalid
    ELSE IF f.qos = 0 THEN (IF f.pid # 0 THEN ProtocolError ELSE None)
    ELSE IF f.qos \in {1, 2} THEN (IF f.pid = 0 THEN ProtocolError ELSE None)
    ELSE Malformed

(* The object the checking constructor builds (when CtorError is None).   *)
Publish(f) ==
    [fh |-> 48 + (IF f.retain THEN 1 ELSE 0) + 2 * f.qos + (IF f.dup THEN 8 ELSE 0),
     rlbuf |-> VarBytes(RemainingLength(f)),
     topic |-> f.topic,
     pid |-> IF f.qos \in {1, 2} THEN f.pid ELSE 0,
     payload |-> f.payload]

(* type(): control_packet_type::publish.                                *)
Type == 3

(* const_buffer_sequence(): fixed header, remaining length, topic length, *)
(* topic, the packet id only when it is non-zero, then each chunk.         *)
ConstBufferSequence(p) ==
    <<<<p.fh>>, p.rlbuf, Be16(Len(p.topic)), p.topic>>
      \o (IF p.pid # 0 THEN <<Be16(p.pid)>> ELSE <<>>)
      \o p.payload

(* num_of_const_buffer_sequence(): the slices const_buffer_sequence()     *)
(* reserves room for, counted the same way.                                *)
NumOfConstBufferSequence(p) ==
    4 + (IF p.pid = 0 THEN 0 ELSE 1) + Len(p.payload)

(* set_dup(dup): pub::set_dup rewrites bit 3 of fixed_header_ only.       *)
SetDup(p, dup) ==
    [p EXCEPT !.fh = (p.fh - (IF (p.fh % 16) >= 8 THEN 8 ELSE 0))
                       + (IF dup THEN 8 ELSE 0)]

(* size(): 1 + remaining_length_buf_.size() + remaining_length_.          *)
Size(p, rl) == 1 + Len(p.rlbuf) + rl

-----------------------------------------------------------------------------
Err(ec) == [ec |-> ec, pkt |-> None]
Ok(fh, rlbuf, topic, pid, rest) ==
    [ec |-> None,
     pkt |-> [fh |-> fh, rlbuf |-> rlbuf, topic |-> topic, pid |-> pid,
              payload |-> IF rest = <<>> THEN <<>> ELSE <<rest>>]]

(* Mutant: the QoS switch has no default branch; QoS 3 reads an id.       *)
DecodeNoDefault(b) ==
    IF b = <<>> THEN Err(Malformed) ELSE
    LET fh == b[1]
        r1 == Tail(b)
        vl == VarLen(r1)
        r2 == SubSeq(r1, vl.n + 1, Len(r1))
    IN
    IF fh \div 16 # 3 THEN Err(Malformed) ELSE
    IF ~vl.ok THEN Err(Malformed) ELSE
    IF vl.val # Len(r2) THEN Err(Malformed) ELSE
    IF Len(r2) < 2 THEN Err(Malformed) ELSE
    LET tl == 256 * r2[1] + r2[2]
        r3 == SubSeq(r2, 3, Len(r2))
        topic == SubSeq(r3, 1, tl)
        r4 == SubSeq(r3, tl + 1, Len(r3))
        rlbuf == SubSeq(r1, 1, vl.n)
    IN
    IF Len(r3) < tl THEN Err(Malformed) ELSE
    IF ~Utf8Ok(topic) THEN Err(TopicInvalid) ELSE
    IF PubQos(fh) = 0 THEN Ok(fh, rlbuf, topic, 0, r4) ELSE
    IF TRUE
    THEN IF Len(r4) < PacketIdBytes THEN Err(ProtocolError)
         ELSE Ok(fh, rlbuf, topic, 256 * r4[1] + r4[2], SubSeq(r4, 3, Len(r4)))
    ELSE Err(Malformed)

(* Mutant: remaining_length_ is not compared with the bytes left.         *)
DecodeNoLengthCheck(b) ==
    IF b = <<>> THEN Err(Malformed) ELSE
    LET fh == b[1]
        r1 == Tail(b)
        vl == VarLen(r1)
        r2 == SubSeq(r1, vl.n + 1, Len(r1))
    IN
    IF fh \div 16 # 3 THEN Err(Malformed) ELSE
    IF ~vl.ok THEN Err(Malformed) ELSE
    IF Len(r2) < 2 THEN Err(Malformed) ELSE
    LET tl == 256 * r2[1] + r2[2]
        r3 == SubSeq(r2, 3, Len(r2))
        topic == SubSeq(r3, 1, tl)
        r4 == SubSeq(r3, tl + 1, Len(r3))
        rlbuf == SubSeq(r1, 1, vl.n)
    IN
    IF Len(r3) < tl THEN Err(Malformed) ELSE
    IF ~Utf8Ok(topic) THEN Err(TopicInvalid) ELSE
    IF PubQos(fh) = 0 THEN Ok(fh, rlbuf, topic, 0, r4) ELSE
    IF PubQos(fh) \in {1, 2}
    THEN IF Len(r4) < PacketIdBytes THEN Err(ProtocolError)
         ELSE Ok(fh, rlbuf, topic, 256 * r4[1] + r4[2], SubSeq(r4, 3, Len(r4)))
    ELSE Err(Malformed)

(* The decoding constructor basic_publish_packet(buffer, error_code&):    *)
(* every early return of the listing is one ELSE branch here.              *)
Decode(b) ==
    IF b = <<>> THEN Err(Malformed) ELSE
    LET fh == b[1]
        r1 == Tail(b)
        vl == VarLen(r1)
        r2 == SubSeq(r1, vl.n + 1, Len(r1))
    IN
    IF fh \div 16 # 3 THEN Err(Malformed) ELSE
    IF ~vl.ok THEN Err(Malformed) ELSE
    IF vl.val # Len(r2) THEN Err(Malformed) ELSE
    IF Len(r2) < 2 THEN Err(Malformed) ELSE
    LET tl == 256 * r2[1] + r2[2]
        r3 == SubSeq(r2, 3, Len(r2))
        topic == SubSeq(r3, 1, tl)
        r4 == SubSeq(r3, tl + 1, Len(r3))
        rlbuf == SubSeq(r1, 1, vl.n)
    IN
    IF Len(r3) < tl THEN Err(Malformed) ELSE
    IF ~Utf8Ok(topic) THEN Err(TopicInvalid) ELSE
    IF PubQos(fh) = 0 THEN Ok(fh, rlbuf, topic, 0, r4) ELSE
    IF PubQos(fh) \in {1, 2}
    THEN IF Len(r4) < PacketIdBytes THEN Err(ProtocolError)
         ELSE Ok(fh, rlbuf, topic, 256 * r4[1] + r4[2], SubSeq(r4, 3, Len(r4)))
    ELSE Err(Malformed)

-----------------------------------------------------------------------------
(* The input under check: field tuple f and a cut of its wire form.       *)
VARIABLES f, cut

vars == <<f, cut>>

(* The wire form of a PUBLISH as spec 4.1 lays it out, built without the  *)
(* code's operators: the id field is present exactly for QoS 1 and 2.     *)
RefBytes(g) ==
    LET id == IF g.qos \in {1, 2} THEN <<g.pid \div 256, g.pid % 256>> ELSE <<>>
        body == <<Len(g.topic) \div 256, Len(g.topic) % 256>> \o g.topic \o id
                  \o FlattenSeq(g.payload)
    IN <<48 + (IF g.retain THEN 1 ELSE 0) + 2 * g.qos + (IF g.dup THEN 8 ELSE 0)>>
         \o VarBytes(Len(body)) \o body

(* A prefix of length cut, or the whole form with one more byte.           *)
Input ==
    LET r == RefBytes(f) IN
    IF cut <= Len(r) THEN SubSeq(r, 1, cut) ELSE r \o <<0>>

Init ==
    /\ f \in Fields
    /\ cut \in 0..(Len(RefBytes(f)) + 1)

Next == UNCHANGED vars

Spec == Init /\ [][Next]_vars

(* The fields of a decoded packet, as the constructor takes them.          *)
FieldsOf(p) ==
    [pid |-> p.pid, topic |-> p.topic, payload |-> p.payload, qos |-> PubQos(p.fh),
     dup |-> (p.fh % 16) >= 8, retain |-> p.fh % 2 = 1]

-----------------------------------------------------------------------------
(* Decoding any input yields one of the codec's reason codes, and a       *)
(* decoded packet has a QoS of 0, 1 or 2 and a 16-bit packet id.          *)
TypeOK ==
    LET d == Decode(Input) IN
    /\ d.ec \in {None, Malformed, ProtocolError, TopicInvalid}
    /\ d.ec = None => /\ PubQos(d.pkt.fh) \in 0..2
                      /\ d.pkt.pid \in 0..65535

(* Round trip (spec 8): a packet the constructor accepts is sent as the   *)
(* spec's wire form, of length size(), in num_of_const_buffer_sequence() *)
(* slices, and decodes to the same packet (its payload chunks joined into *)
(* one buffer).  After set_dup (the resend path) it is sent as the wire   *)
(* form with that DUP flag and nothing else changed.                       *)
RoundTrip ==
    CtorError(f) = None =>
        LET p == Publish(f)
            b == FlattenSeq(ConstBufferSequence(p))
            joined == FlattenSeq(p.payload)
        IN /\ b = RefBytes(f)
           /\ Len(b) = Size(p, RemainingLength(f))
           /\ Len(ConstBufferSequence(p)) = NumOfConstBufferSequence(p)
           /\ \A dup \in BOOLEAN :
                FlattenSeq(ConstBufferSequence(SetDup(p, dup)))
                  = RefBytes([f EXCEPT !.dup = dup])
           /\ Decode(b) = [ec |-> None,
                           pkt |-> [p EXCEPT !.payload =
                                      IF joined = <<>> THEN <<>> ELSE <<joined>>]]

(* A truncated packet, or one with a byte past its remaining length, is   *)
(* rejected: decode never accepts anything but a whole wire form.         *)
TruncationRejected ==
    cut # Len(RefBytes(f)) => Decode(Input).ec # None

(* Decode accepts only what the constructor accepts (spec 4.1: a QoS 1 or *)
(* 2 PUBLISH with packet id 0 is a protocol_error on construction or      *)
(* decode).                                                                *)
DecodeAsConstructor ==
    Decode(Input).ec = None => CtorError(FieldsOf(Decode(Input).pkt)) = None

=============================================================================
