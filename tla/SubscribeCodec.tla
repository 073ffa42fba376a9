---------------------------- MODULE SubscribeCodec ----------------------------
(***************************************************************************)
(* The MQTT v5 SUBSCRIBE codec (v5::basic_subscribe_packet<2>): the        *)
(* checking constructor, const_buffer_sequence(), size() and              *)
(* num_of_const_buffer_sequence(), and the decoding constructor.          *)
(*                                                                         *)
(* A packet object is the record the class keeps: fixed_header_,           *)
(* remaining_length_ and its buffer, packet_id_, property_length_buf_ and *)
(* props_, and per entry its topic length buffer, topic filter and        *)
(* subscribe options byte.  All checks of the class throw                  *)
(* errc::bad_message, so a result is a packet or Error.  The variables   *)
(* pick one input: a field tuple and a cut of its reference wire form.    *)
(***************************************************************************)
EXTENDS Naturals, Sequences, SequencesExt, CodecBase

CONSTANTS
    PacketIds,   \* packet_id arguments tried
    Topics,      \* topic filters tried, as byte sequences
    Opts,        \* subscribe options bytes tried
    PropLists,   \* property lists tried: each property is its wire bytes
    MaxEntries   \* the longest entry list tried

PacketIdBytes == 2
(* A thrown errc::bad_message: no constructed packet has fixed header 0.  *)
Error == [fh |-> 0, rl |-> 0, rlbuf |-> <<>>, pid |-> 0, plbuf |-> <<>>,
          props |-> <<>>, entries |-> <<>>]

Entry == [topic : Topics, opts : Opts]
Fields == [pid : PacketIds, entries : SeqOf(Entry, MaxEntries), props : PropLists]

-----------------------------------------------------------------------------
(* v5 properties (property_variant.hpp, outside this listing), modelled   *)
(* from spec 4.1 for the ids the inputs use: payload_format_indicator     *)
(* (1, one byte, not allowed in SUBSCRIBE) and subscription_identifier    *)
(* (11, a variable byte integer, allowed).                                *)

(* validate_property(property_location::subscribe, id)                    *)
PropAllowed(id) == id \in {11, 38}

(* async_mqtt::size(props): the bytes of all properties.                   *)
PropSize(props) == Len(FlattenSeq(props))

(* const_buffer_sequence(props) and num_of_const_buffer_sequence(props):  *)
(* each property is its id byte and its value.                             *)
PropCbs(props) == FlattenSeq([i \in DOMAIN props |-> <<<<props[i][1]>>, Tail(props[i])>>])
PropNumCbs(props) == 2 * Len(props)

(* make_properties(buf, property_location::subscribe): parse property     *)
(* records until buf is used up; an unknown id, an id not allowed in      *)
(* SUBSCRIBE or a short value fails.                                      *)
RECURSIVE MakeProps(_, _)
MakeProps(s, acc) ==
    IF s = <<>> THEN [ok |-> TRUE, props |-> acc]
    ELSE LET id == s[1]
             vl == VarLen(Tail(s))
             n == CASE id = 1 -> IF Len(s) >= 2 THEN 1 ELSE -1
                  []   id = 11 -> IF vl.ok THEN vl.n ELSE -1
                  []   OTHER -> -1
         IN IF n < 0 \/ ~PropAllowed(id) THEN [ok |-> FALSE, props |-> acc]
            ELSE MakeProps(Drop(s, n + 1), Append(acc, SubSeq(s, 1, n + 1)))

-----------------------------------------------------------------------------
(* sub::opts: QoS in bits 0-1, retain handling in bits 4-5, bits 6-7      *)
(* reserved.  The code's checks: reserved bits zero, QoS not 3, retain    *)
(* handling not 3.                                                         *)
OptsOk(o) == o \div 64 = 0 /\ o % 4 # 3 /\ (o \div 16) % 4 # 3

(* The constructor's checks (lines 80-88 and 92-143): every property is   *)
(* allowed in SUBSCRIBE, and every entry has valid options and a UTF-8    *)
(* topic filter.  An empty entry list passes.                              *)
CtorOk(g) ==
    /\ \A i \in DOMAIN g.props : PropAllowed(g.props[i][1])
    /\ \A i \in DOMAIN g.entries : OptsOk(g.entries[i].opts) /\ Utf8Ok(g.entries[i].topic)

(* remaining_length_: the packet id, the property length and properties, *)
(* and per entry 2 + topic + 1.                                            *)
RemainingLength(g) ==
    FoldLeft(LAMBDA acc, e : acc + 2 + Len(e.topic) + 1,
             PacketIdBytes + Len(VarBytes(PropSize(g.props))) + PropSize(g.props),
             g.entries)

(* The object the checking constructor builds (when CtorOk holds).        *)
Subscribe(g) ==
    [fh |-> MakeFixedHeader(SUBSCRIBE),
     rl |-> RemainingLength(g),
     rlbuf |-> VarBytes(RemainingLength(g)),
     pid |-> g.pid,
     plbuf |-> VarBytes(PropSize(g.props)),
     props |-> g.props,
     entries |-> [i \in DOMAIN g.entries |->
                    [tlbuf |-> Be16(Len(g.entries[i].topic)),
                     topic |-> g.entries[i].topic,
                     opts |-> g.entries[i].opts]]]

(* type(): control_packet_type::subscribe.                              *)
Type == SUBSCRIBE

(* const_buffer_sequence(): fixed header, remaining length, packet id,    *)
(* property length, properties, then per entry length, filter, options.  *)
ConstBufferSequence(p) ==
    <<<<p.fh>>, p.rlbuf, Be16(p.pid), p.plbuf>>
      \o PropCbs(p.props)
      \o FlattenSeq([i \in DOMAIN p.entries |->
                       <<p.entries[i].tlbuf, p.entries[i].topic, <<p.entries[i].opts>>>>])

(* size(): 1 + remaining_length_buf_.size() + remaining_length_.          *)
Size(p) == 1 + Len(p.rlbuf) + p.rl

(* Mutant: the property length slice is not counted.                    *)
NumOfConstBufferSequenceNoPlen(p) ==
    3 + (IF Len(p.plbuf) = 0 THEN 0 ELSE PropNumCbs(p.props)) + 3 * Len(p.entries)

(* num_of_const_buffer_sequence(): three fixed slices, the property       *)
(* length and properties unless property_length_buf_ is empty, and three  *)
(* slices per entry.                                                       *)
NumOfConstBufferSequence(p) ==
    3 + (IF Len(p.plbuf) = 0 THEN 0 ELSE 1 + PropNumCbs(p.props)) + 3 * Len(p.entries)

-----------------------------------------------------------------------------
(* Mutant: the decoder has no retain_handling switch.                    *)
RECURSIVE DecodeEntriesNoRh(_, _)
DecodeEntriesNoRh(s, acc) ==
    IF s = <<>> THEN [ok |-> TRUE, entries |-> acc] ELSE
    IF Len(s) < 2 THEN [ok |-> FALSE, entries |-> acc] ELSE
    LET tl == Load16(s)
        r == Drop(s, 2)
        topic == SubSeq(r, 1, tl)
        r2 == Drop(r, tl)
    IN
    IF Len(r) < tl \/ ~Utf8Ok(topic) \/ r2 = <<>> THEN [ok |-> FALSE, entries |-> acc] ELSE
    IF r2[1] \div 64 # 0 \/ r2[1] % 4 = 3 THEN [ok |-> FALSE, entries |-> acc] ELSE
    DecodeEntriesNoRh(Drop(r2, 1),
                      Append(acc, [tlbuf |-> SubSeq(s, 1, 2), topic |-> topic, opts |-> r2[1]]))

(* The entry loop of the decoding constructor (lines 212-283): length,    *)
(* filter, UTF-8 check, options byte and its checks, per entry, until the *)
(* buffer is used up.                                                      *)
RECURSIVE DecodeEntries(_, _)
DecodeEntries(s, acc) ==
    IF s = <<>> THEN [ok |-> TRUE, entries |-> acc] ELSE
    IF Len(s) < 2 THEN [ok |-> FALSE, entries |-> acc] ELSE
    LET tl == Load16(s)
        r == Drop(s, 2)
        topic == SubSeq(r, 1, tl)
        r2 == Drop(r, tl)
    IN
    IF Len(r) < tl \/ ~Utf8Ok(topic) \/ r2 = <<>> THEN [ok |-> FALSE, entries |-> acc] ELSE
    IF ~OptsOk(r2[1]) THEN [ok |-> FALSE, entries |-> acc] ELSE
    DecodeEntries(Drop(r2, 1),
                  Append(acc, [tlbuf |-> SubSeq(s, 1, 2), topic |-> topic, opts |-> r2[1]]))

(* The decoding constructor basic_subscribe_packet(buffer): every throw   *)
(* of the listing is one ELSE branch returning Error.                     *)
Decode(b) ==
    IF b = <<>> THEN Error ELSE
    LET fh == b[1]
        r1 == Tail(b)
        vl == VarLen(r1)
        r2 == Drop(r1, vl.n)
        r3 == Drop(r2, PacketIdBytes)
        pl == VarLen(r3)
        r4 == Drop(r3, pl.n)
        mp == MakeProps(SubSeq(r4, 1, pl.val), <<>>)
        de == DecodeEntries(Drop(r4, pl.val), <<>>)
    IN
    IF ~FixedHeaderIs(fh, SUBSCRIBE) THEN Error ELSE
    IF ~vl.ok THEN Error ELSE
    IF vl.val # Len(r2) THEN Error ELSE
    IF Len(r2) < PacketIdBytes THEN Error ELSE
    IF ~pl.ok THEN Error ELSE
    IF Len(r4) < pl.val \/ ~mp.ok THEN Error ELSE
    IF vl.val = 0 THEN Error ELSE
    IF ~de.ok THEN Error ELSE
    [fh |-> fh, rl |-> vl.val, rlbuf |-> SubSeq(r1, 1, vl.n), pid |-> Load16(r2),
     plbuf |-> SubSeq(r3, 1, pl.n), props |-> mp.props, entries |-> de.entries]

-----------------------------------------------------------------------------
(* The input under check: field tuple f and a cut of its wire form.       *)
VARIABLES f, cut

vars == <<f, cut>>

(* The wire form of a v5 SUBSCRIBE as spec 4.1 lays it out, built without *)
(* the code's operators.                                                   *)
RefBytes(g) ==
    LET pb == FlattenSeq(g.props)
        eb == FlattenSeq([i \in DOMAIN g.entries |->
                 <<Len(g.entries[i].topic) \div 256, Len(g.entries[i].topic) % 256>>
                   \o g.entries[i].topic \o <<g.entries[i].opts>>])
        body == <<g.pid \div 256, g.pid % 256>> \o VarBytes(Len(pb)) \o pb \o eb
    IN <<16 * 8 + 2>> \o VarBytes(Len(body)) \o body

Input ==
    LET r == RefBytes(f) IN
    IF cut <= Len(r) THEN SubSeq(r, 1, cut) ELSE r \o <<0>>

Init ==
    /\ f \in Fields
    /\ cut \in 0..(Len(RefBytes(f)) + 1)

Next == UNCHANGED vars

Spec == Init /\ [][Next]_vars

(* The fields of a decoded packet, as the constructor takes them.          *)
FieldsOf(p) ==
    [pid |-> p.pid, props |-> p.props,
     entries |-> [i \in DOMAIN p.entries |-> [topic |-> p.entries[i].topic,
                                              opts |-> p.entries[i].opts]]]

-----------------------------------------------------------------------------
(* Decoding any input yields Error or a packet whose options bytes are    *)
(* valid and whose buffers have the lengths the class gives them.         *)
TypeOK ==
    LET d == Decode(Input) IN
    d # Error =>
        /\ d.pid \in 0..65535
        /\ Len(d.rlbuf) \in 1..4 /\ Len(d.plbuf) \in 1..4
        /\ \A i \in DOMAIN d.entries : Len(d.entries[i].tlbuf) = 2 /\ OptsOk(d.entries[i].opts)

(* Round trip (spec 8): a packet the constructor accepts is sent as the   *)
(* spec's wire form, of length size(), in num_of_const_buffer_sequence() *)
(* slices, and decodes to the same packet.                                 *)
RoundTrip ==
    CtorOk(f) =>
        LET p == Subscribe(f)
            cbs == ConstBufferSequence(p)
        IN /\ FlattenSeq(cbs) = RefBytes(f)
           /\ Len(FlattenSeq(cbs)) = Size(p)
           /\ Len(cbs) = NumOfConstBufferSequence(p)
           /\ Decode(FlattenSeq(cbs)) = p

(* A truncated input, or one with a byte past its remaining length, is    *)
(* rejected.                                                               *)
TruncationRejected == cut # Len(RefBytes(f)) => Decode(Input) = Error

(* Decode accepts only what the constructor accepts: the reserved-bit,    *)
(* QoS, retain-handling, UTF-8 and property checks are the same on both   *)
(* paths.                                                                  *)
DecodeAsConstructor == Decode(Input) # Error => CtorOk(FieldsOf(Decode(Input)))

(* A SUBSCRIBE carries at least one entry: the decoding constructor's     *)
(* "doesn't have entries" check (line 208) is meant to reject one without.*)
EntriesRequired == Decode(Input) # Error => Decode(Input).entries # <<>>

=============================================================================
