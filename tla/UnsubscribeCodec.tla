--------------------------- MODULE UnsubscribeCodec ---------------------------
(***************************************************************************)
(* The MQTT v3.1.1 UNSUBSCRIBE codec (v3_1_1::basic_unsubscribe_packet<2>):*)
(* the checking constructor, const_buffer_sequence(), size() and          *)
(* num_of_const_buffer_sequence(), and the (private) decoding constructor *)
(* that buffer_to_basic_packet_variant calls.  Every check throws          *)
(* errc::bad_message.  The variables pick one input: a field tuple and a  *)
(* cut of its reference wire form.                                        *)
(***************************************************************************)
EXTENDS Naturals, Sequences, SequencesExt, CodecBase

CONSTANTS
    PacketIds,   \* packet_id arguments tried
    Topics,      \* topic filters tried, as byte sequences
    MaxEntries   \* the longest entry list tried

PacketIdBytes == 2

(* A thrown errc::bad_message: no constructed packet has fixed header 0.  *)
Error == [fh |-> 0, rl |-> 0, rlbuf |-> <<>>, pid |-> 0, entries |-> <<>>]

Fields == [pid : PacketIds, entries : SeqOf(Topics, MaxEntries)]

-----------------------------------------------------------------------------
(* The constructor's checks (lines 68-87): every topic filter is UTF-8.   *)
(* (The size > 0xffff check there is unreachable: numeric_cast<uint16_t>  *)
(* on line 61 has already thrown for such a filter.)                      *)
CtorOk(g) == \A i \in DOMAIN g.entries : Utf8Ok(g.entries[i])

(* remaining_length_: the packet id, and per entry 2 + filter.            *)
RemainingLength(g) ==
    FoldLeft(LAMBDA acc, t : acc + 2 + Len(t), PacketIdBytes, g.entries)

(* The object the checking constructor builds (when CtorOk holds).        *)
Unsubscribe(g) ==
    [fh |-> MakeFixedHeader(UNSUBSCRIBE),
     rl |-> RemainingLength(g),
     rlbuf |-> VarBytes(RemainingLength(g)),
     pid |-> g.pid,
     entries |-> [i \in DOMAIN g.entries |->
                    [tlbuf |-> Be16(Len(g.entries[i])), topic |-> g.entries[i]]]]

(* type(): control_packet_type::unsubscribe.                            *)
Type == UNSUBSCRIBE

(* const_buffer_sequence(): fixed header, remaining length, packet id,    *)
(* then per entry its length and its filter.                              *)
ConstBufferSequence(p) ==
    <<<<p.fh>>, p.rlbuf, Be16(p.pid)>>
      \o FlattenSeq([i \in DOMAIN p.entries |-> <<p.entries[i].tlbuf, p.entries[i].topic>>])

(* size(): 1 + remaining_length_buf_.size() + remaining_length_.          *)
Size(p) == 1 + Len(p.rlbuf) + p.rl

(* num_of_const_buffer_sequence(): three fixed slices and two per entry.  *)
NumOfConstBufferSequence(p) == 3 + 2 * Len(p.entries)

-----------------------------------------------------------------------------
(* The entry loop of the decoding constructor (lines 208-236).            *)
RECURSIVE DecodeEntries(_, _)
DecodeEntries(s, acc) ==
    IF s = <<>> THEN [ok |-> TRUE, entries |-> acc] ELSE
    IF Len(s) < 2 THEN [ok |-> FALSE, entries |-> acc] ELSE
    LET tl == Load16(s)
        r == Drop(s, 2)
        topic == SubSeq(r, 1, tl)
    IN
    IF Len(r) < tl \/ ~Utf8Ok(topic) THEN [ok |-> FALSE, entries |-> acc] ELSE
    DecodeEntries(Drop(r, tl), Append(acc, [tlbuf |-> SubSeq(s, 1, 2), topic |-> topic]))

(* The decoding constructor basic_unsubscribe_packet(buffer).             *)
Decode(b) ==
    IF b = <<>> THEN Error ELSE
    LET fh == b[1]
        r1 == Tail(b)
        vl == VarLen(r1)
        r2 == Drop(r1, vl.n)
        de == DecodeEntries(Drop(r2, PacketIdBytes), <<>>)
    IN
    IF ~FixedHeaderIs(fh, UNSUBSCRIBE) THEN Error ELSE
    IF ~vl.ok THEN Error ELSE
    IF vl.val # Len(r2) THEN Error ELSE
    IF Len(r2) < PacketIdBytes THEN Error ELSE
    IF vl.val = 0 THEN Error ELSE
    IF ~de.ok THEN Error ELSE
    [fh |-> fh, rl |-> vl.val, rlbuf |-> SubSeq(r1, 1, vl.n), pid |-> Load16(r2),
     entries |-> de.entries]

-----------------------------------------------------------------------------
(* The input under check: field tuple f and a cut of its wire form.       *)
VARIABLES f, cut

vars == <<f, cut>>

(* The wire form of a v3.1.1 UNSUBSCRIBE as spec 4.1 lays it out.          *)
RefBytes(g) ==
    LET eb == FlattenSeq([i \in DOMAIN g.entries |->
                 <<Len(g.entries[i]) \div 256, Len(g.entries[i]) % 256>> \o g.entries[i]])
        body == <<g.pid \div 256, g.pid % 256>> \o eb
    IN <<16 * 10 + 2>> \o VarBytes(Len(body)) \o body

Input ==
    LET r == RefBytes(f) IN
    IF cut <= Len(r) THEN SubSeq(r, 1, cut) ELSE r \o <<0>>

Init ==
    /\ f \in Fields
    /\ cut \in 0..(Len(RefBytes(f)) + 1)

Next == UNCHANGED vars

Spec == Init /\ [][Next]_vars

FieldsOf(p) ==
    [pid |-> p.pid, entries |-> [i \in DOMAIN p.entries |-> p.entries[i].topic]]

-----------------------------------------------------------------------------
(* A decoded packet has a 16-bit id and two-byte length buffers.          *)
TypeOK ==
    LET d == Decode(Input) IN
    d # Error =>
        /\ d.pid \in 0..65535
        /\ Len(d.rlbuf) \in 1..4
        /\ \A i \in DOMAIN d.entries : Len(d.entries[i].tlbuf) = 2

(* Round trip (spec 8): a packet the constructor accepts is sent as the   *)
(* spec's wire form, of length size(), in num_of_const_buffer_sequence() *)
(* slices, and decodes to the same packet.                                 *)
RoundTrip ==
    CtorOk(f) =>
        LET p == Unsubscribe(f)
            cbs == ConstBufferSequence(p)
        IN /\ FlattenSeq(cbs) = RefBytes(f)
           /\ Len(FlattenSeq(cbs)) = Size(p)
           /\ Len(cbs) = NumOfConstBufferSequence(p)
           /\ Decode(FlattenSeq(cbs)) = p

(* A truncated or over-long input is rejected.                             *)
TruncationRejected == cut # Len(RefBytes(f)) => Decode(Input) = Error

(* Decode accepts only what the constructor accepts.                       *)
DecodeAsConstructor == Decode(Input) # Error => CtorOk(FieldsOf(Decode(Input)))

(* An UNSUBSCRIBE carries at least one topic filter: the decoding         *)
(* constructor's "doesn't have entries" check (line 204) is meant to      *)
(* reject one without.                                                     *)
EntriesRequired == Decode(Input) # Error => Decode(Input).entries # <<>>

=============================================================================
