-------------------------------- MODULE Codecs --------------------------------
(***************************************************************************)
(* The wire codec as a whole: the PUBLISH (v3.1.1), SUBSCRIBE (v5),        *)
(* UNSUBSCRIBE (v3.1.1) and PINGRESP (v5) codecs.  Each codec keeps its   *)
(* own input variables; an initial state puts one codec's input under     *)
(* check and holds the others at a fixed well-formed input, so every      *)
(* codec is checked on every one of its inputs.                           *)
(***************************************************************************)
EXTENDS Naturals, Sequences, SequencesExt

CONSTANTS
    PubPacketIds, PubTopics, PubPayloads,            \* PUBLISH inputs
    SubPacketIds, SubTopics, SubOpts, SubPropLists,  \* SUBSCRIBE inputs
    UnsubPacketIds, UnsubTopics,                     \* UNSUBSCRIBE inputs
    MaxEntries                                       \* longest entry list

VARIABLES pub_f, pub_cut, sub_f, sub_cut, unsub_f, unsub_cut, ping_input

vars == <<pub_f, pub_cut, sub_f, sub_cut, unsub_f, unsub_cut, ping_input>>

Pub == INSTANCE PublishCodec
         WITH PacketIds <- PubPacketIds, Topics <- PubTopics, Payloads <- PubPayloads,
              f <- pub_f, cut <- pub_cut
Sub == INSTANCE SubscribeCodec
         WITH PacketIds <- SubPacketIds, Topics <- SubTopics, Opts <- SubOpts,
              PropLists <- SubPropLists, f <- sub_f, cut <- sub_cut
Unsub == INSTANCE UnsubscribeCodec
         WITH PacketIds <- UnsubPacketIds, Topics <- UnsubTopics,
              f <- unsub_f, cut <- unsub_cut
Ping == INSTANCE PingrespCodec WITH input <- ping_input

-----------------------------------------------------------------------------
(* The fixed inputs a codec holds while another codec is under check.      *)
PubAtRest ==
    /\ pub_f = CHOOSE g \in Pub!Fields : Pub!CtorError(g) = Pub!None
    /\ pub_cut = Len(Pub!RefBytes(pub_f))
SubAtRest ==
    /\ sub_f = CHOOSE g \in Sub!Fields : Sub!CtorOk(g) /\ g.entries # <<>>
    /\ sub_cut = Len(Sub!RefBytes(sub_f))
UnsubAtRest ==
    /\ unsub_f = CHOOSE g \in Unsub!Fields : Unsub!CtorOk(g) /\ g.entries # <<>>
    /\ unsub_cut = Len(Unsub!RefBytes(unsub_f))
PingAtRest == ping_input = <<208, 0>>

Init ==
    \/ Pub!Init /\ SubAtRest /\ UnsubAtRest /\ PingAtRest
    \/ PubAtRest /\ Sub!Init /\ UnsubAtRest /\ PingAtRest
    \/ PubAtRest /\ SubAtRest /\ Unsub!Init /\ PingAtRest
    \/ PubAtRest /\ SubAtRest /\ UnsubAtRest /\ Ping!Init

Next == UNCHANGED vars

Spec == Init /\ [][Next]_vars

-----------------------------------------------------------------------------
(* Every codec's decode result is well typed.                              *)
TypeOK == Pub!TypeOK /\ Sub!TypeOK /\ Unsub!TypeOK /\ Ping!TypeOK

(* Round trip (spec 8), for every codec: what the constructor accepts is  *)
(* sent as the spec's wire form, of length size(), in                      *)
(* num_of_const_buffer_sequence() slices, and decodes to the same packet. *)
RoundTrip == Pub!RoundTrip /\ Sub!RoundTrip /\ Unsub!RoundTrip /\ Ping!RoundTrip

(* Every decoder rejects a truncated input and one with bytes past its    *)
(* remaining length (PINGRESP: accepts exactly its two-byte form).        *)
TruncationRejected ==
    Pub!TruncationRejected /\ Sub!TruncationRejected
      /\ Unsub!TruncationRejected /\ Ping!DecodeExact

(* The SUBSCRIBE and UNSUBSCRIBE decoders accept only what their checking *)
(* constructors accept (options bits, UTF-8, properties).                  *)
DecodeAsConstructor == Sub!DecodeAsConstructor /\ Unsub!DecodeAsConstructor

(* Every decoder rejects what the protocol calls invalid: a QoS 1/2       *)
(* PUBLISH with packet id 0 (spec 4.1), and a SUBSCRIBE or UNSUBSCRIBE    *)
(* without entries (the decoders' own "doesn't have entries" checks).     *)
DecodeRejectsInvalid ==
    Pub!DecodeAsConstructor /\ Sub!EntriesRequired /\ Unsub!EntriesRequired

=============================================================================
