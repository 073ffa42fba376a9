\* Every input of every codec: field tuples, and every cut of their wire forms.
CONSTANTS
    PubPacketIds <- MC_PubPacketIds
    PubTopics <- MC_PubTopics
    PubPayloads <- MC_PubPayloads
    SubPacketIds <- MC_SubPacketIds
    SubTopics <- MC_SubTopics
    SubOpts <- MC_SubOpts
    SubPropLists <- MC_SubPropLists
    UnsubPacketIds <- MC_UnsubPacketIds
    UnsubTopics <- MC_UnsubTopics
    MaxEntries = 2
SPECIFICATION Spec
INVARIANT TypeOK
INVARIANT RoundTrip
INVARIANT TruncationRejected
INVARIANT DecodeAsConstructor
