\* Decoded packets against what the protocol calls invalid.
CONSTANTS
    PubPacketIds <- MC_PubPacketIds
    PubTopics <- MC_PubTopics
    PubPayloads <- MC_PubPayloads
    SubPacketIds <- MC_SubPacketIds
    SubTopics <- MC_SubTopics
    SubOpts <- MC_SubOpts
    SubPropLists <- MC_SubPropLists
    UnsubPacketIds <- MC_UnsubPacketIds
    UnsubTopics <- MC_UnsubTopics
    MaxEntries = 2
SPECIFICATION Spec
INVARIANT DecodeRejectsInvalid
