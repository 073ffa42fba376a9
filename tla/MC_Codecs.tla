------------------------------ MODULE MC_Codecs ------------------------------
EXTENDS Codecs

(* PUBLISH: packet ids none, one byte, two bytes; topics empty, valid,    *)
(* not UTF-8; payloads none, two chunks, and one chunk long enough that   *)
(* the remaining length crosses 127/128.                                   *)
MC_PubPacketIds == {0, 1, 258}
MC_PubTopics == {<<>>, <<97>>, <<255>>}
MC_PubPayloads == {<<>>, <<<<98>>, <<99>>>>, <<[i \in 1..123 |-> 98]>>}

(* SUBSCRIBE: options all zero; QoS 2 + no-local + retain-as-published +  *)
(* retain handling 2; QoS 3; retain handling 3; a reserved bit.           *)
(* Properties: none, subscription identifier 5, payload format indicator  *)
(* (not allowed in SUBSCRIBE).                                             *)
MC_SubPacketIds == {1, 258}
MC_SubTopics == {<<97>>, <<255>>}
MC_SubOpts == {0, 46, 3, 48, 64}
MC_SubPropLists == {<<>>, <<<<11, 5>>>>, <<<<1, 0>>>>}

(* UNSUBSCRIBE: a valid, an invalid and a 125-byte filter, so that two     *)
(* entries cross the 127/128 remaining-length boundary.                    *)
MC_UnsubPacketIds == {1, 258}
MC_UnsubTopics == {<<97>>, <<255>>, [i \in 1..125 |-> 97]}

=============================================================================
