\* The example against a broker that may refuse the CONNECT or the QoS 1
\* publish, over a connection that may be lost at any time.
CONSTANTS
    BrokerRejects <- MC_RejectsAccepted
    Faults = TRUE
    MaxId = 2
SPECIFICATION Spec
INVARIANT DisconnectAfterResponses
PROPERTY AppFinishes
CHECK_DEADLOCK FALSE
