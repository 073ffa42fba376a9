\* The example against a broker that answers the QoS 2 publish with an
\* error PUBREC; the connection stays up.
CONSTANTS
    BrokerRejects <- MC_RejectsQos2
    Faults = FALSE
    MaxId = 2
SPECIFICATION Spec
PROPERTY AppFinishes
CHECK_DEADLOCK FALSE
