\* Only async_acquire_unique_packet_id_wait_until callers, no cancellation.
CONSTANTS
    a1 = a1  a2 = a2  a3 = a3
    Ops <- MC_Ops
    MaxId = 1
    SyncAcquire = FALSE
    UserCancel = FALSE
    Destroyable = FALSE
SPECIFICATION Spec
INVARIANT TypeOK
INVARIANT IdsExclusive
INVARIANT FifoService
PROPERTY WaiterNotStranded
CHECK_DEADLOCK FALSE
