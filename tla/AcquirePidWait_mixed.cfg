\* Waiters, synchronous acquirers and cancellations all interleaved.
CONSTANTS
    a1 = a1  a2 = a2  a3 = a3
    Ops <- MC_Ops
    MaxId = 2
    SyncAcquire = TRUE
    UserCancel = TRUE
    Destroyable = TRUE
SPECIFICATION Spec
INVARIANT TypeOK
INVARIANT IdsExclusive
CHECK_DEADLOCK FALSE
