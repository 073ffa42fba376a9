\* One async_recv pending at a time, as the examples use the client.
CONSTANTS
    r1 = r1  r2 = r2  r3 = r3
    pub1 = pub1  pub2 = pub2  disc = disc
    Ops <- MC_Ops
    Arrivals <- MC_Arrivals
    MaxOutstanding = 1
SPECIFICATION Spec
INVARIANT TypeOK
INVARIANT FifoDelivery
INVARIANT NoPopFromEmpty
PROPERTY PendingRecvGetsEntry
CHECK_DEADLOCK FALSE
