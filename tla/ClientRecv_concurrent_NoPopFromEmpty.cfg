\* Two async_recv calls pending at once.
CONSTANTS
    r1 = r1  r2 = r2  r3 = r3
    pub1 = pub1  pub2 = pub2  disc = disc
    Ops <- MC_Ops
    Arrivals <- MC_Arrivals
    MaxOutstanding = 2
SPECIFICATION Spec
INVARIANT NoPopFromEmpty
CHECK_DEADLOCK FALSE
