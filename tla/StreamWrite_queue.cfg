\* Three writers, bulk write toggled at will; the transport may fail, close
\* and be re-opened. write_queue_ is polled after every post.
CONSTANTS
    w1 = w1  w2 = w2  w3 = w3  w4 = w4
    Ops <- MC_Ops3
    PollAfterPost = TRUE
    Reconnect = TRUE
SPECIFICATION Spec
INVARIANT TypeOK
INVARIANT SingleWriter
CHECK_DEADLOCK FALSE
