\* The post state as written: the op is posted and write_queue_ is not polled.
CONSTANTS
    w1 = w1  w2 = w2  w3 = w3  w4 = w4
    Ops <- MC_Ops3
    PollAfterPost = FALSE
    Reconnect = FALSE
SPECIFICATION Spec
PROPERTY WriteCompletes
CHECK_DEADLOCK FALSE
