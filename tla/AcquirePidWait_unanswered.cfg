\* Waiters race with synchronous acquirers, and the application cancels
\* pending waits.
CONSTANTS
    a1 = a1  a2 = a2  a3 = a3
    Ops <- MC_Ops
    MaxId = 1
    SyncAcquire = TRUE
    UserCancel = TRUE
    Destroyable = FALSE
SPECIFICATION Spec
PROPERTY WaitersAnswered
CHECK_DEADLOCK FALSE
