\* Continuous sampling started twice with the same mask.
SPECIFICATION FairSpec
CONSTANTS
    Task = {t1}
    NoTask = NoTask
    Channel = {c0}
    INVALID = c7
    Handle = {h1, h2}
    NoHandle = NoHandle
    MaxSample = 1
    HeapMayFail = FALSE
    Request <- MCValidRequest
PROPERTY MutexReturned
CHECK_DEADLOCK FALSE
