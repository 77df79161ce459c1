\* Time-critical sampling on one task, its release on another.
SPECIFICATION Spec
CONSTANTS
    Task = {t1, t2}
    NoTask = NoTask
    Channel = {c0}
    INVALID = c7
    Handle = {h1, h2}
    NoHandle = NoHandle
    MaxSample = 1
    HeapMayFail = FALSE
    Request <- MCCriticalRequest
INVARIANT NoUseAfterFree
CHECK_DEADLOCK FALSE
