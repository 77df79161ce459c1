\* The interrupt against a release.
SPECIFICATION ClientSpec
CONSTANTS
    t1 = t1
    t2 = t2
    c1 = c1
    Task = {t1, t2}
    NoTask = NoTask
    Channel = {c1, c2}
    INVALID = c7
    Handle = {h1, h2}
    NoHandle = NoHandle
    MaxSample = 1
    HeapMayFail = FALSE
    Request <- MCRequest
    Owner <- MCOwner
    ClientArgs = {"ok"}
INVARIANT NoNullCallback
