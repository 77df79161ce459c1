\* Two tasks that keep to the header's rules; no allocation fails.
SPECIFICATION FairClientSpec
CONSTANTS
    t1 = t1
    t2 = t2
    c1 = c1
    Task = {t1, t2}
    NoTask = NoTask
    Channel = {c1, c2}
    INVALID = c7
    Handle = {h1, h2}
    NoHandle = NoHandle
    MaxSample = 2
    HeapMayFail = FALSE
    Request <- MCRequest
    Owner <- MCOwner
    ClientArgs = {"ok", "null_result", "bad_atten", "null_callback", "bad_freq"}
INVARIANTS
    OnlyReleaseRace
    SessionExclusive
    AvailabilityTruthful
    SuccessMeansSampled
    OwnerCanRelease
PROPERTIES
    ImplementsLease
    HandoverThroughFree
    MutexReturned
    CallbackComes
