\* Any two tasks, any call, allocations may fail.
SPECIFICATION Spec
CONSTANTS
    Task = {t1, t2}
    NoTask = NoTask
    Channel = {c0}
    INVALID = c7
    Handle = {h1, h2}
    NoHandle = NoHandle
    MaxSample = 1
    HeapMayFail = TRUE
    Request <- MCRequest
INVARIANTS
    TypeOK
    MutexDiscipline
    OneShotHasUnit
    PhaseInvariant
    ConverterExclusive
    ReservationBacked
PROPERTY UnitLostOnlyByInit
CHECK_DEADLOCK FALSE
SYMMETRY MCSymmetry
