\* A FIFO of two bytes, a ring buffer of three and an event queue of one.
SPECIFICATION FairShellSpec
CONSTANTS
    FifoLen = 2
    RingLen = 3
    QueueLen = 1
INVARIANTS
    ShellTypeOK
    BytesInOrder
    LossNeedsOverrun
PROPERTIES
    NoByteStays
    ReceptionResumes
