\* Two posters with three calls each on a queue of two events.
SPECIFICATION FairUiSpec
CONSTANTS
    Poster = {p1, p2}
    QueueSize = 2
    MaxPosts = 3
INVARIANTS
    UiTypeOK
    HandledInOrder
PROPERTY EventsHandled
CHECK_DEADLOCK FALSE
