\* The status a poster gets.
SPECIFICATION UiSpec
CONSTANTS
    Poster = {p1}
    QueueSize = 2
    MaxPosts = 3
INVARIANT StatusTruthful
CHECK_DEADLOCK FALSE
