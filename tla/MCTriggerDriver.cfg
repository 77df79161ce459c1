\* The code's debounce factor; the counters saturate at 9 instead of 2^32 - 1.
SPECIFICATION FairTriggerSpec
CONSTANTS
    Debounce = 3
    Saturated = 9
INVARIANTS
    TriggerTypeOK
    CountersAgree
    UserKnowsState
PROPERTIES
    ImplementsDebouncer
    FollowsInput
