\* Five calls made at any moment.
SPECIFICATION FairSpec
CONSTANTS
    Calls = {c1, c2, c3, c4, c5}
    None = None
INVARIANTS
    EntryExact
    NobodyForgotten
PROPERTIES
    ImplementsQueue
    EveryCallEnds
CHECK_DEADLOCK FALSE
