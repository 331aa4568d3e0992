CONSTANTS
    AfterStart = 2
    BeforeStop = 2
SPECIFICATION FairSpec
INVARIANTS
    JournalClosedLast
PROPERTIES
    StopCloses
    StartEnds
CHECK_DEADLOCK FALSE
