CONSTANTS
    x = x
    y = y
    Deliberations = {x, y}
    Kinds = {"proposal", "outcome"}
    Times = {1, 2}
    BatchSizes = {1, 2}
    MaxEntries = 3
    MaxLines = 2
    Empty = Empty
    Garbage = Garbage
SYMMETRY Symmetry
SPECIFICATION Spec
INVARIANTS
    LossIsLoud
    BatchIsPrefix
    RestartChangesNoAnswer
PROPERTIES
    ImplementsJournalStore
CHECK_DEADLOCK FALSE
