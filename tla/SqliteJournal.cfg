CONSTANTS
    x = x
    y = y
    Deliberations = {x, y}
    Kinds = {"proposal", "outcome"}
    Times = {1, 2}
    BatchSizes = {1, 2}
    MaxEntries = 3
SYMMETRY Symmetry
SPECIFICATION Spec
INVARIANTS
    BatchIsWhole
PROPERTIES
    ImplementsJournalStore
