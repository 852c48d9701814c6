\* Every operation, insertions and modifications that may fail, resets.
CONSTANTS
    e1 = e1
    e2 = e2
    Entries <- TwoEntries
    NbMbrs = 2
    NbGrps = 1
    MaxCount = 4
SYMMETRY Symmetry
SPECIFICATION Spec
INVARIANTS TypeOK CountsCoverReferences ReferencesExist
\* the counts are bounded: leaked references may fill them
CHECK_DEADLOCK FALSE
