\* Three slots; two versions, so that a handle is soon given out again.
CONSTANTS
    Size = 3
    VersionMod = 2
    Keys = {"a", "ab"}
    Packets = {1, 2}
    Matches <- MCMatches
    Prios = {1, 3}
    MaxPrio = 3
    Timeouts = {0, 5}
SPECIFICATION Spec
INVARIANTS TypeOK StaleHandlesRejected LookupFromHead
PROPERTY HandlesNameEntries
