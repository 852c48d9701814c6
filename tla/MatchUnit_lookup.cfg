\* Two entries, the first of them deleted.
CONSTANTS
    Size = 2
    VersionMod = 2
    Keys = {"a", "ab"}
    Packets = {1, 2}
    Matches <- MCMatches
    Prios = {1}
    MaxPrio = 3
    Timeouts = {0}
SPECIFICATION Spec
INVARIANT LookupReturnsMatch
