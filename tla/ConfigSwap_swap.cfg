\* Two CLIs, two swaps, two packets that are queued again and copied at will.
CONSTANTS
    A = A
    B = B
    shared = shared
    old = old
    new = new
    c1 = c1
    c2 = c2
    p1 = p1
    p2 = p2
    Configs = {A, B}
    Names = {shared, old, new}
    TablesOf <- MCTablesOf
    Clis = {c1, c2}
    Slots = {p1, p2}
    MaxObjects = 3
SPECIFICATION FairSpec
INVARIANTS TypeOK NoDanglingObjects LoaderInSync
PROPERTY SwapCommitted
\* a failed assertion stops the switch
CHECK_DEADLOCK FALSE
