\* No reset_state; everything else, the timeout changed at will included.
CONSTANTS
    s1 = s1
    s2 = s2
    s3 = s3
    t1 = t1
    t2 = t2
    Samples = {s1, s2, s3}
    Threads = {t1, t2}
    MaxSamples = {1, 2}
    MaxBufferId = 2
    Timeouts = {TRUE, FALSE}
    MaxResets = 0
SPECIFICATION Spec
SYMMETRY Symmetry
INVARIANTS TypeOK NotificationMatchesBuffer NoBadIterator OutstandingOnce FilterIsUnacked
PROPERTY LearnsInOrder
\* the destructor ends the list
CHECK_DEADLOCK FALSE
