\* Two threads in process_full_buffer and a timeout.
CONSTANTS
    s1 = s1
    s2 = s2
    t1 = t1
    t2 = t2
    Samples = {s1, s2}
    Threads = {t1, t2}
    MaxSamples = {1}
    MaxBufferId = 2
    Timeouts = {}
    MaxResets = 0
SPECIFICATION FairSpec
PROPERTY SwapWaitersServed
\* the destructor ends the list
CHECK_DEADLOCK FALSE
