\* reset_state at any time, in the middle of a transmission too; a timeout that
\* stays as it is.  No symmetry: liveness.
CONSTANTS
    s1 = s1
    t1 = t1
    Samples = {s1}
    Threads = {t1}
    MaxSamples = {1, 2}
    MaxBufferId = 2
    Timeouts = {}
    MaxResets = 1
SPECIFICATION FairSpec
PROPERTIES SwapWaitersServed SamplesSent TransmitThreadJoins
\* the destructor ends the list
CHECK_DEADLOCK FALSE
