\* Three threads; the capacity is lowered under a full queue and raised again.
\* No symmetry: liveness.
CONSTANTS
    t1 = t1
    t2 = t2
    t3 = t3
    Threads <- ThreeThreads
    Capacity = 2
    NewCapacities = {0, 1, 2}
    WriteBlock = TRUE
    MaxItems = 3
SPECIFICATION FairSpec
INVARIANTS TypeOK ConsumersWoken ProducersWoken
PROPERTIES CallsTakeEffectOnce SleepersServed
\* the items are bounded: the threads end asleep
CHECK_DEADLOCK FALSE
