\* Four timers; the clock advances, and may be set back.
CONSTANTS
    t1 = t1  t2 = t2  t3 = t3  t4 = t4  NULL = NULL
    Timers <- FourTimers
    Timeout = 2
    Steps <- BackAndForth
    MaxTime = 5
SPECIFICATION Spec
SYMMETRY TimerSymmetry
INVARIANTS Inductive WellLinked Sorted
PROPERTY ImplementsTimerSet
CHECK_DEADLOCK FALSE
