\* Three workers and up to four posts of two distinct tasks.
CONSTANTS
    w1 = w1  w2 = w2  w3 = w3  t1 = t1  t2 = t2
    Workers <- ThreeWorkers
    Tasks <- TwoTasks
    MaxPosts = 4
    NoTask = NoTask
SPECIFICATION FairSpec
INVARIANTS FifoNoLoss NoLostWakeup DestroyedMeansDone Inductive
PROPERTIES ImplementsTaskQueue EveryTaskDispatched DestructorReturns
CHECK_DEADLOCK FALSE
