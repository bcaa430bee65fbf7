\* Two workers, all commands.
CONSTANTS
    w1 = w1  w2 = w2  k1 = k1  k2 = k2  v1 = v1  v2 = v2
    NULL = NULL  Freed = Freed
    Workers <- TwoWorkers
    Keys <- TwoKeys
    Values <- TwoValues
    Requests <- AllCommands
    ArrayMax = 1
SPECIFICATION Spec
SYMMETRY WorkerSymmetry
INVARIANTS Inductive CountsCurrent
PROPERTIES ImplementsKvService
