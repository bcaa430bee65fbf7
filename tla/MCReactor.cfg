\* One descriptor reused by three connections, two workers.
CONSTANTS
    w1 = w1  w2 = w2  Main = Main  NoFD = NoFD
    FDs <- OneFD
    Workers <- TwoWorkers
    MAX_FD = 1
    Kinds <- AllKinds
    Stops = FALSE
    AnswerSize = 3
    MaxConns = 3
    MaxSends = 2
SPECIFICATION Spec
SYMMETRY WorkerSymmetry
INVARIANTS Inductive OneOwner RightClient NoLeak TimerPointerLive OwnTimer CountExact
CHECK_DEADLOCK FALSE
