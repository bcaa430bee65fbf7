\* A descriptor reused while a worker closes it (README.md:351).
CONSTANTS
    w1 = w1  w2 = w2  Main = Main  NoFD = NoFD
    FDs <- TwoFDs
    Workers <- TwoWorkers
    MAX_FD = 2
    Kinds <- WholeKinds
    Stops = FALSE
    AnswerSize = 1
    MaxConns = 3
    MaxSends = 3
SPECIFICATION Spec
INVARIANTS OneHolder
CHECK_DEADLOCK FALSE
