\* Liveness, with SIGTERM at any time.
CONSTANTS
    w1 = w1  w2 = w2  Main = Main  NoFD = NoFD
    FDs <- OneFD
    Workers <- OneWorker
    MAX_FD = 1
    Kinds <- ServedOrBad
    Stops = TRUE
    AnswerSize = 3
    MaxConns = 2
    MaxSends = 2
SPECIFICATION FairSpec
INVARIANT EnginesOutliveCommands
PROPERTIES Released  Terminates
CHECK_DEADLOCK FALSE
