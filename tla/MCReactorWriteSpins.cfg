\* write() in an endless loop (http_connection.cpp:383-387).
CONSTANTS
    w1 = w1  w2 = w2  Main = Main  NoFD = NoFD
    FDs <- OneFD
    Workers <- OneWorker
    MAX_FD = 1
    Kinds <- AllKinds
    Stops = FALSE
    AnswerSize = 3
    MaxConns = 1
    MaxSends = 1
SPECIFICATION FairSpec
PROPERTIES WriteReturns
CHECK_DEADLOCK FALSE
