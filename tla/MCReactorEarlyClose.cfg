\* The timer of an earlier connection closes an active one (lst_timer.h:20-25).
CONSTANTS
    w1 = w1  w2 = w2  Main = Main  NoFD = NoFD
    FDs <- TwoFDs
    Workers <- TwoWorkers
    MAX_FD = 2
    Kinds <- WholeKinds
    Stops = FALSE
    AnswerSize = 1
    MaxConns = 3
    MaxSends = 3
SPECIFICATION Spec
PROPERTIES TickClosesIdle
CHECK_DEADLOCK FALSE
