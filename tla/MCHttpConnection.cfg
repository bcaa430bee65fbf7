\* Two requests on a connection, cut anywhere.
CONSTANTS
    None = None
    Requests <- AllRequests
    READ_BUFFER_SIZE = 13
    AnswerSize = 3
    MaxRequests = 2
SPECIFICATION FairSpec
INVARIANTS Inductive RefusedTooLong
PROPERTIES ImplementsExchange Answered
CHECK_DEADLOCK FALSE
