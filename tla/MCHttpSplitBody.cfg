\* A body that arrives in two parts (http_connection.cpp:299).
CONSTANTS
    None = None
    Requests <- OnlyPost
    READ_BUFFER_SIZE = 20
    AnswerSize = 3
    MaxRequests = 1
SPECIFICATION Spec
INVARIANTS WholeRequestServed
CHECK_DEADLOCK FALSE
