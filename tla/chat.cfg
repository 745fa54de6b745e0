CONSTANTS
    r1 = r1
    r2 = r2
    Request <- TwoRequests
    Lossy <- FirstOnly
    MaxEmit <- OneAndTwo
    MaxGot <- TwoEach
SPECIFICATION Spec
INVARIANTS
    TypeOK
    SseShape
    RowTellsClient
    OkIsComplete
    DrainKeeps
PROPERTIES
    OutcomeStays
\* Requests are bounded and the program ends.
CHECK_DEADLOCK FALSE
