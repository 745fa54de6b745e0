CONSTANTS
    r1 = r1
    r2 = r2
    Reader = Reader
    Request <- OneRequest
    SockCap = 2
SPECIFICATION Spec
INVARIANTS
    SeqUnique
    AuditOrder
    TraceComplete
    LateAudits
\* Requests are bounded: when all have returned nothing is left to do.
CHECK_DEADLOCK FALSE
