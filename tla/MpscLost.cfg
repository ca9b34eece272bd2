SPECIFICATION MpscSpec
CONSTANTS
    Enqueuers = {p1, p2, p3}
    MaxNodes = 4
INVARIANT NextDequeueFixesUp
CHECK_DEADLOCK FALSE
