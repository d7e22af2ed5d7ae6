\* Twelve requests, each cut in every way; two of them do not fit in the buffer.
CONSTANTS
    Requests <- MCRequests
    BufferSize = 14
SPECIFICATION Spec
INVARIANTS TypeOK TunnelOpens WholeIsForwarded RawDataBounded
PROPERTIES ParseEnds
CHECK_DEADLOCK FALSE
