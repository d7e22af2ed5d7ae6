\* A worker and a context that another worker has freed.
CONSTANTS
    Conn = {c1}
    Handle = {h1, h2}
    Worker = {w1, w2}
    Acceptor = {a1}
    None = None
    MaxChunk = 1
    Recycle = FALSE
    Interrupts = FALSE
SPECIFICATION Spec
INVARIANTS ContextAlive
CHECK_DEADLOCK FALSE
