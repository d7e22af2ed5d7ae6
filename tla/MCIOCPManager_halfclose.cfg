\* A peer closes its sending side and goes on reading.
CONSTANTS
    Conn = {c1}
    Handle = {h1, h2}
    Worker = {w1}
    Acceptor = {a1}
    None = None
    MaxChunk = 1
    Recycle = FALSE
    Interrupts = FALSE
SPECIFICATION Spec
INVARIANTS HalfCloseDelivers
CHECK_DEADLOCK FALSE
