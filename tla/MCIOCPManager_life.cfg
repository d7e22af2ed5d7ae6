\* One connection and two workers; Ctrl+C at any moment of the connection's life.
CONSTANTS
    Conn = {c1}
    Handle = {h1, h2}
    Worker = {w1, w2}
    Acceptor = {a1}
    None = None
    MaxChunk = 2
    Recycle = FALSE
    Interrupts = TRUE
SPECIFICATION FairSpec
INVARIANTS TypeOK EntriesPaired NoSocketLost OneOperation NoDirectionForgotten
PROPERTIES ForwardsTransparently EndedIsTornDown ShutdownReturns
CHECK_DEADLOCK FALSE
