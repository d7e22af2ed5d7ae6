\* Two connections share the map, the port and the workers.
CONSTANTS
    Conn = {c1, c2}
    Handle = {h1, h2, h3, h4}
    Worker = {w1, w2}
    Acceptor = {a1}
    None = None
    MaxChunk = 1
    Recycle = FALSE
    Interrupts = FALSE
SPECIFICATION Spec
SYMMETRY Symmetry
INVARIANTS EntriesPaired OneOperation TeardownInv TornDownOnce
PROPERTIES ForwardsTransparently
CHECK_DEADLOCK FALSE
