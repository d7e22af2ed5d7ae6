\* Ctrl+C at any moment of the accept loop.
CONSTANTS
    Client = {c1, c2, c3}
    None = None
    Interrupts = TRUE
SPECIFICATION Spec
INVARIANTS TypeOK EntriesAreOpen ClosedOnce
CHECK_DEADLOCK FALSE
