\* A client connects and sends its request.
CONSTANTS
    Client = {c1}
    None = None
    Interrupts = FALSE
SPECIFICATION FairSpec
PROPERTY Heard
CHECK_DEADLOCK FALSE
