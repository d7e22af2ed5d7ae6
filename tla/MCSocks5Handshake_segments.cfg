\* Every way to cut the stream of every client.
CONSTANTS
    Clients <- MCClients
    BufferSize = 20
SPECIFICATION Spec
INVARIANTS TypeOK InStep AnsweredRight AnsweredInTime
CHECK_DEADLOCK FALSE
