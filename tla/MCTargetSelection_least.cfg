\* A rule that asks for least_connections.
CONSTANTS
    l1 = l1
    l2 = l2
    n1 = n1
    n2 = n2
    None = None
    Listener <- MCListener
    NameOf <- MCName
    Size <- MCSize
    MaxPick = 4
SPECIFICATION Spec
PROPERTY LeastLoaded
CHECK_DEADLOCK FALSE
