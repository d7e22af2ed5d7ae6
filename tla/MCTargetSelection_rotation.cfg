\* Two listeners with three and two targets, unique names.
CONSTANTS
    l1 = l1
    l2 = l2
    n1 = n1
    n2 = n2
    None = None
    Listener <- MCListener
    NameOf <- MCName
    Size <- MCSize
    MaxPick = 4
SPECIFICATION Spec
INVARIANTS TypeOK Rotation EvenlyDistributed OwnTarget RefusedForAnother
CHECK_DEADLOCK FALSE
