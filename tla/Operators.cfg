CONSTANTS
    db = db
    mq = mq
    x = x
    y = y
    None = None
    Ops <- MCOps
    GlobalOps = {mq}
    Instances <- MCInstances
    OwnerOf <- MCOwnerOf
    MaxVersion = 2
    MaxVisits = 3
    MaxRequests = 1
    MaxFaults = 1
SYMMETRY MCSymmetry
SPECIFICATION Spec
INVARIANT ActsOnItsPage
 
INVARIANT GroupPerNamespace
CHECK_DEADLOCK FALSE
