CONSTANTS
    u1 = u1
    u2 = u2
    main = main
    second = second
    m1 = m1
    m2 = m2
    s1 = s1
    other = other
    o1 = o1
    Users = {u1, u2}
    TokenSpace <- MCTokenSpace
    Creators = {u1}
    Strangers = {other}
    Clusters = {main, second}
    First = main
    Default = main
    Names <- MCNames
    None = None
    MaxRequests = 2
    MaxLoads = 1
    MaxMoves = 2
    MaxFaults = 1
SPECIFICATION FairSpec
INVARIANT ContextFollowsURL
INVARIANT NoCrash
INVARIANT ListsAreOwn
PROPERTY LoginSettles
CHECK_DEADLOCK FALSE
