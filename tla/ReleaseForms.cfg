CONSTANTS
    a1 = a1
    a2 = a2
    b1 = b1
    Versions = {a1, a2, b1}
    Chart <- MCChart
    Number <- MCNumber
    NoValues = {b1}
    Null = Null
    MaxVisits = 2
    MaxFormRequests = 2
    MaxFormFaults = 1
SPECIFICATION FormsSpec
INVARIANT DeploysOwnChart
INVARIANT ValuesFollowVersion
INVARIANT ModificationsSurvive
PROPERTY TypingSurvives
CHECK_DEADLOCK FALSE
