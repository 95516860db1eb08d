CONSTANTS
    c1 = c1
    c2 = c2
    c3 = c3
    r1 = r1
    r2 = r2
    ns1 = ns1
    None = None
    Charts <- MCCharts
    RepoOf <- MCRepoOf
    Found <- MCFound
    Namespaces <- MCNamespaces
    Searches = {"", "term"}
    RepoFilters <- MCRepoFilters
    MaxPage = 4
    MaxRequests = 3
    MaxMoves = 3
    MaxFaults = 1
SPECIFICATION FairSpec
INVARIANT ShownMatchesQuery
PROPERTY EverythingIsShown
CHECK_DEADLOCK FALSE
