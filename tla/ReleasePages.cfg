CONSTANTS
    r1 = r1
    r2 = r2
    ns1 = ns1
    ns2 = ns2
    Releases <- MCReleases
    Namespace <- MCNamespace
    Name <- MCName
    Revisions <- MCRevisions
    Namespaces = {ns1, ns2}
    All = All
    None = None
    MaxRevision = 3
    MaxVisits = 2
    MaxPending = 2
    MaxFaults = 1
SPECIFICATION Spec
INVARIANT PageShowsItsRelease
INVARIANT ListShowsItsScope
INVARIANT RollbackTargetExists
CHECK_DEADLOCK FALSE
