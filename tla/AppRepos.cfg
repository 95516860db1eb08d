CONSTANTS
    Global = Global
    Team = Team
    All = All
    good = good
    bad = bad
    user = user
    word = word
    teamPull = teamPull
    globalPull = globalPull
    Urls = {good, bad}
    GoodUrls = {good}
    Words = {user, word, Empty, Undefined}
    Empty = Empty
    Undefined = Undefined
    Typed <- MCTyped
    Own = Own
    Pulls <- MCPulls
    NewPull = NewPull
    FirstSpec <- MCFirstSpec
    None = None
    MaxRequests = 2
    MaxActions = 3
    MaxEdits = 2
    MaxFaults = 1
SPECIFICATION Spec
CHECK_DEADLOCK FALSE
INVARIANT ListMatchesServer
INVARIANT SubmittedIsSound
PROPERTY CredentialsKept
