CONSTANTS
    a = a
    b = b
    Charts <- MCCharts
    Indexes <- MCIndexes
    Rules <- MCRules
    Versions = {1, 2}
    Icon = Icon
    Nil = Nil
    Jobs = {j1}
    MaxPublish = 2
    MaxEdits = 1
    MaxFaults = 1
SPECIFICATION FairSpec
INVARIANT TypeOK
INVARIANT SkipSound
INVARIANT AssetsComplete
INVARIANT NoOrphans
PROPERTY NoFlicker
PROPERTY EventuallyInSync
CHECK_DEADLOCK FALSE
