CONSTANTS
    Keys = {own}
    KubeappsKeys = {own}
    Urls = {u1, u2}
    Installed = {}
    InstalledUrl = u1
    Workers = {w1, w2}
    Nil = Nil
    Cleanup = Cleanup
    MaxEdits = 3
    MaxFaults = 0
SPECIFICATION FairSpec
PROPERTY EventuallyConverges
CHECK_DEADLOCK FALSE
