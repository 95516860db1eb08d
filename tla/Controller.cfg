CONSTANTS
    Keys = {own, other}
    KubeappsKeys = {own}
    Urls = {u1, u2}
    Installed = {own}
    InstalledUrl = u1
    Workers = {w1, w2}
    Nil = Nil
    Cleanup = Cleanup
    MaxEdits = 3
    MaxFaults = 1
SPECIFICATION FairSpec
INVARIANT TypeOK
INVARIANT OneWorkerPerKey
INVARIANT NoLostUpdate
PROPERTY NoRollback
PROPERTY EventuallyCleanedUp
PROPERTY EventuallyScheduled
CHECK_DEADLOCK FALSE
