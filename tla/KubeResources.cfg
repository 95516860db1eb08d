CONSTANTS
    dep = dep
    sts = sts
    ing = ing
    Keys <- MCKeys
    Ingresses <- MCIngresses
    Workloads <- MCWorkloads
    Pods <- MCPods
    Manifests <- MCManifests
    Nothing = Nothing
    Loading = Loading
    Failed = Failed
    MaxVersion = 3
    MaxGets = 2
    MaxChanges = 2
    MaxKubeFaults = 1
SPECIFICATION KubeFairSpec
INVARIANT NothingLeftOpen
INVARIANT WatchedIsCurrent
INVARIANT StatusIsGrounded
INVARIANT ReadyMeansReady
PROPERTY EventuallyCurrent
PROPERTY RowsAsPromised
