CONSTANTS
    a = a
    b = b
    Charts <- MCCharts
    Indexes <- MCFewIndexes
    Rules <- MCRules
    Versions = {1, 2}
    Icon = Icon
    Nil = Nil
    Jobs = {j1, j2}
    MaxPublish = 1
    MaxEdits = 0
    MaxFaults = 0
SPECIFICATION Spec
CHECK_DEADLOCK FALSE
SYMMETRY JobSymmetry
INVARIANT AlreadyProcessed
