SPECIFICATION FairSpec
CONSTANTS
    n1 = n1
    NoNode = none
    Nodes = {n1}
    MaxTasks = 2
    Threshold = 1
    MaxFaults = 1
    MaxDeletes = 2
INVARIANTS
    OwnReport
    InHand
PROPERTIES
    FinishedStays
    Delivered
