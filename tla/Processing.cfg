SPECIFICATION FairSpec
CONSTANTS
    i1 = i1
    i2 = i2
    NoInstance = none
    Instances = {i1, i2}
    MaxTasks = 3
    MaxDeaths = 1
    MaxOthers = 1
    MaxCount = 2
    QueueThreshold = 2
    Calls = {"delete", "reschedule", "import"}
CHECK_DEADLOCK FALSE
INVARIANTS
    SkipsPending
PROPERTIES
    NeverProcessedTwice Handled
