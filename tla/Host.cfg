SPECIFICATION Spec
CONSTANTS
    g1 = g1
    g2 = g2
    Backends <- AllBackends
    VmState = 1
    MaxAnalyses = 2
    Guests = {g1, g2}
    Main = main
    Nobody = nobody
    MaxRuns = 1
    MaxMishaps = 1
    Agents = {"new", "old", "other"}
    Categories = {"file", "url", "baseline", "noagent"}
INVARIANTS
    StartsClean
    StoppedIsOff
    NothingForwarded
    SuccessMeansEnded
PROPERTIES
    CallsEnd
CHECK_DEADLOCK FALSE
