SPECIFICATION Spec
CONSTANTS
    c1 = c1
    c2 = c2
    win = win
    ServiceTag = service
    NoMachine = none
    Machines = {c1, c2}
    Names = {c1, c2, none}
    Tags = {win, service}
    Label <- NameIsLabel
    MachineTags <- NoTags
    Requests <- TwoKinds
    MaxTasks = 2
    MaxSubmitted = 2
    MaxVmStartup = 2
    MaxMachines = 2
    MaxCount = 2
    ProcessResults = FALSE
    Reschedule = TRUE
    NoAgent = {c2}
    Faults = {"options", "route", "guest", "vm_stop"}
    Calls = {"delete"}
    MaxCrashes = 0
INVARIANTS
    IInv
    MutualExclusion
    ResultsRouted
    LockAccounting
CHECK_DEADLOCK FALSE
