SPECIFICATION Spec
CONSTANTS
    c1 = c1
    c2 = c2
    win = win
    ServiceTag = service
    NoMachine = none
    Machines = {c1, c2}
    Names = {c1, c2, none}
    Tags = {win, service}
    Label <- NameIsLabel
    MachineTags <- NoTags
    Requests <- OneRequest
    MaxTasks = 1
    MaxSubmitted = 1
    MaxVmStartup = 0
    MaxMachines = 0
    MaxCount = 0
    ProcessResults = TRUE
    Reschedule = TRUE
    NoAgent = {}
    Faults = {}
    Calls = {"delete"}
    MaxCrashes = 0
INVARIANTS
    LockMeansStarting
CHECK_DEADLOCK FALSE
