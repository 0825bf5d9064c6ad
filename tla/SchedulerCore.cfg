SPECIFICATION Spec
CONSTANTS
    c1 = c1
    c2 = c2
    win = win
    ServiceTag = service
    NoMachine = none
    Machines = {c1, c2}
    Names = {c1, c2, none}
    Tags = {win, service}
    Label <- NameIsLabel
    MachineTags <- PlainTags
    Requests <- MixedRequests
    MaxTasks = 2
    MaxSubmitted = 2
    MaxVmStartup = 0
    MaxMachines = 0
    MaxCount = 0
    ProcessResults = TRUE
    Reschedule = TRUE
    NoAgent = {}
    Faults = {"freespace", "vm_start", "guest", "guest_error", "prepare", "process"}
    Calls = {"reschedule"}
    MaxCrashes = 0
INVARIANTS
    LockNotLeaked
PROPERTIES
    ReportedStays
    RunOnce
CHECK_DEADLOCK FALSE
