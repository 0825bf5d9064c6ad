SPECIFICATION FairSpec
CONSTANTS
    c1 = c1
    c2 = c2
    win = win
    ServiceTag = service
    NoMachine = none
    Machines = {c1, c2}
    Names = {c1, c2, none}
    Tags = {win, service}
    Label <- NameIsLabel
    MachineTags <- PlainTags
    Requests <- TwoRequests
    MaxTasks = 2
    MaxSubmitted = 2
    MaxVmStartup = 0
    MaxMachines = 0
    MaxCount = 0
    ProcessResults = FALSE
    Reschedule = TRUE
    NoAgent = {}
    Faults = {"vm_start", "guest"}
    Calls = {}
    MaxCrashes = 0
PROPERTIES
    TasksFinish
