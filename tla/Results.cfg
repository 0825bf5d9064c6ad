INIT Init
NEXT Next
CONSTANTS
    Threads = {"t1"}
    Members <- SomeMembers
    Ranks <- SomeOrders
    Classes <- SomeClasses
    Needs <- SomeNeeds
    Version = 20
    Platform = ""
    Procs <- SomeProcs
    MaxDepth = 5
    Outcomes = {"load", "ok", "empty", "notImplemented", "noFolder"}
    Packets <- SomePackets
    MaxPackets = 4
    ChunkSize = 2
    FlowRank <- SomeFlowRanks
    Ends <- SomeEnds
    Private = {"guest", "host"}
    HostIp = "host"
    Quiet = {"quiet"}
    SortPcap = {TRUE, FALSE}
    Files <- SomeFiles
    Messages <- SomeMessages
    MaxMessages = 5
    MaxViews = 2
    Samples <- SomeSamples
    Settings <- SomeSettings
    Fits <- SomeFits
    Packers = {{"UPX 1", "UPX 2"}, {"FSG"}}
    NewSamples <- SomeNew
    MaxMlRuns = 2
    Rams <- SomeRams
    Profiles <- SomeProfiles
    GuestProfile = ""
    On <- SomePlugins
    Filtering <- SomeFilters
    MaskPid = {4, 8, 12}
    DeleteDump = {TRUE, FALSE}
    Known <- AllPlugins
    MaxPasses = 2
    w1 = w1
    w2 = w2
    Workers = {w1, w2}
    Contents = {"a", "b"}
    Folders <- SomeFolders
    Labels = {"m1", "m2"}
    Paginate = 2
    PageIds = 2
    MaxRows = 2
    MaxRequests = 3
    MaxReports = 2
SYMMETRY Alike
INVARIANTS
    AllRun
    MatchesHeard
    CallsSeen
    StreamOfChunk
    CallsKept
    SummaryAgrees
    ResultsKept
    TaintedKept
    FilesKept
    PagesAgree
CHECK_DEADLOCK FALSE
