INIT ResultStoreInit
NEXT ResultStoreNext
CONSTANTS
    w1 = w1
    w2 = w2
    Workers = {w1}
    Contents = {"a", "b"}
    Folders <- SomeFolders
    Labels = {"m1", "m2"}
    Paginate = 2
    PageIds = 2
    MaxRows = 2
    MaxRequests = 3
    MaxReports = 2
PROPERTIES SampleUnused
CHECK_DEADLOCK FALSE
