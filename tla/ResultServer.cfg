SPECIFICATION FairSpec
CONSTANTS
    ip1 = ip1
    upload1 = upload1
    NoIp = noip
    NoFile = nofile
    MaxTasks = 2
    MaxConns = 2
    Ips = {ip1}
    Files = {upload1}
    UploadMaxSize = 2
    DiskErrors = TRUE
CHECK_DEADLOCK FALSE
INVARIANTS
    IInv
    WaitedFor
    UploadsListed
PROPERTIES
    DelReturns
