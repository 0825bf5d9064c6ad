SPECIFICATION Spec
CONSTANTS
    Platforms = {"windows", "linux", "android", "darwin"}
    Pids = {p1, p2}
    FirstPid = p1
    Paths = {fa, fb}
    Contents = {x}
    NoFile = nofile
    NoLock = nolock
    Tasks <- ListsAndFiles
INVARIANTS
    Followed
    FilesSaved
PROPERTIES
    Reports
CHECK_DEADLOCK FALSE
