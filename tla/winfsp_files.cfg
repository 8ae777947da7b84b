CONSTANTS
    Handles = {h1, h2}
    Paths = {p, q}
    Contents = {Empty, x}
    Empty = Empty
    Absent = Absent
    Folder = Folder
    NoPath = NoPath
    OpenFlags <- MCOpenFlags
SPECIFICATION FairSpec
INVARIANTS TypeOK NoSilentLoss
PROPERTIES UploadsOnlyChanges WriteBackSpec CallsReturn
CHECK_DEADLOCK FALSE
