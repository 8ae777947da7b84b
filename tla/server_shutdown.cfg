CONSTANTS
    Clients = {c1}
    Handlers = {h1}
    WinFsp = FALSE
    Letters = {1}
    Nobody = Nobody
    Foreign = Foreign
    Remembered = {}
    Detachable = {}
    DisconnectTimeout = 1
SPECIFICATION Spec
INVARIANT ShutdownReleasesDrives
CHECK_DEADLOCK FALSE
