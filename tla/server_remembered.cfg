CONSTANTS
    Clients = {c1}
    Handlers = {h1}
    WinFsp = FALSE
    Letters = {1, 2}
    Nobody = Nobody
    Foreign = Foreign
    Remembered = {2}
    Detachable = {}
    DisconnectTimeout = 1
SPECIFICATION FairSpec
PROPERTY MountReturns
CHECK_DEADLOCK FALSE
