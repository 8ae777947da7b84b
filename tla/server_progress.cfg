CONSTANTS
    Clients = {c1}
    Handlers = {h1}
    WinFsp = FALSE
    Letters = {1, 2}
    Nobody = Nobody
    Foreign = Foreign
    Remembered = {}
    Detachable = {1}
    DisconnectTimeout = 1
SPECIFICATION FairSpec
PROPERTIES StopTerminates MountReturns DeadSessionEnds RevokedDriveIsReleased AbandonedDriveIsReleased
CHECK_DEADLOCK FALSE
