CONSTANTS
    Clients = {c1, c2}
    Handlers = {h1}
    WinFsp = FALSE
    Letters = {1, 2}
    Nobody = Nobody
    Foreign = Foreign
    Remembered = {}
    Detachable = {}
    DisconnectTimeout = 1
SPECIFICATION Spec
SYMMETRY ClientSymmetry
INVARIANTS TypeOK NoLostDrive
PROPERTIES UnmountsOwnDrive SweptWasSilent LeaseSpec
CHECK_DEADLOCK FALSE
