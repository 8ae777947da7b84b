CONSTANTS
    Clients = {c1, c2}
    Handlers = {h1, h2}
    WinFsp = TRUE
    Letters = {1}
    Nobody = Nobody
    Foreign = Foreign
    Remembered = {1}
    Detachable = {1}
    DisconnectTimeout = 1
SPECIFICATION Spec
SYMMETRY ThreadSymmetry
INVARIANT OneHolder
PROPERTY LeaseSpec
CHECK_DEADLOCK FALSE
