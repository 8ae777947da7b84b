CONSTANTS
    Clients = {c1}
    Handlers = {h1, h2}
    WinFsp = FALSE
    Letters = {1}
    Nobody = Nobody
    Foreign = Foreign
    Remembered = {}
    Detachable = {}
    DisconnectTimeout = 1
SPECIFICATION Spec
PROPERTY SessionLastsWhileConnected
CHECK_DEADLOCK FALSE
