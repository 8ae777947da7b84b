CONSTANTS
    Clients = {c1, c2}
    Nobody = Nobody
    MaxQueue = 2
    TickModulus = 2
    StartTimeout = 1
    WinFsp = FALSE
    Letters = {1}
SPECIFICATION FairSpec
INVARIANTS TypeOK OpensOwnDrive NothingLeft
PROPERTIES OpensShownDevice WaitsForTimeout GivesUpForCause UiThreadReturns
CHECK_DEADLOCK FALSE
