CONSTANTS
    Handlers = {h1, h2, h3}
    Handles = {s1, s2, s3}
    Responder = Responder
    Nobody = Nobody
    NoHandle = NoHandle
SPECIFICATION FairSpec
INVARIANTS TypeOK ClosesOwnSocket ActiveIsServed DisturbsOnlyAtStop
PROPERTIES StopMissesOnlyReused DiscoveryStops
CHECK_DEADLOCK FALSE
