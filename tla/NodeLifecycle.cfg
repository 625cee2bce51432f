SPECIFICATION FairSpec
CONSTANTS
    s1 = s1
    s2 = s2
    q1 = q1
    q2 = q2
    a1 = a1
    a2 = a2
    Main = Main
    None = None
    Service <- MCService
    Request <- MCRequest
    Address <- MCAddress
    ConfWS <- MCConfWS
    MaxRegister = 2
INVARIANTS
    TypeOK
    AllOrNothing
    ServedByRunning
    NoEndpointLost
    StopSucceeds
    InfoAgrees
PROPERTIES
    QuitEnds
    RequestsReturn
CHECK_DEADLOCK FALSE
