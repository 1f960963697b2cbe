\* Two ADs, two moves, one restart, failure or other registration.
SPECIFICATION FairSpec
CONSTANTS
    ADs = {A, B}
    NULL = NULL
    HomeAD = A
    Self = Self
    Stranger = Stranger
    Host = Host
    Service = Service
    beacon_response_freq = 3
    XHCP_CLIENT_NAME_REGISTER_WAIT = 5
    MaxBeacons = 1
    MaxMoves = 2
    MaxEvents = 1
CHECK_DEADLOCK FALSE
INVARIANTS
    TypeOK
    ClickFollowsBeacon
    SettledIsRegistered
PROPERTIES
    HostNameKeepsHID
    RegistrationFollowsHost
    HostRouteReturns
    DepartedIsPurged
