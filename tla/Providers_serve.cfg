CONSTANTS
    WifiCallers = {w1, w2}
    Ssids = {n1, n2}
    Creds = {p1, p2}
    NetIds = {0, 1, 2}
    MaxRows = 2
    NoNet = None
    MaxWifiCalls = 3
    MaxLost = 1
    MaxReloads = 1
    Writers = {w1, w2}
    Kinds = {"backlight", "radio", "xinput"}
    Slots = {p1, p2}
    Names = {n1, n2}
    Levels = {"on", "off"}
    Maxima = {7, 127, 255}
    NoDev = None
    MaxWrites = 3
    MaxEvents = 2
    Paths <- MCPaths
    MaxAge = 2
    Ahead = 1
    NoDoc = None
    BadDoc = Bad
    MaxTime = 4
    MaxSteps = 3
    MaxReads = 1
    FileOrder <- MCFileOrder
    Cold = {"calibration"}
    Optional = {"rotation"}
    Values = {n1, n2}
    NoValue = None
    MaxSets = 2
    MaxOutput = 2
    MaxProbes = 2
    MaxPowerCalls = 2
    MaxFaults = 2
    MaxMoves = 2
SPECIFICATION ProvidersSpec
SYMMETRY MCSymmetry
INVARIANTS
    ProvidersTypeOK
    PartialCreationRemoved
    AcknowledgedValueStands
    PercentKept
    SteadySessionServed
    SavedReachesOutput
    PowerReportedTruly
    PulseRestores
PROPERTIES
    ConnectReachesItsNetwork
    RemovalSparesOthers
    SuccessMeansApplied
CHECK_DEADLOCK FALSE
