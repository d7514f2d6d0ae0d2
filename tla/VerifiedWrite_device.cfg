CONSTANTS
    Writers = {w1}
    Kinds = {"xinput"}
    Slots = {p1}
    Names = {n1, n2}
    Levels = {"on", "off"}
    Maxima = {127}
    NoDev = None
    MaxWrites = 1
    MaxEvents = 2
SPECIFICATION WriteSpec
PROPERTY WriteHitsNamedDevice
CHECK_DEADLOCK FALSE
