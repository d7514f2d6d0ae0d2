CONSTANTS
    Volumes = {1, 2}
    MaxVolumes = 1
    DefaultAuto = TRUE
    Configs = {"missing", "invalid", "false"}
    None = None
    MaxChanges = 4
    MaxCalls = 2
    MaxRestarts = 1
SPECIFICATION Spec
INVARIANTS TypeOK SubscribersInStep ManualUnmountRespected NoMediumMissed
CHECK_DEADLOCK FALSE
