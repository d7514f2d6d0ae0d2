CONSTANTS
    Volumes = {1}
    MaxVolumes = 1
    DefaultAuto = TRUE
    Configs = {"missing"}
    None = None
    MaxChanges = 1
    MaxCalls = 1
    MaxRestarts = 1
SPECIFICATION Spec
INVARIANT ManualUnmountLasts
CHECK_DEADLOCK FALSE
