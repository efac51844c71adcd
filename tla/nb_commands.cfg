SPECIFICATION FairSpec
CONSTANTS
    Ids = {"b1", "b2"}
    Thresholds = {10, 20}
    Delivered <- MCDelivered
    Detectors = 2
    DoorValues = {1, 256}
    SavePasses = 3
    Kinds = {"ALL_SMOKE", "SET_SMOKE", "SETTING", "DOOR", "GET_SMOKE", "UPDATE", "RESET", "STATUS", "STOP", "RUN", "unknown"}
    Faults = {"refuse", "drop"}
    MaxSent = 2
    MaxDrops = 1
    MaxReboots = 1
INVARIANTS SettingKept RunStopKnown
PROPERTIES Answered Connects CallbackAsAssumed
