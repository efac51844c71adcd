SPECIFICATION FairSpec
CONSTANTS
    Keys = {"SET", "OPEN"}
    Checks = {"POWERDOWN", "EMERGENCY"}
    Inputs = {"SMOKE", "FIRE"}
    SmokeInputs = {"SMOKE"}
    Relays = {"r1"}
    FIRE_MACHINE = FALSE
    LockTime = 1
    PollTime = 0
    ReportTime = 1
    SaveTime = 0
    TimeMax = 3
    DoorValues = {0, 1, 256}
    Garbage = {0, 4}
    Events = {"OPEN", "EMERGENCY", "door", "stop", "pubfail", "shell", "reset"}
INVARIANTS SirenMatchesOpener DoorPinMatches ServerInformed
PROPERTIES EmergencyOpensDoor Relocks
