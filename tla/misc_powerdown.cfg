SPECIFICATION Spec
CONSTANTS
    Keys = {"SET", "OPEN"}
    Checks = {"POWERDOWN", "EMERGENCY"}
    Inputs = {"SMOKE", "FIRE"}
    SmokeInputs = {"SMOKE"}
    Relays = {"r1"}
    FIRE_MACHINE = TRUE
    LockTime = 1
    PollTime = 0
    ReportTime = 1
    SaveTime = 0
    TimeMax = 3
    DoorValues = {}
    Garbage = {}
    Events = {"FIRE", "POWERDOWN"}
PROPERTIES NoFireRaisedInPowerDown
