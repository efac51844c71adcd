SPECIFICATION Spec
CONSTANTS
    Keys = {"SET", "OPEN"}
    Checks = {"POWERDOWN", "EMERGENCY"}
    Inputs = {"SMOKE", "FIRE"}
    SmokeInputs = {"SMOKE"}
    Relays = {"r1"}
    FIRE_MACHINE = FALSE
    LockTime = 0
    PollTime = 0
    ReportTime = 1
    SaveTime = 0
    TimeMax = 3
    DoorValues = {}
    Garbage = {}
    Events = {"SET", "OPEN", "POWERDOWN", "EMERGENCY", "utest"}
INVARIANTS NeverLeftUnlocked
PROPERTIES UsesExtio
