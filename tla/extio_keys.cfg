SPECIFICATION Spec
CONSTANTS
    Keys = {"SET", "OPEN"}
    Checks = {"POWERDOWN", "EMERGENCY"}
    Inputs = {"a1"}
    Relays = {"r1"}
    FIRE_MACHINE = FALSE
    ByteOf <- MCByteOf
    InputTime = 2
    PressTime = 1
    KeepTime = 3
    CheckTime = 1
    TimeMax = 4
INVARIANTS CheckIsSteadyLow
PROPERTIES NoPressMissed EventsAreEarned ImplementsAbs
