SPECIFICATION Spec
CONSTANTS
    Keys = {}
    Checks = {}
    Inputs = {"a1", "a2", "b1"}
    Relays = {}
    FIRE_MACHINE = TRUE
    ByteOf <- MCByteOf
    InputTime = 2
    PressTime = 1
    KeepTime = 2
    CheckTime = 1
    TimeMax = 3
INVARIANTS SteadyInputAccepted
PROPERTIES GlitchRejected
