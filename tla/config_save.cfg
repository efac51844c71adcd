SPECIFICATION FairSpec
CONSTANTS
    Fields = {"mqtt", "ver"}
    Values = {"empty", "d", "e"}
    Default <- MCDefault
    Zero <- MCZero
    Erased = "ff"
    NoCrc <- MCNoCrc
    Crc <- MCCrc
    Faults = {"find", "read", "erase", "write"}
    MaxCrashes = 2
    MaxEdits = 3
INVARIANTS ImageNeverTorn SkipsOnlySaved
PROPERTIES BootsGenuine EventuallySaved NbEventuallyUp ImplementsAbs
