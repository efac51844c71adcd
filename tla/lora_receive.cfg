SPECIFICATION Spec
CONSTANTS
    H1 = 1
    H2 = 2
    Devices = {3, 6}
    Building = 4
    Foreign = 5
    CMD_REPORT = 7
    CMD_SET = 8
    Other = 9
    MaxLen = 4
    Crc <- MCCrc
    SMOKE_NUM = 1
    RecvBuf = 8
    SetupRead = 1
    Bufsz = 3
    Frames <- MCFrames
    Garbage = {1}
    Replies = 1
    MaxBehind = 2
    MaxFrames = 2
    MaxBands = 1
    MaxLost = 1
INVARIANTS OverrunOnlyIfLong NoLostWakeup EachByteOnce CleanFrameHeard OnlySenders
CHECK_DEADLOCK FALSE
