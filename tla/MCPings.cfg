SPECIFICATION MCSpec
CONSTANTS
    Backup = 2
    RttSamples = 3
    Half = 8
    Second = 2
    Memory = 3
    MaxRtt = 3
    MaxPing = 5
    Scenarios <- MCScenarios
    MaxMessages = 3
    WindowSamples = 2
    Enough = 1
    Window = 2
    Estimates = {0, 1, 2}
    WindowNow = 11
    WindowPackets = 3
    PacketSamples = 3
    RatesBackup = 3
    RatesSecond = 3
    Header = 1
    Sizes = {1, 4}
    Intervals = {1, 2, 4}
    Cmds = {0, 2}
    RatesNow = 7
    RatesPackets = 2
    Chunk = 4
    TextSize = 14
    Command = 7
    Quotes = 3
    LineLengths = {1, 2, 3, 4, 5, 9}
    MaxLines = 4
    Inputs <- MCInputs
    Phases = 2
    WarmSnapshots = 10
    Snapshots = 40
    ClientPackets = 10
INVARIANTS
    PingsAreDelays
    TimenudgeAsShown
    LastSecondAsItWas
    EveryCharacterOnce
CHECK_DEADLOCK FALSE
