SPECIFICATION MCSpec
CONSTANTS
    Printf = Printf
    SV_ExecuteClientMessage = SV_ExecuteClientMessage
    HookOrder <- MCHookOrder
    Packet = SV_PacketEvent
    DetachMayFail = TRUE
    MaxLoads = 3
    MaxDepth = 4
    JumpLength = 3
    MaxInstruction = 5
    Span = 16
    Addresses = {0, 7, 14}
    Lengths = {1, 2, 5}
    Destinations = {0, 8, 15}
    MaxMaps = 3
    MaxCalls = 2
    BufferSize = 4
    LineLengths = {1, 3, 4}
    MaxLines = 5
    MaxFrames = 3
    FsDebug = FALSE
INVARIANTS
    CodeIsThere
    SameDestinations
    NothingLeftOfTheLastMap
    OnlyOnItsEngine
    LinesArrive
CHECK_DEADLOCK FALSE
