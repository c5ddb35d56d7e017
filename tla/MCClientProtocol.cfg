SPECIFICATION MCFairSpec
CONSTANTS
    Addrs = {a, b}
    Keys = {k, l}
    NoKey = NoKey
    NoAddr = NoAddr
    NoChallenge = NoChallenge
    MaxChallenges = 2
    Span = 2
    FirstTime = 1
    MaxTime = 5
    Pure = TRUE
    Chats = {"plain", "nextdl"}
    MaxId = 3
    MaxLosses = 2
    MaxTyped = 1
    Blocks = 1
INVARIANTS
    OneEntryUntilOldest
    Window
    InTheWorldWithItsMap
    OnlyLeavesByItself
PROPERTIES
    EntersTheMapOnce
