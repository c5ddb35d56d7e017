SPECIFICATION MCFairSpec
CONSTANTS
    Addrs = {a}
    Keys = {k}
    NoKey = NoKey
    NoAddr = NoAddr
    NoChallenge = NoChallenge
    MaxChallenges = 2
    Span = 2
    FirstTime = 1
    MaxTime = 1
    Pure = TRUE
    Chats = {"nextdl"}
    MaxId = 2
    MaxLosses = 0
    MaxTyped = 1
    Blocks = 1
PROPERTIES
    AlwaysEntersTheMap
