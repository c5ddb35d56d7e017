SPECIFICATION MCSpec
CONSTANTS
    MaxClients = 3
    b = b
    star = star
    NoName = NoName
    Letters = {b, star}
    Styles = {"plain", "stars", "spaces", "red"}
    MaxName = 3
    Cleaning <- TwoCleanings
    Typed <- FewTyped
    SameValues = {FALSE}
    Bots = {}
    Chars = {"space", "star", "at", "letter", "digit", "escape", "control"}
    MaxTyped = 1
    NameSize = 4
    MinLength = 6
    MaxLength = 7
    LastSeparator = 4
    Powers = 2
    Buffer = 8
    MaxSent = 1
    Interval = 3
    MaxCount = 3
    MaxTime = 9
    MaxInfo = 12
    MaxPairs = 4
INVARIANTS
    IpOfTheConnection
CHECK_DEADLOCK FALSE
