SPECIFICATION MCSpec
CONSTANTS
    ann = ann
    bob = bob
    redAnn = redAnn
    MaxClients = 3
    SvMaxClients = 2
    Names = {ann, bob, redAnn}
    Plain <- MCPlain
    NoName = NoName
    Texts <- MCTexts
    Orders = 7
    MaxMapRestart = 60
    DisableKill = TRUE
    NetStatusOn = TRUE
    MessageSizes = {0, 1, 3, 6}
    Widths <- ValueWidths
    OobWidths = {8, 16, 32}
    MaxSymbol = 11
    InfoSize = 4
    MaxTokens = 2
    MaxText = 7
    MaxGentities = 3
    EntitySizes = {1, 2}
    Numbers <- EntityNumbers
    Octets = {0, 1}
    Places = 2
    Wildcard = Wildcard
    Bad = Bad
    Hole = Hole
    MaxIpFilters = 2
    Words <- MCWords
    FileSizes = {0, 3}
INVARIANTS
    ArgumentsAsMeant
    SpectatorsAmongThemselves
    TokensFit
    WorldIsWhatWasLinked
    BannedOnce
    FileIsList
PROPERTIES
    BansAsSpelled
    ReadsEndWithTheMessage
CHECK_DEADLOCK FALSE
