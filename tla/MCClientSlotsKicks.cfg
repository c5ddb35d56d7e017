SPECIFICATION Spec
CONSTANTS
    h1 = h1
    h2 = h2
    a1 = a1
    a2 = a2
    Slots = {s1, s2}
    Humans = {h1, h2}
    Bots = {b1}
    Nobody = Nobody
    NoAddr = NoAddr
    AddrOf <- MCAddrOf
    Written <- MCWritten
    MaxLimit = 1
SYMMETRY Symmetry
PROPERTIES
    KicksOnlyTheVotedOne
