SPECIFICATION FairSpec
CONSTANTS
    url = url
    Unset = Unset
    Garbled = Garbled
    MaxInt32 = 31
    c1 = c1
    c2 = c2
    c3 = c3
    Conns = {c1, c2, c3}
    Environments <- Started
INVARIANT
    StopIsBounded
PROPERTIES
    NothingIsCutShort
    StopsWhenTold
