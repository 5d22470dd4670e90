SPECIFICATION Spec
CONSTANTS
    None = None
    V4Bits = 3
    V6Bits = 5
    WordBits = 4
    CapBits = 2
    MaxChildren = 3
    MaxIPs = 8
    Roots <- RootsAll
    Lengths <- LengthsAll
INVARIANTS
    TypeOK
    ChildFoundIffFree
    LargestHoleKept
    SmallestPrefixesExact
    FullIffNoIPLeft
CHECK_DEADLOCK FALSE
