CONSTANTS
    d1 = d1
    d2 = d2
    d3 = d3
    d4 = d4
    d5 = d5
    Keys <- FourKeys
    Data = {d1, d2, d3, d4, d5}
    None = None
    HashOf <- TheirHashes
    IntLimit = 128
    WordBits = 8
    Shift = 2
    BucketSizes <- ThreeSizes
    InitSizes = {0, 3, 5, 9}
SPECIFICATION Spec
SYMMETRY DataSymmetry
INVARIANTS
    TableExact
    DataOwnedOnce
PROPERTY
    ImplementsDictionary
