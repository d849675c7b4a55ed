CONSTANTS
    Filters = {1, 2}
    BloomKeys <- TwoKeys
    HashCount = 2
    BitCount = 8
    Salts = {0, 1, 200}
    DefaultHash <- SomeDefaultHash
    OwnHash <- SomeOwnHash
SPECIFICATION BloomSpec
INVARIANTS
    SaltsDiffer
