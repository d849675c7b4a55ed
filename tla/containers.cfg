CONSTANTS
    Nodes = {1, 2, 3, 4, 5, 6, 7, 8, 9, 10, 11, 12}
    Nil = Nil
    MaxHeight = 5
    KeyOf <- OwnKey
    HeapItems = {1, 2, 3, 4, 5, 6, 7}
    Prio <- SomePrios
    Junk = Junk
    HeapInitSize = 2
    HeapIncrSize = 2
    SkipNodes = {1, 2, 3, 4}
    Header = Header
    Null = Null
    SkipKeys = {1, 2}
    SkipMaxLevel = 3
    a = a
    b = b
    x1 = x1
    x2 = x2
    x3 = x3
    Heads = {a, b}
    ListNodes = {x1, x2, x3}
    Nowhere = Nowhere
    MaxAppends = 2
    Filters = {1, 2}
    BloomKeys <- TwoKeys
    HashCount = 2
    BitCount = 8
    Salts = {0, 1, 200}
    DefaultHash <- SomeDefaultHash
    OwnHash <- SomeOwnHash
SPECIFICATION ContainersSpec
INVARIANTS
    StaysBalanced
    TreeExact
    HeapShape
    SkipShape
    LoopsComplete
    NoFalseNegative
PROPERTIES
    ImplementsPriorityQueue
    ImplementsStacks
