CONSTANTS
    Threads = {1, 2, 3}
    Which <- OwnNumber
SPECIFICATION FairSpec
INVARIANTS
    MutualExclusion
    WordNamesOwner
PROPERTIES
    LockIsTaken
