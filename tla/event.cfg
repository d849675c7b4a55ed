CONSTANTS
    h1 = h1
    h2 = h2
    Nobody = Nobody
    Handlers = {h1, h2}
    Backends = {"epoll", "kqueue", "select"}
    MaxEvents = 2
    Lasting = {0}
    Uses <- SomeUses
SPECIFICATION FairSpec
INVARIANTS
    TableMatchesKernel
PROPERTIES
    ImplementsWatches
    ReadyIsServed
