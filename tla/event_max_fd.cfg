CONSTANTS
    h1 = h1
    h2 = h2
    Nobody = Nobody
    Handlers = {h1, h2}
    Backends = {"select"}
    MaxEvents = 2
    Lasting = {0, 1}
    Uses <- SomeUses
SPECIFICATION Spec
INVARIANTS
    MaxFdUpdated
