\* A store, a copy of it and one fork, on one remote without hard links.
CONSTANTS
    s1 = s1
    s2 = s2
    w1 = w1
    w2 = w2
    r1 = r1
    r2 = r2
    create = create
    version = version
    Store = {s1, s2}
    Remote = {r1}
    Writer = {w1, w2}
    FirstDrawn = {w1, w2}
    Claim = {create, version}
    Version = {version}
    Needs <- MCNeeds
    HardLinks = {}
    CopyTarget = {s1, s2}
    Fragile = {}
SPECIFICATION Spec
INVARIANTS TypeOK OneChain ReservedAhead SelfContained NothingDropped StateMatchesRemote
PROPERTY NoBraid
SYMMETRY Symmetry
