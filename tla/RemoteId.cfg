\* Three publishers race for a remote without an id and keep coming back.
CONSTANTS
    Publisher = {p1, p2, p3}
    Id = {i1, i2, i3, i4}
SPECIFICATION FairSpec
INVARIANTS TypeOK OneIdForEver
PROPERTY EveryoneLearns
