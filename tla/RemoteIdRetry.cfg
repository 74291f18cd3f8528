\* Two publishers keep coming back to a remote.
CONSTANTS
    Publisher = {p1, p2}
    Id = {i1, i2, i3}
SPECIFICATION FairSpec
PROPERTY MarkedIsFinished
