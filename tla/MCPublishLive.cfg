\* One store and its fork on two remotes, one of them with hard links, with
\* publishers that come back after interruptions.
CONSTANTS
    s1 = s1
    s2 = s2
    w1 = w1
    w2 = w2
    r1 = r1
    r2 = r2
    create = create
    version = version
    Store = {s1}
    Remote = {r1, r2}
    Writer = {w1, w2}
    FirstDrawn = {w1}
    Claim = {version}
    Version = {version}
    Needs <- MCNeeds
    HardLinks = {r2}
    CopyTarget = {}
    Fragile = {s1}
SPECIFICATION FairSpec
INVARIANTS SelfContained StateMatchesRemote 
PROPERTY PendingSettles
