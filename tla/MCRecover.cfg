\* A store that publishes, forks and publishes again to a remote with hard links
\* while a new store is recovered from it, and then publishes too.
CONSTANTS
    s1 = s1
    s2 = s2
    w1 = w1
    w2 = w2
    w3 = w3
    r1 = r1
    a = a
    b = b
    Store = {s1, s2}
    Remote = {r1}
    Writer = {w1, w2, w3}
    FirstDrawn = {w1, w2, w3}
    Claim = {a, b}
    Version = {a, b}
    Needs <- MCNeeds
    HardLinks = {r1}
    CopyTarget = {}
    Fragile = {}
SPECIFICATION RecoverSpec
INVARIANTS RecoverTypeOK NeverIncomplete
PROPERTY IsBackup
SYMMETRY Symmetry
