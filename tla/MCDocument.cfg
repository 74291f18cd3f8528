\* Two stores, two editors, three claims beside those of add.
CONSTANTS
    Store = {s1, s2}
    Editor = {e1, e2}
    Path <- MCPath
    TagArgs <- MCTagArgs
    NoScope = NoScope
    MaxClaims = 6
SPECIFICATION Spec
CHECK_DEADLOCK FALSE
INVARIANTS TypeOK EditsAccepted MergesFold FrontierIsHistory OneHeadHasAll
SYMMETRY Symmetry
