\* Two processes run commands on a document whose log may be damaged, with
\* failures at every step.
CONSTANTS
    d1 = d1
    Doc = {d1}
    Proc = {p1, p2}
    None = None
    Fragile = {d1}
    MaxClaims <- MCMaxClaims
SPECIFICATION Spec
INVARIANTS TypeOK StaleIsExcused
PROPERTIES RebuildNeverSetsBack EveryCommandEnds
